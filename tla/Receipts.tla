------------------------------ MODULE Receipts ------------------------------
(***************************************************************************)
(* What a charge leaves behind, on top of Vault: the billing statement,    *)
(* its compaction, the idempotency key that makes a resubmitted charge     *)
(* harmless, and the report of a batch. Every step is a step of Vault or   *)
(* leaves Vault's state alone. A batch that names several ids is a         *)
(* sequence of items at one ledger time. Calls that succeed without a      *)
(* write (a key that is alive, renewal switched off) are no steps.         *)
(***************************************************************************)
EXTENDS Vault, Sequences, Functions

CONSTANTS
    Keys,          \* idempotency keys callers may pass
    IdemHistory,   \* IDEM_HISTORY: keys kept for a subscription
    DefaultTtl,    \* IDEM_TTL_SECS: lifetime of a key before it is configured
    TtlChoices,    \* lifetimes the admin may configure
    KeepChoices    \* retention the admin may configure

ASSUME ReceiptsAssumption ==
    /\ IdemHistory \in Nat \ {0} /\ DefaultTtl \in Nat \ {0} /\ TtlChoices \subseteq Nat
    /\ KeepChoices \subseteq Nat
    /\ None \notin Keys
    /\ IsFiniteSet(Merchants)   \* the addresses the contract has met

VARIABLES
    rows,      \* retained BillingStatements, oldest first
    pruned,    \* BillingStatementAggregate of the compacted ones
    keep,      \* BillingRetentionConfig.keep_recent
    idem,      \* IdemRingBuffer
    ttl,       \* configured lifetime of a key
    unbacked,  \* history: credits nobody was debited for, tokens taken out likewise
    live,      \* history: keys recorded and unexpired ever since, under every lifetime
    twice      \* history: keys charged while live

receipt_vars == <<rows, pruned, keep, idem, ttl, unbacked, live, twice>>
receipted_vars == <<vars, receipt_vars>>

Kinds == {"Interval", "Usage", "OneOff"}
Domains == {"CHARGE_INTERVAL", "CHARGE_ONEOFF"}

\* hash_idem_key: the domain separates operations, the buffer subscriptions.
hash_idem_key(domain, k) == <<domain, k>>

-----------------------------------------------------------------------------
(* Statements.                                                             *)

append_statement(s, kind, a) ==
    rows' = [rows EXCEPT ![s] = Append(@, [kind |-> kind, amount |-> a])]

Total(seq, kinds) ==
    LET sum[i \in 0..Len(seq)] ==
          IF i = 0 THEN 0
          ELSE sum[i - 1] + (IF seq[i].kind \in kinds THEN seq[i].amount ELSE 0)
    IN  sum[Len(seq)]

\* Mutant: the aggregate is replaced by the totals of this compaction.
FoldReplacing(agg, old) ==
    [count |-> agg.count + Len(old), totals |-> [k \in Kinds |-> Total(old, {k})]]

\* The aggregate accumulates over compactions.
FoldInto(agg, old) ==
    [count |-> agg.count + Len(old),
     totals |-> [k \in Kinds |-> agg.totals[k] + Total(old, {k})]]

\* All but the most recent n statements are folded into the aggregate.
CompactBillingStatements(s, n) ==
    LET old == Len(rows[s]) - n IN
    /\ old > 0
    /\ pruned' = [pruned EXCEPT ![s] = FoldInto(@, SubSeq(rows[s], 1, old))]
    /\ rows' = [rows EXCEPT ![s] = SubSeq(@, old + 1, Len(@))]
    /\ UNCHANGED <<vars, keep, idem, ttl, unbacked, live, twice>>

SetBillingRetention(n) ==
    /\ keep' = n
    /\ UNCHANGED <<vars, rows, pruned, idem, ttl, unbacked, live, twice>>

-----------------------------------------------------------------------------
(* Idempotency keys.                                                       *)

Expired(at, t, lifetime) == t - at >= lifetime

\* A recorded key counts while it is younger than the lifetime configured now.
check_key(s, h) ==
    \E i \in DOMAIN idem[s] : idem[s][i].key = h /\ ~Expired(idem[s][i].at, now, ttl)

Fresh(s, domain, k) == k # None => ~check_key(s, hash_idem_key(domain, k))

Retained(s) ==
    LET kept[i \in 0..Len(idem[s])] ==
          IF i = 0 THEN <<>>
          ELSE IF Expired(idem[s][i].at, now, ttl) THEN kept[i - 1]
          ELSE Append(kept[i - 1], idem[s][i])
    IN  kept[Len(idem[s])]
HasRoom(s) == Len(Retained(s)) < IdemHistory

\* Mutant: the buffer is a ring that gives up its oldest entry.
push_key_evicting(s, h) ==
    idem' = [idem EXCEPT ![s] =
        Append(IF HasRoom(s) THEN Retained(s) ELSE Tail(Retained(s)), [key |-> h, at |-> now])]

\* Expired entries make room; an entry that is alive is never given up.
push_key(s, h) ==
    /\ HasRoom(s)
    /\ idem' = [idem EXCEPT ![s] = Append(Retained(s), [key |-> h, at |-> now])]

\* History of a charge that recorded the key it was made under.
NoteUse(s, h) ==
    /\ twice' = IF live[s][h] # None THEN twice \cup {h} ELSE twice
    /\ live' = [live EXCEPT ![s][h] = now]

RecordKey(s, domain, k) ==
    IF k = None THEN UNCHANGED <<idem, live, twice>>
    ELSE push_key(s, hash_idem_key(domain, k)) /\ NoteUse(s, hash_idem_key(domain, k))

\* History: what is left of the live keys at time t under a lifetime.
StillLive(t, lifetime) ==
    [s \in Subs |-> [h \in Domains \X Keys |->
        IF live[s][h] # None /\ Expired(live[s][h], t, lifetime) THEN None ELSE live[s][h]]]

SetIdempotencyTtl(t) ==
    /\ t # 0
    /\ ttl' = t /\ live' = StillLive(now, t)
    /\ UNCHANGED <<vars, rows, pruned, keep, idem, unbacked, twice>>

-----------------------------------------------------------------------------
(* Charges and their receipts.                                             *)

\* charge_subscription: a key that cannot be recorded fails the whole call.
\* A call under a live key returns Charged and changes nothing.
ChargeSubscription(s, a, k) ==
    /\ Fresh(s, "CHARGE_INTERVAL", k)
    /\ ChargeCollect(s, a)
    /\ append_statement(s, "Interval", a)
    /\ RecordKey(s, "CHARGE_INTERVAL", k)
    /\ UNCHANGED <<pruned, keep, ttl, unbacked>>

\* The batch catches the error of an item whose key cannot be recorded: charge
\* and statement stay, the item is reported as failed.
BatchCharge(s, a, k) ==
    /\ Fresh(s, "CHARGE_INTERVAL", k)
    /\ ChargeCollect(s, a)
    /\ append_statement(s, "Interval", a)
    /\ IF k # None /\ ~HasRoom(s) THEN UNCHANGED <<idem, live, twice>>
                                 ELSE RecordKey(s, "CHARGE_INTERVAL", k)
    /\ UNCHANGED <<pruned, keep, ttl, unbacked>>

\* A usage charge over the lifetime cap debits nothing and has no statement.
ChargeUsageStated(s, a) ==
    /\ ChargeUsage(s, a)
    /\ IF lifetime_cap_allows(sub[s], a) THEN append_statement(s, "Usage", a)
                                         ELSE UNCHANGED rows
    /\ UNCHANGED <<pruned, keep, idem, ttl, unbacked, live, twice>>

ChargeOneOffStated(s, a, k) ==
    /\ Fresh(s, "CHARGE_ONEOFF", k)
    /\ ChargeOneOff(s, a)
    /\ append_statement(s, "OneOff", a)
    /\ RecordKey(s, "CHARGE_ONEOFF", k)
    /\ unbacked' = unbacked + a
    /\ UNCHANGED <<pruned, keep, ttl>>

\* A buyout records its key without looking for it.
GraceBuyoutStated(s, c, a, k) ==
    /\ GraceBuyout(s, c, a)
    /\ append_statement(s, "Interval", c)
    /\ IF k = None THEN UNCHANGED idem ELSE push_key(s, hash_idem_key("CHARGE_INTERVAL", k))
    /\ unbacked' = unbacked + a + Bps(c, PremiumBps)
    /\ UNCHANGED <<pruned, keep, ttl, live, twice>>

-----------------------------------------------------------------------------
ReceiptsInit ==
    /\ Init
    /\ rows = [s \in Subs |-> <<>>]
    /\ pruned = [s \in Subs |-> [count |-> 0, totals |-> [k \in Kinds |-> 0]]]
    /\ keep = 0 /\ idem = [s \in Subs |-> <<>>] /\ ttl = DefaultTtl
    /\ unbacked = 0 /\ live = [s \in Subs |-> [h \in Domains \X Keys |-> None]]
    /\ twice = {}

Receipted(s) ==
    \/ \E k \in Keys \cup {None} :
          \/ \E a \in ChargeAmounts : ChargeSubscription(s, a, k) \/ BatchCharge(s, a, k)
          \/ \E a \in OneOffAmounts : ChargeOneOffStated(s, a, k)
          \/ \E c \in ChargeAmounts, a \in BuyoutAmounts : GraceBuyoutStated(s, c, a, k)
    \/ \E a \in UsageAmounts : ChargeUsageStated(s, a)
    \/ CompactBillingStatements(s, keep)

\* What else a subscription goes through: no receipt is written.
Unreceipted(s) ==
    /\ \/ Dunning(s) \/ Control(s)
       \/ \E cap \in Caps, t \in Times : CreateSubscription(s, cap, t)
       \/ \E cap \in Caps, trial \in Trials : CreateSubscriptionFromPlan(s, cap, trial)
       \/ \E a \in DepositAmounts : DepositFunds(s, a)
       \/ \E a \in BulkAmounts : BulkDepositFunds(s, a)
       \/ \E a \in DelegatedAmounts : DepositFundsOnBehalf(s, a)
       \/ RequestEmergencyWithdraw(s) \/ FinalizeEmergencyWithdraw(s)
       \/ WithdrawSubscriberFunds(s)
       \/ \E a \in RefundAmounts : PartialRefund(s, a)
    /\ UNCHANGED receipt_vars

\* Stranded-fund recovery takes tokens out of the vault and debits nobody.
Recovered == IF sub' = sub /\ bal' = bal THEN vault - vault' ELSE 0

ReceiptsNext ==
    \/ \E s \in Subs : Receipted(s) \/ Unreceipted(s)
    \/ \E n \in KeepChoices : SetBillingRetention(n)
    \/ \E t \in TtlChoices : SetIdempotencyTtl(t)
    \/ /\ Administration
       /\ live' = StillLive(now', ttl)
       /\ unbacked' = unbacked + Recovered
       /\ UNCHANGED <<rows, pruned, keep, idem, ttl, twice>>

ReceiptsSpec == ReceiptsInit /\ [][ReceiptsNext]_receipted_vars

-----------------------------------------------------------------------------
(* Properties.                                                             *)

Stated(s, kinds) == Total(rows[s], kinds)
    + (IF "Interval" \in kinds THEN pruned[s].totals["Interval"] ELSE 0)
    + (IF "Usage" \in kinds THEN pruned[s].totals["Usage"] ELSE 0)

\* What a subscription was charged over its life is what its statements add up
\* to, the live ones and those compaction has folded into the aggregate, whatever
\* the order of charges, buyouts, failed batch items and compactions. One-off
\* statements are left out: do_charge_one_off never stores lifetime_charged.
StatementsReconcile == \A s \in Subs : sub[s].charged = Stated(s, {"Interval", "Usage"})

\* What the vault owes: prepaid money to subscribers, earnings to accounts.
Liabilities == SumFunction([s \in Subs |-> sub[s].prepaid]) + SumFunction(bal)

\* The vault owes what it holds and what one-off charges, buyouts and recoveries
\* have taken from nobody's balance, to the unit: deposits, charges, fee splits,
\* refunds, cancellations and withdrawals neither create nor lose money.
BooksBalance == Liabilities = vault + unbacked

\* idempotency.rs: as long as the lifetime of a recorded key has not run out,
\* under any of the lifetimes configured meanwhile, no second charge is made
\* under it; a full buffer refuses a new key rather than forget one.
KeyChargedOnce == twice = {}
=============================================================================
