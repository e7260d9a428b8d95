----------------------------- MODULE Settlement -----------------------------
(***************************************************************************)
(* The merchant side of the vault: what a collected charge credits (split  *)
(* payees, labelled sub-accounts), earnings records, withdrawals, refunds, *)
(* scheduled payouts, rotation of a merchant's address and disputes.       *)
(*                                                                         *)
(* Subscribers' prepaid money appears as one pool per token; when a charge *)
(* may be collected from it is the subject of module Vault. Fees, which    *)
(* only split the amount once more, are left to Vault as well. An          *)
(* entrypoint is one atomic step: an error or a failed token transfer      *)
(* rolls all of it back.                                                   *)
(***************************************************************************)
EXTENDS Integers, Sequences, FiniteSets, Functions

CONSTANTS
    Merchants, Tokens, Labels, Subs,
    TokenOf,           \* Subscription.token
    LabelOf,           \* Subscription.sub_account_label, or NoLabel
    NoLabel,
    MerchantAtCreation,\* Subscription.merchant before any rotation
    Funds,             \* prepaid money of every token at the start
    ChargeAmounts, WithdrawAmounts, SubAccountAmounts, RefundAmounts, DisputeAmounts,
    SplitChoices,      \* what subscribers pass to update_split_payees
    ScheduleChoices,   \* what merchants pass to set_payout_schedule
    Windows,           \* what the admin passes to set_dispute_window_secs
    DefaultWindow,     \* DISPUTE_WINDOW_SECS
    Rotations,         \* <<old, new>> pairs the admin may rotate
    MaxDisputes,       \* disputes opened before the model stops opening more
    MaxUnbacked,       \* credited without a debit per token before the model stops it
    MaxTime            \* the clock stops here

None == -1
Accounts == Merchants \X Tokens
DisputeIds == 0..(MaxDisputes - 1)

\* SplitPayees: a list of payees with weights in basis points that add up to the
\* whole amount; empty for a subscription without one.
Whole == 10000
SplitEntry == [payee : Merchants, weight : 1..Whole]
Weight(entries) == SumFunction([i \in DOMAIN entries |-> entries[i].weight])
Splits == {<<>>} \cup {e \in SplitChoices : Weight(e) = Whole}

ASSUME SettlementAssumption ==
    /\ IsFiniteSet(Merchants) /\ IsFiniteSet(Tokens) /\ IsFiniteSet(Labels)
    /\ TokenOf \in [Subs -> Tokens]
    /\ NoLabel \notin Labels /\ LabelOf \in [Subs -> Labels \cup {NoLabel}]
    /\ MerchantAtCreation \in [Subs -> Merchants]
    /\ Funds \in [Tokens -> Nat]
    /\ ChargeAmounts \subseteq Nat \ {0}
    /\ WithdrawAmounts \subseteq Nat /\ SubAccountAmounts \subseteq Nat
    /\ RefundAmounts \subseteq Nat /\ DisputeAmounts \subseteq Nat
    /\ SplitChoices \subseteq Seq(SplitEntry)
    /\ ScheduleChoices \subseteq [cadence : Nat, min : Nat]
    /\ Windows \subseteq Nat /\ DefaultWindow \in Nat
    /\ Rotations \subseteq Merchants \X Merchants
    /\ MaxDisputes \in Nat /\ MaxUnbacked \in Nat /\ MaxTime \in Nat \ {0}

VARIABLES
    now,          \* ledger timestamp, 1 at the start: 0 means "never" in schedules
    prepaid,      \* subscribers' money per token
    vault,        \* token balances of the contract
    unbacked,     \* history: credited by batch items that failed before the debit
    bal,          \* MerchantBalance(merchant, token); i128, so it may be negative
    earn,         \* MerchantEarnings(merchant, token)
    tokensOf,     \* MerchantTokens(merchant)
    configured,   \* merchants with a MerchantConfig
    subAccount,   \* MerchantSubAccount(merchant, label), None if not registered
    schedule,     \* PayoutSchedule(merchant)
    merchantOf,   \* Subscription.merchant
    subsOf,       \* MerchantSubs(merchant)
    split,        \* SplitPayees(subscription)
    nextDispute,  \* NextDisputeId
    dispute,      \* Dispute(id) of the ids handed out so far
    escrow,       \* what DisputeEscrow(id) still holds; 0 once the key is removed
    disputeOf,    \* SubscriptionDispute(subscription), None without the key
    window        \* DisputeWindowSecs

money == <<prepaid, vault, unbacked>>
books == <<bal, earn, tokensOf, subAccount>>
setup == <<configured, schedule, merchantOf, subsOf, split>>
disputes == <<nextDispute, dispute, escrow, disputeOf, window>>
vars == <<now, money, books, setup, disputes>>

Earnings == [accrued : Nat, withdrawn : Nat, refunded : Nat]
NoEarnings == [accrued |-> 0, withdrawn |-> 0, refunded |-> 0]
NoSchedule == [cadence |-> 0, min |-> 0, last |-> 0]

DisputeStatus == {"Open", "Responded", "ResolvedToMerchant", "ResolvedToSubscriber"}
Unresolved == {"Open", "Responded"}
Dispute == [sub : Subs, merchant : Merchants, amount : Nat, openedAt : Nat,
            status : DisputeStatus]

-----------------------------------------------------------------------------
(* A collected charge reaches its payees.                                  *)

Bps(x, bps) == (x * bps) \div Whole

\* Shares are truncated; the first payee takes what the others leave.
Others(entries, a) ==
    SumFunction([i \in 2..Len(entries) |-> Bps(a, entries[i].weight)])

\* Mutant: the first payee's share is truncated like the others.
ShareTruncated(entries, i, a) == Bps(a, entries[i].weight)

Share(entries, i, a) ==
    IF i = 1 THEN a - Others(entries, a) ELSE Bps(a, entries[i].weight)

Payees(s) == IF split[s] = <<>> THEN {merchantOf[s]}
             ELSE {split[s][i].payee : i \in DOMAIN split[s]}

\* What merchant m is credited of a charge of amount a on subscription s.
Credit(s, m, a) ==
    IF split[s] = <<>> THEN (IF m = merchantOf[s] THEN a ELSE 0)
    ELSE SumFunction([i \in {j \in DOMAIN split[s] : split[s][j].payee = m} |->
                        Share(split[s], i, a)])

\* credit_charge_payees: balances, accruals and token lists of the payees.
Due(s, a, x) == IF x[2] = TokenOf[s] THEN Credit(s, x[1], a) ELSE 0
CreditPayees(s, a) ==
    /\ earn' = [x \in Accounts |-> [earn[x] EXCEPT !.accrued = @ + Due(s, a, x)]]
    /\ tokensOf' = [n \in Merchants |-> IF n \in Payees(s) THEN tokensOf[n] \cup {TokenOf[s]}
                                                           ELSE tokensOf[n]]

\* What a charge writes. A labelled subscription routes the whole amount on to
\* the sub-account of its merchant and takes it off the merchant's balance,
\* whoever was credited; the checked subtraction guards against wrap-around
\* only, not against debt.
Distribute(s, a) ==
    LET t == TokenOf[s]
        m == merchantOf[s]
        routed(x) == IF LabelOf[s] # NoLabel /\ x = <<m, t>> THEN a ELSE 0
    IN
    /\ prepaid' = [prepaid EXCEPT ![t] = @ - a]
    /\ bal' = [x \in Accounts |-> bal[x] + Due(s, a, x) - routed(x)]
    /\ CreditPayees(s, a)
    /\ subAccount' = IF LabelOf[s] = NoLabel THEN subAccount
                     ELSE [subAccount EXCEPT ![<<m, LabelOf[s]>>] = @ + a]
    /\ UNCHANGED <<now, vault, unbacked, setup, disputes>>

SubAccountExists(s) == LabelOf[s] # NoLabel => subAccount[<<merchantOf[s], LabelOf[s]>>] # None

CreditCharge(s, a) == prepaid[TokenOf[s]] >= a /\ SubAccountExists(s) /\ Distribute(s, a)

\* A label nobody registered for the merchant fails the charge after the payees
\* were credited and before the subscription is stored. A call of its own is
\* rolled back; an item of a batch is not, and can be charged again.
BatchChargeUnrouted(s, a) ==
    /\ prepaid[TokenOf[s]] >= a /\ ~SubAccountExists(s)
    /\ unbacked[TokenOf[s]] + a <= MaxUnbacked
    /\ bal' = [x \in Accounts |-> bal[x] + Due(s, a, x)]
    /\ CreditPayees(s, a)
    /\ unbacked' = [unbacked EXCEPT ![TokenOf[s]] = @ + a]
    /\ UNCHANGED <<now, prepaid, vault, subAccount, setup, disputes>>

UpdateSplitPayees(s, entries) ==
    /\ split' = [split EXCEPT ![s] = entries]
    /\ UNCHANGED <<now, money, books, configured, schedule, merchantOf, subsOf, disputes>>

-----------------------------------------------------------------------------
(* Money out.                                                              *)

\* The token contract refuses a transfer that the vault cannot cover.
Pay(t, a) == vault[t] >= a /\ vault' = [vault EXCEPT ![t] = @ - a]

\* The withdrawal is booked under refunds and again under withdrawals.
WithdrawMerchantFunds(m, t, a) ==
    /\ a > 0 /\ m \in configured
    /\ a <= bal[<<m, t>>]
    /\ bal' = [bal EXCEPT ![<<m, t>>] = @ - a]
    /\ earn' = [earn EXCEPT ![<<m, t>>].refunded = @ + a, ![<<m, t>>].withdrawn = @ + a]
    /\ Pay(t, a)
    /\ UNCHANGED <<now, prepaid, unbacked, tokensOf, subAccount, setup, disputes>>

MerchantRefund(m, t, a) ==
    /\ a > 0 /\ m \in configured
    /\ a <= bal[<<m, t>>]
    /\ bal' = [bal EXCEPT ![<<m, t>>] = @ - a]
    /\ earn' = [earn EXCEPT ![<<m, t>>].refunded = @ + a]
    /\ Pay(t, a)
    /\ UNCHANGED <<now, prepaid, unbacked, tokensOf, subAccount, setup, disputes>>

RegisterSubAccount(m, l) ==
    /\ m \in configured /\ subAccount[<<m, l>>] = None
    /\ subAccount' = [subAccount EXCEPT ![<<m, l>>] = 0]
    /\ UNCHANGED <<now, money, bal, earn, tokensOf, setup, disputes>>

\* Mutant: the withdrawal is not booked in the merchant's earnings.
WithdrawSubAccountUnbooked(m, l, t, a) ==
    /\ a > 0 /\ subAccount[<<m, l>>] # None
    /\ a <= subAccount[<<m, l>>]
    /\ subAccount' = [subAccount EXCEPT ![<<m, l>>] = @ - a]
    /\ Pay(t, a)
    /\ UNCHANGED <<now, prepaid, unbacked, bal, earn, tokensOf, setup, disputes>>

\* The balance of a sub-account has no token: the caller names the token.
WithdrawSubAccountFunds(m, l, t, a) ==
    /\ a > 0 /\ subAccount[<<m, l>>] # None
    /\ a <= subAccount[<<m, l>>]
    /\ subAccount' = [subAccount EXCEPT ![<<m, l>>] = @ - a]
    /\ earn' = [earn EXCEPT ![<<m, t>>].withdrawn = @ + a]
    /\ Pay(t, a)
    /\ UNCHANGED <<now, prepaid, unbacked, bal, tokensOf, setup, disputes>>

SetPayoutSchedule(m, c) ==
    /\ schedule' = [schedule EXCEPT ![m].cadence = c.cadence, ![m].min = c.min]
    /\ UNCHANGED <<now, money, books, configured, merchantOf, subsOf, split, disputes>>

\* flush_merchant_token pays out a whole balance or leaves it alone.
Flushed(m, t) == t \in tokensOf[m] /\ bal[<<m, t>>] > 0 /\ bal[<<m, t>>] >= schedule[m].min

FlushPayouts(m) ==
    LET paid(t) == IF Flushed(m, t) THEN bal[<<m, t>>] ELSE 0
        due(x) == IF x[1] = m THEN paid(x[2]) ELSE 0
    IN
    /\ schedule[m].cadence # 0 \/ schedule[m].min # 0
    /\ schedule[m].last > 0 => now - schedule[m].last >= schedule[m].cadence
    /\ (\E t \in Tokens : Flushed(m, t)) => m \in configured
    /\ \A t \in Tokens : vault[t] >= paid(t)
    /\ vault' = [t \in Tokens |-> vault[t] - paid(t)]
    /\ bal' = [x \in Accounts |-> bal[x] - due(x)]
    /\ earn' = [x \in Accounts |-> [earn[x] EXCEPT !.withdrawn = @ + due(x)]]
    /\ schedule' = [schedule EXCEPT ![m].last = now]
    /\ UNCHANGED <<now, prepaid, unbacked, tokensOf, subAccount, configured, merchantOf, subsOf,
                   split, disputes>>

-----------------------------------------------------------------------------
(* Configuration and rotation.                                             *)

InitializeMerchantConfig(m) ==
    /\ configured' = configured \cup {m}
    /\ UNCHANGED <<now, money, books, schedule, merchantOf, subsOf, split, disputes>>

\* Keys of the old address are added to (balance, token list, index) or written
\* over (earnings, config) those of the new one and then removed, also when
\* both are the same. Sub-accounts, payout schedule, split lists and disputes
\* keep naming the old address.
Rotated(f, old, new, gone, merged) ==
    [m \in Merchants |-> IF m = old THEN gone ELSE IF m = new THEN merged ELSE f[m]]

\* Mutant: what the new address has earned already is overwritten.
RotateOverwriting(old, new) ==
    /\ bal' = [x \in Accounts |->
                 IF x[2] \notin tokensOf[old] \/ x[1] \notin {old, new} THEN bal[x]
                 ELSE IF x[1] = old THEN 0 ELSE bal[<<old, x[2]>>]]
    /\ tokensOf' = Rotated(tokensOf, old, new, {}, tokensOf[new] \cup tokensOf[old])
    /\ subsOf' = Rotated(subsOf, old, new, {}, subsOf[new] \cup subsOf[old])
    /\ merchantOf' = [s \in Subs |-> IF s \in subsOf[old] THEN new ELSE merchantOf[s]]
    /\ UNCHANGED <<now, money, earn, configured, subAccount, schedule, split, disputes>>

RotateMerchantAddress(old, new) ==
    LET moved(x) == x[2] \in tokensOf[old]
        from(x) == <<old, x[2]>>
    IN
    /\ bal' = [x \in Accounts |->
                 IF ~moved(x) \/ x[1] \notin {old, new} THEN bal[x]
                 ELSE IF x[1] = old THEN 0 ELSE bal[x] + bal[from(x)]]
    /\ earn' = [x \in Accounts |->
                  IF ~moved(x) \/ x[1] \notin {old, new} THEN earn[x]
                  ELSE IF x[1] = old THEN NoEarnings ELSE earn[from(x)]]
    /\ tokensOf' = Rotated(tokensOf, old, new, {}, tokensOf[new] \cup tokensOf[old])
    /\ subsOf' = Rotated(subsOf, old, new, {}, subsOf[new] \cup subsOf[old])
    /\ configured' = (IF old \in configured THEN configured \cup {new} ELSE configured) \ {old}
    /\ merchantOf' = [s \in Subs |-> IF s \in subsOf[old] /\ merchantOf[s] = old
                                     THEN new ELSE merchantOf[s]]
    /\ UNCHANGED <<now, money, subAccount, schedule, split, disputes>>

-----------------------------------------------------------------------------
(* Disputes.                                                               *)

\* The amount moves from the merchant's balance into the escrow of a new dispute.
RecordDispute(s, a) ==
    LET d == nextDispute
        new == [sub |-> s, merchant |-> merchantOf[s], amount |-> a, openedAt |-> now,
                status |-> "Open"]
    IN
    /\ bal' = [bal EXCEPT ![<<merchantOf[s], TokenOf[s]>>] = @ - a]
    /\ escrow' = [escrow EXCEPT ![d] = a]
    /\ nextDispute' = d + 1
    /\ dispute' = [i \in 0..d |-> IF i = d THEN new ELSE dispute[i]]
    /\ disputeOf' = [disputeOf EXCEPT ![s] = d]
    /\ UNCHANGED <<now, money, earn, tokensOf, subAccount, setup, window>>

\* Mutant: a second dispute of the same subscription is not refused.
OpenSecondDispute(s, a) ==
    /\ a > 0 /\ nextDispute < MaxDisputes
    /\ bal[<<merchantOf[s], TokenOf[s]>>] >= a
    /\ RecordDispute(s, a)

\* Mutant: the amount is not compared with the merchant's balance.
OpenUncoveredDispute(s, a) ==
    /\ a > 0 /\ nextDispute < MaxDisputes
    /\ disputeOf[s] = None
    /\ RecordDispute(s, a)

OpenDispute(s, a) ==
    /\ a > 0 /\ nextDispute < MaxDisputes
    /\ disputeOf[s] = None
    /\ bal[<<merchantOf[s], TokenOf[s]>>] >= a
    /\ RecordDispute(s, a)

RespondDispute(d) ==
    /\ dispute[d].status = "Open"
    /\ dispute' = [dispute EXCEPT ![d].status = "Responded"]
    /\ UNCHANGED <<now, money, books, setup, nextDispute, escrow, disputeOf, window>>

WindowElapsed(d) == now - dispute[d].openedAt >= window

\* An unanswered dispute goes to the subscriber whatever the admin asks for.
Resolution(d, toSubscriber) ==
    IF dispute[d].status = "Open" \/ toSubscriber THEN "ResolvedToSubscriber"
                                                  ELSE "ResolvedToMerchant"

Resolvable(d) ==
    /\ dispute[d].status \in Unresolved
    /\ dispute[d].status = "Open" => WindowElapsed(d)
    /\ escrow[d] > 0

\* The escrow goes back to the merchant named in the dispute, or out of the vault.
Disburse(d, resolution) ==
    LET t == TokenOf[dispute[d].sub] IN
    /\ IF resolution = "ResolvedToMerchant"
       THEN /\ bal' = [bal EXCEPT ![<<dispute[d].merchant, t>>] = @ + escrow[d]]
            /\ UNCHANGED vault
       ELSE Pay(t, escrow[d]) /\ UNCHANGED bal
    /\ dispute' = [dispute EXCEPT ![d].status = resolution]
    /\ disputeOf' = [disputeOf EXCEPT ![dispute[d].sub] = None]
    /\ UNCHANGED <<now, prepaid, unbacked, earn, tokensOf, subAccount, setup, nextDispute, window>>

\* Mutant: the escrow ledger is not updated.
ResolveKeepingEscrow(d, toSubscriber) ==
    /\ Resolvable(d)
    /\ Disburse(d, Resolution(d, toSubscriber))
    /\ UNCHANGED escrow

ResolveDispute(d, toSubscriber) ==
    /\ Resolvable(d)
    /\ Disburse(d, Resolution(d, toSubscriber))
    /\ escrow' = [escrow EXCEPT ![d] = 0]

SetDisputeWindowSecs(w) ==
    /\ w > 0
    /\ window' = w
    /\ UNCHANGED <<now, money, books, setup, nextDispute, dispute, escrow, disputeOf>>

Tick ==
    /\ now < MaxTime /\ now' = now + 1
    /\ UNCHANGED <<money, books, setup, disputes>>

-----------------------------------------------------------------------------
Init ==
    /\ now = 1
    /\ prepaid = Funds /\ vault = Funds /\ unbacked = [t \in Tokens |-> 0]
    /\ bal = [x \in Accounts |-> 0]
    /\ earn = [x \in Accounts |-> NoEarnings]
    /\ tokensOf = [m \in Merchants |-> {}]
    /\ configured = {}
    /\ subAccount = [x \in Merchants \X Labels |-> None]
    /\ schedule = [m \in Merchants |-> NoSchedule]
    /\ merchantOf = MerchantAtCreation
    /\ subsOf = [m \in Merchants |-> {s \in Subs : MerchantAtCreation[s] = m}]
    /\ split = [s \in Subs |-> <<>>]
    /\ nextDispute = 0 /\ dispute = <<>>
    /\ escrow = [d \in DisputeIds |-> 0]
    /\ disputeOf = [s \in Subs |-> None]
    /\ window = DefaultWindow

SubscriptionStep(s) ==
    \/ \E a \in ChargeAmounts : CreditCharge(s, a) \/ BatchChargeUnrouted(s, a)
    \/ \E a \in DisputeAmounts : OpenDispute(s, a)
    \/ \E e \in Splits : UpdateSplitPayees(s, e)

MerchantStep(m) ==
    \/ InitializeMerchantConfig(m) \/ FlushPayouts(m)
    \/ \E c \in ScheduleChoices : SetPayoutSchedule(m, c)
    \/ \E t \in Tokens : \/ \E a \in WithdrawAmounts : WithdrawMerchantFunds(m, t, a)
                         \/ \E a \in RefundAmounts : MerchantRefund(m, t, a)
    \/ \E l \in Labels : \/ RegisterSubAccount(m, l)
                         \/ \E t \in Tokens, a \in SubAccountAmounts :
                               WithdrawSubAccountFunds(m, l, t, a)

AdminStep ==
    \/ \E d \in DOMAIN dispute : \/ RespondDispute(d)
                                 \/ \E b \in BOOLEAN : ResolveDispute(d, b)
    \/ \E w \in Windows : SetDisputeWindowSecs(w)
    \/ \E r \in Rotations : RotateMerchantAddress(r[1], r[2])
    \/ Tick

Next == AdminStep \/ (\E s \in Subs : SubscriptionStep(s)) \/ \E m \in Merchants : MerchantStep(m)

Spec == Init /\ [][Next]_vars

-----------------------------------------------------------------------------
(* Properties.                                                             *)

\* Every variable keeps its range; merchant balances are signed as in the code.
TypeOK ==
    /\ now \in 1..MaxTime
    /\ prepaid \in [Tokens -> Nat] /\ vault \in [Tokens -> Nat]
    /\ unbacked \in [Tokens -> 0..MaxUnbacked]
    /\ bal \in [Accounts -> Int] /\ earn \in [Accounts -> Earnings]
    /\ tokensOf \in [Merchants -> SUBSET Tokens]
    /\ configured \subseteq Merchants
    /\ subAccount \in [Merchants \X Labels -> Nat \cup {None}]
    /\ schedule \in [Merchants -> [cadence : Nat, min : Nat, last : Nat]]
    /\ merchantOf \in [Subs -> Merchants]
    /\ subsOf \in [Merchants -> SUBSET Subs]
    /\ split \in [Subs -> Splits]
    /\ nextDispute \in 0..MaxDisputes
    /\ dispute \in [0..(nextDispute - 1) -> Dispute]
    /\ escrow \in [DisputeIds -> Nat]
    /\ disputeOf \in [Subs -> DisputeIds \cup {None}]
    /\ window \in Nat

\* The index of active disputes, the dispute records and the escrows agree: a
\* subscription has at most one unresolved dispute, the index names it, and
\* exactly the unresolved disputes hold their amount in escrow, so that no
\* dispute is paid out twice and none is left without the money to pay it.
IndexedDispute(s) ==
    disputeOf[s] # None => /\ disputeOf[s] \in DOMAIN dispute
                           /\ dispute[disputeOf[s]].sub = s
                           /\ dispute[disputeOf[s]].status \in Unresolved
EscrowedDispute(d) ==
    IF d \in DOMAIN dispute /\ dispute[d].status \in Unresolved
    THEN /\ disputeOf[dispute[d].sub] = d
         /\ escrow[d] = dispute[d].amount /\ escrow[d] > 0
    ELSE escrow[d] = 0
DisputesConsistent ==
    /\ \A s \in Subs : IndexedDispute(s)
    /\ \A d \in DisputeIds : EscrowedDispute(d)

\* The disputes as both sides see them, and what module Arbitration promises about
\* them: whatever is charged, paid out and rotated, and however often the window
\* changes, none is altered, decided twice or lost, and no money leaves the escrow
\* but with the decision (dispute.rs).
Claim(d) == [sub |-> dispute[d].sub, merchant |-> dispute[d].merchant,
             amount |-> dispute[d].amount]
Claims == [d \in DOMAIN dispute |-> Claim(d)]
Answered == {d \in DOMAIN dispute : dispute[d].status = "Responded"}
Decided == {d \in DOMAIN dispute : dispute[d].status \notin Unresolved}
Winner(d) == IF dispute[d].status = "ResolvedToMerchant" THEN "merchant" ELSE "subscriber"
Verdict == [d \in Decided |-> Winner(d)]
Court == INSTANCE Arbitration WITH
    Ids <- DisputeIds, Amounts <- DisputeAmounts, Nobody <- None,
    claims <- Claims, current <- disputeOf, answered <- Answered,
    verdict <- Verdict, held <- escrow
DisputesArbitrated == Court!Spec

MerchantClaims(t) == SumFunction([m \in Merchants |-> bal[<<m, t>>]])
DisputeClaims(t) ==
    SumFunction([d \in {i \in DOMAIN dispute : TokenOf[dispute[i].sub] = t} |-> escrow[d]])
Held(x) == IF subAccount[x] = None THEN 0 ELSE subAccount[x]
SubAccountClaims == SumFunction([x \in Merchants \X Labels |-> Held(x)])
Owed(t) == prepaid[t] + MerchantClaims(t) + DisputeClaims(t)

\* Tokens held and the credits of failed batch items, counted apart, equal what
\* is owed to subscribers, merchants, sub-accounts and open disputes: split
\* shares, routing to a sub-account, payouts, refunds, rotation and disputes
\* neither create nor lose a unit, so an item on an unregistered label is the
\* only way to owe what is not there.
Covered ==
    SumFunction([t \in Tokens |-> vault[t]]) + SumFunction(unbacked)
      = SubAccountClaims + SumFunction([t \in Tokens |-> Owed(t)])

\* INV-2 for earnings: no interleaving of charges, disputes, payouts, refunds
\* and rotation leaves a merchant in debt.
EarningsNonNegative == \A x \in Accounts : bal[x] >= 0

\* docs/merchant_earnings.md, canonical invariant, with the sub-accounts of
\* docs/merchant_earnings_sub_accounts.md: accruals less withdrawals and
\* refunds are what the merchant's balance and sub-accounts hold.
RollUp ==
    \A m \in Merchants :
        SumFunction([t \in Tokens |-> earn[<<m, t>>].accrued - earn[<<m, t>>].withdrawn
                                         - earn[<<m, t>>].refunded])
          = SumFunction([t \in Tokens |-> bal[<<m, t>>]])
          + SumFunction([l \in Labels |-> Held(<<m, l>>)])

\* docs/multi_token.md: accounting is isolated by token, so money owed in one
\* token is never paid out by claims that were earned in another.
TokensIsolated ==
    \A t \in Tokens : vault[t] >= Owed(t)

\* lib.rs, rotate_merchant_address: rotation to another address migrates
\* balances, merged with what that address has earned already, so what
\* merchants together are owed stays the same. (To its own address it does not:
\* the code has no such check, and removes what it has just written.)
RotationKeepsClaims ==
    [][\A r \in Rotations : r[1] # r[2] /\ RotateMerchantAddress(r[1], r[2]) =>
          \A t \in Tokens : MerchantClaims(t)' = MerchantClaims(t)]_vars
=============================================================================
