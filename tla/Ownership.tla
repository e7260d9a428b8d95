------------------------------ MODULE Ownership ------------------------------
(***************************************************************************)
(* Who owns a subscription, and what hangs on the owner: the index and the *)
(* active-subscription counter kept per subscriber, transfers between      *)
(* subscribers, deposits by delegated payers, and coupons.                 *)
(*                                                                         *)
(* Vault fixes the owner; here the owner changes, and of billing only the  *)
(* outcomes matter (ChargeCollects, ChargeUnderfunded, ChargeEnds): when   *)
(* a charge falls due is left open. Checks that only refuse and are made   *)
(* elsewhere (emergency stop, credit limit, merchant pause, blocklist)     *)
(* are left out as well.                                                   *)
(***************************************************************************)
EXTENDS Integers, FiniteSets, StateMachine

CONSTANTS
    Subs,             \* subscription ids
    Subscribers,      \* addresses that own subscriptions
    Payers,           \* addresses that deposit for others
    Codes,            \* coupon codes
    ActiveCap,        \* get_subscriber_active_cap
    Amount,           \* Subscription.amount
    MinTopup          \* smallest deposit

\* Inputs and bounds.
CONSTANTS
    MaxTime,          \* the clock stops here
    MaxCount,         \* stands for u32::MAX, where saturating_add stops
    MaxGranted,       \* how much one subscriber grants one payer in all
    MaxPrepaid,       \* tokens in circulation
    ExpiryChoices,    \* expires_at of new subscriptions; 0 for None
    Deadlines,        \* expires_at of intents, grants and coupons; 0 = no expiry
    GrantAmounts,     \* max_amount of grants
    DepositAmounts,   \* deposits of payers
    CouponChoices     \* [percent, fixed, max] of new coupons

ASSUME OwnershipAssumption ==
    /\ IsFiniteSet(Subs)
    /\ ActiveCap \in Nat /\ Amount \in Nat \ {0} /\ MinTopup \in Nat
    /\ MaxTime \in Nat /\ MaxGranted \in Nat /\ MaxPrepaid \in Nat
    /\ MaxCount \in Nat /\ MaxCount >= Cardinality(Subs)
    /\ ExpiryChoices \subseteq Nat /\ Deadlines \subseteq Nat
    /\ GrantAmounts \subseteq Nat /\ DepositAmounts \subseteq Nat
    /\ CouponChoices \subseteq [percent : 0..10000, fixed : Nat, max : Nat]

\* Absence of an owner or of a bound coupon.
NoOne == "none"
ASSUME NoOneAssumption == NoOne \notin Subscribers \cup Codes

VARIABLES
    now,          \* ledger timestamp
    sub,          \* DataKey::Sub: owner, status, prepaid balance, expiry
    index,        \* DataKey::SubscriberSubs: how often a subscriber's list has an id
    activeCount,  \* DataKey::SubscriberActiveCount
    intent,       \* DataKey::TransferIntent
    grant,        \* DataKey::DelegatedPayerGrant; max 0 when there is none
    coupon,       \* DataKey::Coupon; fixed 0 when there is none
    bound,        \* DataKey::SubCoupon
    redeemed,     \* DataKey::SubCouponRedeemed: codes a subscription has used
    redemptions,  \* DataKey::CouponRedemptions
    granted, paid \* history: totals granted to payers, and deposited by them

vars == <<now, sub, index, activeCount, intent, grant, coupon, bound, redeemed,
          redemptions, granted, paid>>
owner_vars == <<sub, index, activeCount>>
grant_vars == <<grant, granted, paid>>
coupon_vars == <<coupon, bound, redeemed, redemptions>>

Subscription == [owner : Subscribers \cup {NoOne}, status : Status \cup {"Absent"},
                 prepaid : Nat, expiresAt : Nat]
TransferIntent == [from : Subscribers \cup {NoOne}, to : Subscribers \cup {NoOne},
                   expiresAt : Nat]
Grant == [max : Nat, expiresAt : Nat]
Coupon == [percent : 0..10000, fixed : Nat, max : Nat, expiresAt : Nat, revoked : BOOLEAN]

Absent == [owner |-> NoOne, status |-> "Absent", prepaid |-> 0, expiresAt |-> 0]
NoIntent == [from |-> NoOne, to |-> NoOne, expiresAt |-> 0]
NoGrant == [max |-> 0, expiresAt |-> 0]
NoCoupon == [percent |-> 0, fixed |-> 0, max |-> 0, expiresAt |-> 0, revoked |-> FALSE]

Exists(s) == sub[s].status # "Absent"
is_expired(s) == sub[s].expiresAt > 0 /\ now >= sub[s].expiresAt

\* Statuses that count toward the active cap.
Live == {"Active", "GracePeriod", "InsufficientBalance"}

increment(count, u) == [count EXCEPT ![u] = IF @ < MaxCount THEN @ + 1 ELSE @]
decrement(count, u) == [count EXCEPT ![u] = IF @ = 0 THEN 0 ELSE @ - 1]


\* A list is appended to without looking whether it has the id; the first
\* occurrence is removed, if there is one.
push_id(idx, u, s) == [idx EXCEPT ![u][s] = @ + 1]
remove_id(idx, u, s) == [idx EXCEPT ![u][s] = IF @ = 0 THEN 0 ELSE @ - 1]

write_status(s, st) == sub' = [sub EXCEPT ![s].status = st]

-----------------------------------------------------------------------------
(* The subscription's life, as far as it touches owner, index and counter. *)

CreateSubscription(s, u, expiry) ==
    /\ ~Exists(s)
    /\ activeCount[u] < ActiveCap
    /\ expiry > 0 => expiry > now
    /\ sub' = [sub EXCEPT ![s] = [owner |-> u, status |-> "Active", prepaid |-> 0,
                                  expiresAt |-> expiry]]
    /\ activeCount' = increment(activeCount, u)
    /\ index' = push_id(index, u, s)
    /\ UNCHANGED <<now, intent, grant_vars, coupon_vars>>

\* Cancelling takes the id off the owner's list; the counter is decremented only
\* when the subscription was Active.
CancelSubscription(s) ==
    LET r == sub[s] IN
    /\ Exists(s) /\ ~is_expired(s)
    /\ r.status # "Cancelled" /\ can_transition(r.status, "Cancelled")
    /\ sub' = [sub EXCEPT ![s].status = "Cancelled", ![s].prepaid = 0]
    /\ activeCount' = IF r.status = "Active" THEN decrement(activeCount, r.owner)
                                             ELSE activeCount
    /\ index' = remove_id(index, r.owner, s)
    /\ UNCHANGED <<now, intent, grant_vars, coupon_vars>>

PauseSubscription(s) ==
    /\ Exists(s) /\ ~is_expired(s)
    /\ sub[s].status # "Paused" /\ can_transition(sub[s].status, "Paused")
    /\ write_status(s, "Paused")
    /\ activeCount' = decrement(activeCount, sub[s].owner)
    /\ UNCHANGED <<now, index, intent, grant_vars, coupon_vars>>

\* Resuming does not look at the active cap.
ResumeSubscription(s) ==
    LET r == sub[s] IN
    /\ Exists(s) /\ ~is_expired(s)
    /\ r.status # "Active" /\ can_transition(r.status, "Active")
    /\ r.status \in {"InsufficientBalance", "GracePeriod"} => r.prepaid >= Amount
    /\ write_status(s, "Active")
    /\ activeCount' = IF r.status = "Paused" THEN increment(activeCount, r.owner)
                                             ELSE activeCount
    /\ UNCHANGED <<now, index, intent, grant_vars, coupon_vars>>

\* Archiving touches neither list nor counter.
CleanupSubscription(s) ==
    /\ Exists(s) /\ sub[s].status # "Archived"
    /\ sub[s].status = "Cancelled" \/ is_expired(s)
    /\ sub[s].status \notin {"Cancelled", "Expired"} => can_transition(sub[s].status, "Expired")
    /\ write_status(s, "Archived")
    /\ UNCHANGED <<now, index, activeCount, intent, grant_vars, coupon_vars>>

\* get_subscription reads a grace period that has elapsed as InsufficientBalance,
\* and every handler writes back what it has read.
GraceElapses(s) ==
    /\ sub[s].status = "GracePeriod"
    /\ write_status(s, "InsufficientBalance")
    /\ UNCHANGED <<now, index, activeCount, intent, grant_vars, coupon_vars>>

\* A charge may end the subscription: lifetime cap, scheduled cancellation (which
\* refunds), expiry. Neither list nor counter is touched.
ChargeEnds(s, st, left) ==
    /\ Exists(s)
    /\ sub[s].status # st /\ can_transition(sub[s].status, st)
    /\ st = "Expired" <=> is_expired(s)
    /\ left \in {sub[s].prepaid} \cup (IF st = "Cancelled" THEN {0} ELSE {})
    /\ sub' = [sub EXCEPT ![s].status = st, ![s].prepaid = left]
    /\ UNCHANGED <<now, index, activeCount, intent, grant_vars, coupon_vars>>

-----------------------------------------------------------------------------
(* Transfers.                                                              *)

\* Only Cancelled is refused: an archived subscription can be transferred.
InitiateTransfer(s, to, deadline) ==
    /\ Exists(s) /\ sub[s].status # "Cancelled" /\ ~is_expired(s)
    /\ deadline > now
    /\ to # sub[s].owner
    /\ intent' = [intent EXCEPT ![s] = [from |-> sub[s].owner, to |-> to,
                                        expiresAt |-> deadline]]
    /\ UNCHANGED <<now, owner_vars, grant_vars, coupon_vars>>

\* What the transfer of s to u writes. Mutants below change one of its parts.
MoveTo(s, u, idx, count, pending) ==
    /\ sub' = [sub EXCEPT ![s].owner = u]
    /\ index' = idx
    /\ activeCount' = count
    /\ intent' = pending
    /\ UNCHANGED <<now, grant_vars, coupon_vars>>

\* The owner at acceptance is not compared with intent.from, nor is the status
\* looked at again. An expired intent's removal is rolled back with the error.
TransferReady(s) ==
    LET to == intent[s].to IN
    /\ to # NoOne /\ intent[s].expiresAt > now
    /\ sub[s].status \in Live => activeCount[to] < ActiveCap

MovedCount(s) ==
    IF sub[s].status \in Live
      THEN increment(decrement(activeCount, sub[s].owner), intent[s].to) ELSE activeCount

MovedIndex(s) == push_id(remove_id(index, sub[s].owner, s), intent[s].to, s)

\* Mutant: the intent survives the transfer it authorised.
AcceptTransferKeepingIntent(s) ==
    TransferReady(s) /\ MoveTo(s, intent[s].to, MovedIndex(s), MovedCount(s), intent)

\* Mutant: the id stays on the previous owner's list.
AcceptTransferListingBoth(s) ==
    TransferReady(s) /\ MoveTo(s, intent[s].to, push_id(index, intent[s].to, s),
                               MovedCount(s), [intent EXCEPT ![s] = NoIntent])

\* Mutant: a transferred subscription is not counted for its new owner.
AcceptTransferUncounted(s) ==
    TransferReady(s) /\ MoveTo(s, intent[s].to, MovedIndex(s),
                               decrement(activeCount, sub[s].owner),
                               [intent EXCEPT ![s] = NoIntent])

AcceptTransfer(s) ==
    TransferReady(s) /\ MoveTo(s, intent[s].to, MovedIndex(s), MovedCount(s),
                               [intent EXCEPT ![s] = NoIntent])

VetoTransfer(s) ==
    /\ intent[s].to # NoOne
    /\ intent' = [intent EXCEPT ![s] = NoIntent]
    /\ UNCHANGED <<now, owner_vars, grant_vars, coupon_vars>>

-----------------------------------------------------------------------------
(* Delegated payers.                                                       *)

\* A new grant replaces the previous one of the same payer.
GrantDelegatedPayer(u, p, max, deadline) ==
    /\ deadline > now /\ max > 0 /\ p # u
    /\ granted[u][p] + max <= MaxGranted
    /\ grant' = [grant EXCEPT ![u][p] = [max |-> max, expiresAt |-> deadline]]
    /\ granted' = [granted EXCEPT ![u][p] = @ + max]
    /\ UNCHANGED <<now, owner_vars, intent, paid, coupon_vars>>

RevokeDelegatedPayer(u, p) ==
    /\ grant[u][p].max > 0
    /\ grant' = [grant EXCEPT ![u][p] = NoGrant]
    /\ UNCHANGED <<now, owner_vars, intent, granted, paid, coupon_vars>>

\* A deposit is made under the grant of whoever owns the subscription now. It
\* resumes an underfunded subscription, without counting it.
DepositsOnBehalf(s, p, a) ==
    LET r == sub[s]
        recovers == /\ r.status \in {"InsufficientBalance", "GracePeriod"}
                    /\ r.prepaid + a >= Amount
    IN
    /\ Exists(s) /\ ~is_expired(s)
    /\ grant[r.owner][p].max > 0
    /\ now < grant[r.owner][p].expiresAt
    /\ a <= grant[r.owner][p].max
    /\ a >= MinTopup /\ r.prepaid + a <= MaxPrepaid
    /\ sub' = [sub EXCEPT ![s].prepaid = @ + a,
                          ![s].status = IF recovers THEN "Active" ELSE @]
    /\ paid' = [paid EXCEPT ![r.owner][p] = @ + a]

\* Mutant: the grant is not consumed.
DepositFundsOnBehalfRepeatedly(s, p, a) ==
    /\ DepositsOnBehalf(s, p, a)
    /\ UNCHANGED <<now, index, activeCount, intent, grant, granted, coupon_vars>>

\* The grant is consumed whole, however little of it was used.
DepositFundsOnBehalf(s, p, a) ==
    /\ DepositsOnBehalf(s, p, a)
    /\ grant' = [grant EXCEPT ![sub[s].owner][p] = NoGrant]
    /\ UNCHANGED <<now, index, activeCount, intent, granted, coupon_vars>>
-----------------------------------------------------------------------------
(* Coupons. All in the subscription's token; a coupon's merchant is not    *)
(* compared with the subscription's.                                       *)

CreateCoupon(c, choice, deadline) ==
    /\ coupon[c].fixed = 0 /\ choice.fixed > 0
    /\ deadline > 0 => deadline > now
    /\ coupon' = [coupon EXCEPT ![c] =
            [percent |-> choice.percent, fixed |-> choice.fixed, max |-> choice.max,
             expiresAt |-> deadline, revoked |-> FALSE]]
    /\ UNCHANGED <<now, owner_vars, intent, grant_vars, bound, redeemed, redemptions>>

RevokeCoupon(c) ==
    /\ coupon[c].fixed > 0
    /\ coupon' = [coupon EXCEPT ![c].revoked = TRUE]
    /\ UNCHANGED <<now, owner_vars, intent, grant_vars, bound, redeemed, redemptions>>

validate_coupon(c) ==
    ~coupon[c].revoked /\ (coupon[c].expiresAt > 0 => now < coupon[c].expiresAt)

\* Mutant: the redemption limit is compared one redemption too late.
ApplyCouponOneTooMany(s, c) ==
    /\ Exists(s) /\ c \notin redeemed[s] /\ bound[s] = NoOne
    /\ coupon[c].fixed > 0 /\ validate_coupon(c)
    /\ coupon[c].max > 0 => redemptions[c] <= coupon[c].max
    /\ redemptions' = [redemptions EXCEPT ![c] = @ + 1]
    /\ bound' = [bound EXCEPT ![s] = c]
    /\ redeemed' = [redeemed EXCEPT ![s] = @ \cup {c}]
    /\ UNCHANGED <<now, owner_vars, intent, grant_vars, coupon>>

\* Whoever owns the subscription now binds a coupon to it, once and for good,
\* and takes a redemption.
ApplyCoupon(s, c) ==
    /\ Exists(s) /\ c \notin redeemed[s] /\ bound[s] = NoOne
    /\ coupon[c].fixed > 0 /\ validate_coupon(c)
    /\ coupon[c].max > 0 => redemptions[c] < coupon[c].max
    /\ redemptions' = [redemptions EXCEPT ![c] = @ + 1]
    /\ bound' = [bound EXCEPT ![s] = c]
    /\ redeemed' = [redeemed EXCEPT ![s] = @ \cup {c}]
    /\ UNCHANGED <<now, owner_vars, intent, grant_vars, coupon>>

\* What is left of the gross amount: percentage first, then the fixed part.
compute_payable(gross, c) ==
    LET pct == (gross * (10000 - c.percent)) \div 10000
    IN  IF pct > c.fixed THEN pct - c.fixed ELSE 0

\* A bound coupon that has been revoked or has expired is skipped.
Payable(s) ==
    IF bound[s] # NoOne /\ validate_coupon(bound[s])
      THEN compute_payable(Amount, coupon[bound[s]]) ELSE Amount

\* charge_one collects. A coupon that leaves nothing to pay makes the charge
\* fail: the period snapshot refuses an amount of zero.
ChargeCollects(s) ==
    /\ sub[s].status \in Live /\ ~is_expired(s)
    /\ Payable(s) > 0 /\ Payable(s) <= sub[s].prepaid
    /\ sub' = [sub EXCEPT ![s].prepaid = @ - Payable(s), ![s].status = "Active"]
    /\ UNCHANGED <<now, index, activeCount, intent, grant_vars, coupon_vars>>

\* charge_one finds too little: grace period, insufficient balance or, at the
\* failure threshold, auto-pause, which does not touch the counter.
ChargeUnderfunded(s, st) ==
    /\ sub[s].status \in Live /\ ~is_expired(s)
    /\ sub[s].prepaid < Payable(s)
    /\ st \in {"GracePeriod", "InsufficientBalance", "Paused"}
    /\ can_transition(sub[s].status, st)
    /\ write_status(s, st)
    /\ UNCHANGED <<now, index, activeCount, intent, grant_vars, coupon_vars>>

Tick ==
    /\ now < MaxTime /\ now' = now + 1
    /\ UNCHANGED <<owner_vars, intent, grant_vars, coupon_vars>>

-----------------------------------------------------------------------------
Init ==
    /\ now = 0
    /\ sub = [s \in Subs |-> Absent]
    /\ index = [u \in Subscribers |-> [s \in Subs |-> 0]]
    /\ activeCount = [u \in Subscribers |-> 0]
    /\ intent = [s \in Subs |-> NoIntent]
    /\ grant = [u \in Subscribers |-> [p \in Payers |-> NoGrant]]
    /\ granted = [u \in Subscribers |-> [p \in Payers |-> 0]]
    /\ paid = [u \in Subscribers |-> [p \in Payers |-> 0]]
    /\ coupon = [c \in Codes |-> NoCoupon]
    /\ bound = [s \in Subs |-> NoOne]
    /\ redeemed = [s \in Subs |-> {}]
    /\ redemptions = [c \in Codes |-> 0]

Life(s) ==
    \/ \E u \in Subscribers, t \in ExpiryChoices : CreateSubscription(s, u, t)
    \/ CancelSubscription(s) \/ PauseSubscription(s) \/ ResumeSubscription(s)
    \/ CleanupSubscription(s) \/ GraceElapses(s)
    \/ ChargeCollects(s)
    \/ \E st \in Status : ChargeUnderfunded(s, st)
    \/ \E st \in {"Cancelled", "Expired"}, left \in {0, sub[s].prepaid} : ChargeEnds(s, st, left)

Transfers(s) ==
    \/ \E u \in Subscribers, t \in Deadlines : InitiateTransfer(s, u, t)
    \/ AcceptTransfer(s) \/ VetoTransfer(s)

Delegation ==
    \E p \in Payers :
        \/ \E u \in Subscribers :
              \/ RevokeDelegatedPayer(u, p)
              \/ \E a \in GrantAmounts, t \in Deadlines : GrantDelegatedPayer(u, p, a, t)
        \/ \E s \in Subs, a \in DepositAmounts : DepositFundsOnBehalf(s, p, a)

Discounts ==
    \E c \in Codes :
        \/ \E choice \in CouponChoices, t \in Deadlines : CreateCoupon(c, choice, t)
        \/ RevokeCoupon(c)
        \/ \E s \in Subs : ApplyCoupon(s, c)

Next ==
    \/ Tick \/ Delegation \/ Discounts
    \/ \E s \in Subs : Life(s) \/ Transfers(s)

Spec == Init /\ [][Next]_vars

-----------------------------------------------------------------------------
(* Properties.                                                             *)

\* Every key keeps its type; prepaid balances do not go below zero, whatever
\* coupons and deposits a charge meets.
TypeOK ==
    /\ now \in 0..MaxTime
    /\ sub \in [Subs -> Subscription]
    /\ index \in [Subscribers -> [Subs -> Nat]]
    /\ activeCount \in [Subscribers -> Nat]
    /\ intent \in [Subs -> TransferIntent]
    /\ grant \in [Subscribers -> [Payers -> Grant]]
    /\ granted \in [Subscribers -> [Payers -> Nat]]
    /\ paid \in [Subscribers -> [Payers -> Nat]]
    /\ coupon \in [Codes -> Coupon]
    /\ bound \in [Subs -> Codes \cup {NoOne}]
    /\ redeemed \in [Subs -> SUBSET Codes]
    /\ redemptions \in [Codes -> Nat]

\* A subscriber's list (what list_subscriptions_by_subscriber pages through and
\* what the removal from the blocklist resumes) has no id twice, none of another
\* subscriber, and every subscription of theirs that may still be billed, however
\* subscriptions are transferred, cancelled, archived and transferred again.
ListsFollowOwner ==
    \A u \in Subscribers, s \in Subs :
        /\ index[u][s] <= 1
        /\ index[u][s] = 1 => sub[s].owner = u
        /\ sub[s].owner = u /\ sub[s].status \notin {"Cancelled", "Archived"} => index[u][s] = 1

\* The counter behind the active cap covers a subscriber's live subscriptions
\* also when they change hands in whatever status.
ActiveCountCovers ==
    \A u \in Subscribers :
        activeCount[u] >= Cardinality({s \in Subs : sub[s].owner = u /\ sub[s].status \in Live})

\* accept_transfer does not compare intent.from with the owner. It need not: a
\* pending intent is always the present owner's, and to somebody else.
IntentIsOwners ==
    \A s \in Subs : intent[s].to # NoOne =>
        intent[s].from = sub[s].owner /\ intent[s].to # sub[s].owner

\* What a payer has deposited for a subscriber, and may still deposit, never
\* exceeds what the subscriber has granted: one deposit per grant, on
\* subscriptions the granter owns when it is made.
PayerWithinGrants ==
    \A u \in Subscribers, p \in Payers : paid[u][p] + grant[u][p].max <= granted[u][p]

\* Redemptions are counted exactly: a coupon's counter is the number of
\* subscriptions that have used it and stays within its maximum, and a
\* subscription uses one coupon at most, through transfers and revocations.
RedemptionsExact ==
    /\ \A c \in Codes :
          /\ redemptions[c] = Cardinality({s \in Subs : c \in redeemed[s]})
          /\ coupon[c].max > 0 => redemptions[c] <= coupon[c].max
    /\ \A s \in Subs : redeemed[s] = IF bound[s] = NoOne THEN {} ELSE {bound[s]}

\* Also where subscriptions change hands, and deposits and charges of others move
\* their status, the status follows the promise of module Lifecycle.
Observed == INSTANCE Lifecycle WITH status <- [s \in Subs |-> sub[s].status]
StatusRefined == Observed!Spec
=============================================================================
