-------------------------------- MODULE Vault --------------------------------
(***************************************************************************)
(* The subscription vault: prepaid balances, interval, usage and one-off   *)
(* charges, grace period and auto-pause, cancellation, refunds, emergency  *)
(* withdrawal, merchant earnings and the administrator's switches.         *)
(*                                                                         *)
(* An entrypoint of the contract is one atomic step: when it returns an    *)
(* error (or panics, as a token transfer the vault cannot cover does) the  *)
(* host rolls every write back, so only successful outcomes are actions.   *)
(* The exception is a charge inside batch_charge, whose error is caught    *)
(* per item; ChargeExpire is the write that only such a charge leaves.     *)
(* Subscriptions here have no sub-account label: what an item on a label   *)
(* nobody registered leaves is in module Settlement.                       *)
(***************************************************************************)
EXTENDS Integers, FiniteSets, StateMachine

CONSTANTS
    Subs,              \* subscription ids
    Subscribers,       \* addresses that own subscriptions
    Merchants,         \* addresses that are paid
    Treasury,          \* the address protocol fees are credited to
    SubscriberOf,      \* Subscription.subscriber
    MerchantOf,        \* Subscription.merchant
    Amount,            \* Subscription.amount
    Interval,          \* Subscription.interval_seconds
    GracePeriod,       \* the configured grace period
    AutoPauseThreshold,\* 0 disables auto-pause
    Cooldown,          \* 72h emergency-withdraw cooldown
    FeeBps,            \* protocol fee; 0 also stands for "no treasury set"
    MerchantFeeBps,    \* fee used by usage charges (override, else FeeBps)
    PremiumBps,        \* buyout premium
    MinTopup,          \* smallest deposit
    ActiveCap          \* subscriber's active-subscription cap

\* Inputs: what callers may pass. An empty set keeps an entrypoint uncalled.
CONSTANTS
    MaxTime,           \* the clock stops here
    Caps,              \* lifetime caps at creation and in update_subscription_cap
    Times,             \* expiries and scheduled cancellations
    Trials,            \* trial periods of the plans subscribed to; 0 without one
    ChargeAmounts,     \* resolved interval amounts (oracle, coupon, proration)
    DepositAmounts, BulkAmounts, DelegatedAmounts, BuyoutAmounts, UsageAmounts,
    OneOffAmounts, RefundAmounts, MerchantAmounts, RecoveryAmounts,
    Blockable,         \* addresses the admin may blocklist
    Pausable,          \* merchants that may pause themselves
    MaxBalance,        \* tokens in circulation: no deposit takes the vault beyond
    MaxAmount,         \* stands for i128::MAX, where checked additions fail
    MaxCount,          \* stands for u32::MAX, where saturating_add stops
    Users,             \* authorizers of cancel and resume
    RenewChoices,      \* flags passed to set_auto_renew
    Stoppable          \* whether the admin may use the emergency stop

\* Option::None for times, caps and period indexes.
None == -1

Accounts == Merchants \cup {Treasury}

Bps(x, bps) == (x * bps) \div 10000
BpsRange == 0..10000

ASSUME ConfigAssumption ==
    /\ IsFiniteSet(Subs)
    /\ SubscriberOf \in [Subs -> Subscribers]
    /\ MerchantOf \in [Subs -> Merchants]
    /\ Amount \in Nat \ {0} /\ Interval \in Nat \ {0}
    /\ GracePeriod \in Nat /\ AutoPauseThreshold \in Nat /\ Cooldown \in Nat
    /\ FeeBps \in BpsRange /\ MerchantFeeBps \in BpsRange /\ PremiumBps \in Nat
    /\ MinTopup \in Nat /\ ActiveCap \in Nat

ASSUME InputAssumption ==
    /\ MaxTime \in Nat /\ MaxBalance \in Nat /\ MaxAmount \in Nat
    /\ MaxCount \in Nat /\ MaxCount >= Cardinality(Subs)
    /\ Caps \subseteq (Nat \ {0}) \cup {None}
    /\ Times \subseteq Nat \cup {None} /\ Trials \subseteq Nat
    /\ ChargeAmounts \subseteq Nat \ {0}
    /\ DepositAmounts \subseteq Nat /\ BulkAmounts \subseteq Nat
    /\ DelegatedAmounts \subseteq Nat
    /\ BuyoutAmounts \subseteq Nat /\ UsageAmounts \subseteq Nat
    /\ OneOffAmounts \subseteq Nat /\ RefundAmounts \subseteq Nat
    /\ MerchantAmounts \subseteq Nat /\ RecoveryAmounts \subseteq Nat
    /\ Blockable \subseteq Subscribers \cup Merchants
    /\ Pausable \subseteq Merchants
    /\ Users \subseteq {"subscriber", "merchant"}
    /\ RenewChoices \subseteq BOOLEAN /\ Stoppable \in BOOLEAN

VARIABLES
    now,         \* ledger timestamp; the ledger sequence advances with it
    sub,         \* DataKey::Sub(id) and the keys stored per subscription id
    bal,         \* MerchantBalance of every account
    vault,       \* the contract's token balance
    stop,        \* EmergencyStop
    blocked,     \* Blocklist
    mpaused,     \* merchants whose MerchantConfig.is_paused is set
    pauseKey,    \* merchants whose DataKey::MerchantPaused is true
    activeCount, \* SubscriberActiveCount
    indexed      \* MerchantSubs / TokenSubs / SubscriberSubs

vars == <<now, sub, bal, vault, stop, blocked, mpaused, pauseKey, activeCount, indexed>>
admin_vars == <<stop, blocked, mpaused, pauseKey>>
book_vars == <<activeCount, indexed>>

OptTime == Nat \cup {None}

\* Subscription, with ChargedPeriod, the closed BillingPeriodSnapshot,
\* ChargeFailureCounter and EmergencyWithdrawIntent of the same id.
Subscription ==
    [status : Status \cup {"Absent"}, prepaid : Nat, charged : Nat,
     cap : OptTime, start : Nat, last : Nat, graceStart : OptTime,
     cancelAt : OptTime, expiresAt : OptTime, expiresAtLedger : OptTime,
     disabledAt : OptTime,
     chargedPeriod : OptTime, closedPeriod : OptTime, failures : Nat,
     intentAt : OptTime, intentStatus : Status]

Absent ==
    [status |-> "Absent", prepaid |-> 0, charged |-> 0, cap |-> None,
     start |-> 0, last |-> 0, graceStart |-> None, cancelAt |-> None,
     expiresAt |-> None, expiresAtLedger |-> None,
     disabledAt |-> None, chargedPeriod |-> None, closedPeriod |-> None,
     failures |-> 0, intentAt |-> None, intentStatus |-> "Paused"]

\* auto_renew_disabled_at is None exactly while auto_renew is true.
auto_renew(r) == r.disabledAt = None

Exists(s) == sub[s].status # "Absent"

-----------------------------------------------------------------------------
(* What the handlers read.                                                 *)

is_expired(r) ==
    \/ r.expiresAt # None /\ now >= r.expiresAt
    \/ r.expiresAtLedger # None /\ now >= r.expiresAtLedger

GraceOver(r) ==
    /\ r.graceStart # None
    /\ GracePeriod = 0 \/ now >= r.graceStart + GracePeriod

\* A stored GracePeriod whose window has passed is read as InsufficientBalance.
\* Every handler reads through this view and writes the viewed status back.
EffectiveStatus(r) ==
    IF r.status = "GracePeriod" /\ GraceOver(r) THEN "InsufficientBalance"
                                                ELSE r.status

get_subscription(s) == [sub[s] EXCEPT !.status = EffectiveStatus(sub[s])]

next_charge_time(r) == r.last + Interval
period_index(r) == (now - r.start) \div Interval
lifetime_cap_reached(r) == r.cap # None /\ r.charged >= r.cap
lifetime_cap_allows(r, a) == r.cap # None => r.charged + a <= r.cap

\* A fee never rounds down to nothing: the floor is one unit.
Fee(a, bps) == IF bps = 0 THEN 0 ELSE IF Bps(a, bps) = 0 THEN 1 ELSE Bps(a, bps)

\* pause_merchant writes DataKey::MerchantPaused; from schema version 3 on,
\* which init writes, get_merchant_paused reads MerchantConfig.is_paused only.
get_merchant_paused(m) == m \in mpaused

Unblocked(s) == SubscriberOf[s] \notin blocked /\ MerchantOf[s] \notin blocked

\* enforce_deposit_cap: prepaid money must stay chargeable under the cap.
enforce_deposit_cap(r, a) == r.cap # None =>
    a <= (IF r.charged > r.cap THEN 0 ELSE r.cap - r.charged) - r.prepaid

-----------------------------------------------------------------------------
(* What they write.                                                        *)

write_subscription(s, r) == sub' = [sub EXCEPT ![s] = r]

\* Mutant: the fee is credited to the treasury without being taken from the
\* merchant's share.
credit_fee_on_top(s, a, fee) ==
    /\ bal' = [x \in Accounts |->
                 bal[x] + (IF x = MerchantOf[s] THEN a ELSE 0)
                        + (IF x = Treasury THEN fee ELSE 0)]
    /\ \A x \in Accounts : bal'[x] <= MaxAmount

\* Merchant and treasury shares of a charge of amount a always add up to a.
credit_charge_payees(s, a, fee) ==
    /\ bal' = [x \in Accounts |->
                 bal[x] + (IF x = MerchantOf[s] THEN a - fee ELSE 0)
                        + (IF x = Treasury THEN fee ELSE 0)]
    /\ \A x \in Accounts : bal'[x] <= MaxAmount

\* safe_add fails instead of overflowing, and the whole call with it.
safe_add_fits(x, a) == x + a <= MaxAmount

\* A token transfer out of the vault; the token contract refuses an overdraft.
TransferOut(a) == vault >= a /\ vault' = vault - a
TransferIn(a) == vault + a <= MaxBalance /\ vault' = vault + a

\* saturating_add and saturating_sub
increment_active(s) ==
    activeCount' = [activeCount EXCEPT ![SubscriberOf[s]] = IF @ < MaxCount THEN @ + 1 ELSE @]
decrement_active(s) ==
    activeCount' = [activeCount EXCEPT ![SubscriberOf[s]] = IF @ = 0 THEN 0 ELSE @ - 1]

-----------------------------------------------------------------------------
(* Creation and deposits.                                                  *)

\* What both ways of creating a subscription check and write. A trial is counted
\* as paid: the last payment is where it ends.
Enter(s, cap, trial, expiry) ==
    /\ ~Exists(s) /\ ~stop /\ SubscriberOf[s] \notin blocked
    /\ activeCount[SubscriberOf[s]] < ActiveCap
    /\ write_subscription(s, [Absent EXCEPT !.status = "Active", !.cap = cap,
                                !.start = now, !.last = now + trial, !.expiresAt = expiry])
    /\ increment_active(s)
    /\ indexed' = indexed \cup {s}
    /\ UNCHANGED <<now, bal, vault, admin_vars>>

CreateSubscription(s, cap, expiry) ==
    /\ MerchantOf[s] \notin blocked
    /\ expiry # None => expiry > now
    /\ cap # None => cap >= Amount
    /\ Enter(s, cap, 0, expiry)

\* From a plan, whose merchant's blocklist entry is not read, nor its cap compared
\* with its amount.
CreateSubscriptionFromPlan(s, cap, trial) == Enter(s, cap, trial, None)

\* Mutant: the deposit entrypoint does not look at the emergency stop.
DepositDuringStop(s, a) ==
    LET r == get_subscription(s) IN
    /\ Exists(s) /\ Unblocked(s)
    /\ r.status # "Cancelled"
    /\ a >= MinTopup
    /\ ~get_merchant_paused(MerchantOf[s])
    /\ ~is_expired(r)
    /\ enforce_deposit_cap(r, a) /\ safe_add_fits(r.prepaid, a)
    /\ TransferIn(a)
    /\ write_subscription(s, [r EXCEPT !.prepaid = @ + a, !.failures = 0])
    /\ UNCHANGED <<now, bal, admin_vars, book_vars>>

\* A deposit never changes the status: the subscriber resumes explicitly.
DepositFunds(s, a) ==
    LET r == get_subscription(s) IN
    /\ Exists(s) /\ ~stop /\ Unblocked(s)
    /\ r.status # "Cancelled"
    /\ a >= MinTopup
    /\ ~get_merchant_paused(MerchantOf[s])
    /\ ~is_expired(r)
    /\ enforce_deposit_cap(r, a) /\ safe_add_fits(r.prepaid, a)
    /\ TransferIn(a)
    /\ write_subscription(s, [r EXCEPT !.prepaid = @ + a, !.failures = 0])
    /\ UNCHANGED <<now, bal, admin_vars, book_vars>>

\* A deposit by the admin or operator looks neither at the blocklist (the check
\* on the merchant discards its result) nor at the status.
BulkDepositFunds(s, a) ==
    LET r == get_subscription(s) IN
    /\ Exists(s) /\ ~stop
    /\ a >= MinTopup
    /\ ~get_merchant_paused(MerchantOf[s])
    /\ ~is_expired(r)
    /\ enforce_deposit_cap(r, a) /\ safe_add_fits(r.prepaid, a)
    /\ TransferIn(a)
    /\ write_subscription(s, [r EXCEPT !.prepaid = @ + a, !.failures = 0])
    /\ UNCHANGED <<now, bal, admin_vars, book_vars>>

\* A deposit by a delegated payer (whose grant is checked and consumed
\* elsewhere) does resume an underfunded subscription.
DepositFundsOnBehalf(s, a) ==
    LET r == get_subscription(s)
        funded == r.prepaid + a >= Amount
        recovers == r.status \in {"InsufficientBalance", "GracePeriod"} /\ funded
    IN
    /\ Exists(s) /\ ~stop /\ Unblocked(s)
    /\ a >= MinTopup
    /\ ~get_merchant_paused(MerchantOf[s])
    /\ ~is_expired(r)
    /\ enforce_deposit_cap(r, a) /\ safe_add_fits(r.prepaid, a)
    /\ TransferIn(a)
    /\ write_subscription(s, [r EXCEPT !.prepaid = @ + a,
                                !.status = IF recovers THEN "Active" ELSE @,
                                !.graceStart = IF recovers THEN None ELSE @])
    /\ UNCHANGED <<now, bal, admin_vars, book_vars>>

\* Buying a subscription out of its grace period: the amount is credited and
\* the missed charge collected. No token transfer accompanies the credit, and
\* the premium is credited to the merchant without being debited.
GraceBuyout(s, c, a) ==
    LET r == get_subscription(s)
        premium == Bps(c, PremiumBps)
    IN
    /\ Exists(s) /\ ~stop
    /\ r.status = "GracePeriod"
    /\ a >= c + premium
    /\ safe_add_fits(r.charged, c) /\ safe_add_fits(r.prepaid, a)
    /\ write_subscription(s, [r EXCEPT !.prepaid = @ + a - c, !.charged = @ + c,
                                !.last = now, !.status = "Active", !.graceStart = None,
                                !.chargedPeriod = period_index(r)])
    /\ credit_charge_payees(s, c + premium, 0)
    /\ UNCHANGED <<now, vault, admin_vars, book_vars>>

-----------------------------------------------------------------------------
(* charge_one: the interval charge. Its early returns and its three ends   *)
(* (collected, over the cap, underfunded) are actions of their own.        *)

\* Mutant: only the merchant's side of the blocklist is checked.
ChargeAllowedBlocked(s) ==
    /\ Exists(s) /\ ~stop /\ ~get_merchant_paused(MerchantOf[s])
    /\ MerchantOf[s] \notin blocked

ChargeAllowed(s) == Exists(s) /\ ~stop /\ ~get_merchant_paused(MerchantOf[s]) /\ Unblocked(s)

\* The expiry transition is written before the charge fails; only the batch
\* entrypoint, which catches the error, keeps the write.
ChargeExpire(s) ==
    LET r == get_subscription(s) IN
    /\ ChargeAllowed(s)
    /\ is_expired(r) /\ r.status # "Expired"
    /\ can_transition(r.status, "Expired")
    /\ write_subscription(s, [r EXCEPT !.status = "Expired"])
    /\ UNCHANGED <<now, bal, vault, admin_vars, book_vars>>

ChargeAtCap(s) ==
    LET r == get_subscription(s) IN
    /\ ChargeAllowed(s) /\ ~is_expired(r)
    /\ lifetime_cap_reached(r)
    /\ r.status # "Cancelled" /\ can_transition(r.status, "Cancelled")
    /\ write_subscription(s, [r EXCEPT !.status = "Cancelled"])
    /\ UNCHANGED <<now, bal, vault, admin_vars, book_vars>>

CancelDue(r) == r.cancelAt # None /\ now >= r.cancelAt

\* Mutant: the scheduled cancellation is taken for Active subscriptions only.
ChargeScheduledCancellationActive(s) ==
    LET r == get_subscription(s) IN
    /\ ChargeAllowed(s) /\ ~is_expired(r) /\ ~lifetime_cap_reached(r)
    /\ CancelDue(r)
    /\ r.status = "Active"
    /\ TransferOut(r.prepaid)
    /\ write_subscription(s, [r EXCEPT !.status = "Cancelled", !.prepaid = 0,
                                !.cancelAt = None])
    /\ UNCHANGED <<now, bal, admin_vars, book_vars>>

ChargeScheduledCancellation(s) ==
    LET r == get_subscription(s) IN
    /\ ChargeAllowed(s) /\ ~is_expired(r) /\ ~lifetime_cap_reached(r)
    /\ CancelDue(r)
    /\ r.status # "Cancelled" /\ can_transition(r.status, "Cancelled")
    /\ TransferOut(r.prepaid)
    /\ write_subscription(s, [r EXCEPT !.status = "Cancelled", !.prepaid = 0,
                                !.cancelAt = None])
    /\ UNCHANGED <<now, bal, admin_vars, book_vars>>

\* Mutant: the interval is compared one second early.
ChargeDueEarly(s) ==
    LET r == get_subscription(s) IN
    /\ ChargeAllowed(s) /\ ~is_expired(r) /\ ~lifetime_cap_reached(r)
    /\ ~CancelDue(r)
    /\ r.status \in {"Active", "GracePeriod", "InsufficientBalance"}
    /\ auto_renew(r)
    /\ period_index(r) > r.chargedPeriod
    /\ now >= next_charge_time(r) - 1

\* All guards between the early returns and the collection: a billable status,
\* automatic renewal, a period not charged before, an elapsed interval.
ChargeDue(s) ==
    LET r == get_subscription(s) IN
    /\ ChargeAllowed(s) /\ ~is_expired(r) /\ ~lifetime_cap_reached(r)
    /\ ~CancelDue(r)
    /\ r.status \in {"Active", "GracePeriod", "InsufficientBalance"}
    /\ auto_renew(r)
    /\ period_index(r) > r.chargedPeriod
    /\ now >= next_charge_time(r)

ChargeOverCap(s, a) ==
    LET r == get_subscription(s) IN
    /\ ChargeDue(s)
    /\ ~lifetime_cap_allows(r, a)
    /\ write_subscription(s, [r EXCEPT !.status = "Cancelled"])
    /\ UNCHANGED <<now, bal, vault, admin_vars, book_vars>>

\* Mutant: the collection does not record the period it was made in.
CollectedUnrecorded(r, a) ==
    LET paid == [r EXCEPT !.prepaid = @ - a, !.charged = @ + a, !.last = now,
                          !.failures = 0, !.closedPeriod = period_index(r),
                          !.graceStart = IF r.status = "Active" THEN @ ELSE None]
    IN  [paid EXCEPT !.status = IF lifetime_cap_reached(paid) THEN "Cancelled"
                                                              ELSE "Active"]

Collected(r, a) ==
    LET paid == [r EXCEPT !.prepaid = @ - a, !.charged = @ + a, !.last = now,
                          !.failures = 0, !.chargedPeriod = period_index(r),
                          !.closedPeriod = period_index(r),
                          !.graceStart = IF r.status = "Active" THEN @ ELSE None]
    IN  [paid EXCEPT !.status = IF lifetime_cap_reached(paid) THEN "Cancelled"
                                                              ELSE "Active"]

ChargeCollect(s, a) ==
    LET r == get_subscription(s) IN
    /\ ChargeDue(s)
    /\ lifetime_cap_allows(r, a)
    /\ r.prepaid >= a /\ safe_add_fits(r.charged, a)
    /\ write_subscription(s, Collected(r, a))
    /\ credit_charge_payees(s, a, Fee(a, FeeBps))
    /\ UNCHANGED <<now, vault, admin_vars, book_vars>>

\* Mutant: an underfunded Active subscription is only reported.
UnderfundedReported(r) ==
    IF r.status = "GracePeriod" /\ GraceOver(r)
      THEN [r EXCEPT !.status = "InsufficientBalance"] ELSE r

\* Into the grace period, or out of it, or straight to InsufficientBalance.
Underfunded(r) ==
    IF r.status = "GracePeriod"
      THEN IF r.graceStart = None THEN [r EXCEPT !.graceStart = now]
           ELSE IF GraceOver(r) THEN [r EXCEPT !.status = "InsufficientBalance"]
           ELSE r
      ELSE IF GracePeriod > 0
      THEN [r EXCEPT !.status = "GracePeriod", !.graceStart = now]
      ELSE [r EXCEPT !.status = "InsufficientBalance", !.graceStart = None]

\* Mutant: the counter is compared but never advanced.
CountFailureForgotten(r) ==
    IF AutoPauseThreshold = 0 \/ r.status # "InsufficientBalance" THEN r
    ELSE IF r.failures + 1 >= AutoPauseThreshold
         THEN [r EXCEPT !.status = "Paused", !.failures = 0]
         ELSE r

\* The consecutive-failure counter, and the pause it triggers.
CountFailure(r) ==
    IF AutoPauseThreshold = 0 \/ r.status # "InsufficientBalance" THEN r
    ELSE IF r.failures + 1 >= AutoPauseThreshold
         THEN [r EXCEPT !.status = "Paused", !.failures = 0]
         ELSE [r EXCEPT !.failures = @ + 1]

ChargeUnderfunded(s, a) ==
    LET r == get_subscription(s) IN
    /\ ChargeDue(s)
    /\ lifetime_cap_allows(r, a)
    /\ r.prepaid < a
    /\ can_transition(r.status, Underfunded(r).status)
    /\ write_subscription(s, CountFailure(Underfunded(r)))
    /\ UNCHANGED <<now, bal, vault, admin_vars, book_vars>>

-----------------------------------------------------------------------------
(* The other charges.                                                      *)

\* What charge_usage_one asks of the subscription before it looks at references
\* and limits (module Metering). usage_enabled is true where usage is charged.
UsageAllowed(s, a) ==
    LET r == get_subscription(s) IN
    /\ ChargeAllowed(s) /\ ~is_expired(r) /\ ~lifetime_cap_reached(r)
    /\ r.status = "Active"
    /\ auto_renew(r) \/ now < next_charge_time(r)
    /\ a > 0 /\ a <= Amount /\ a <= r.prepaid

\* Usage is charged between interval charges, against an open period. An
\* amount over the cap cancels without debiting; the last unit of prepaid
\* money makes the subscription InsufficientBalance.
ChargeUsage(s, a) ==
    LET r == get_subscription(s)
        paid == [r EXCEPT !.prepaid = @ - a, !.charged = @ + a]
    IN
    /\ UsageAllowed(s, a)
    /\ safe_add_fits(r.charged, a)
    /\ \/ /\ ~lifetime_cap_allows(r, a)
          /\ write_subscription(s, [r EXCEPT !.status = "Cancelled"])
          /\ UNCHANGED bal
       \/ /\ lifetime_cap_allows(r, a)
          /\ r.closedPeriod # period_index(r)
          /\ write_subscription(s, [paid EXCEPT !.status =
                 IF lifetime_cap_reached(paid) THEN "Cancelled"
                 ELSE IF paid.prepaid = 0 THEN "InsufficientBalance" ELSE @])
          /\ credit_charge_payees(s, a, Fee(a, MerchantFeeBps))
    /\ UNCHANGED <<now, vault, admin_vars, book_vars>>

\* The debited copy of the subscription is never written back.
ChargeOneOff(s, a) ==
    LET r == get_subscription(s) IN
    /\ Exists(s) /\ ~stop /\ Unblocked(s)
    /\ ~is_expired(r) /\ ~lifetime_cap_reached(r)
    /\ r.status \in {"Active", "Paused"}
    /\ a > 0 /\ a <= r.prepaid
    /\ lifetime_cap_allows(r, a) /\ safe_add_fits(r.charged, a)
    /\ credit_charge_payees(s, a, Fee(a, FeeBps))
    /\ UNCHANGED <<now, sub, vault, admin_vars, book_vars>>

-----------------------------------------------------------------------------
(* Cancellation, pause and resume. "merchant" also stands for the admin or *)
(* operator of the bulk entrypoints, which make no blocklist check either. *)

\* Mutant: the refund is paid and the prepaid balance left on the books.
CancelKeepingBalance(s, by) ==
    LET r == get_subscription(s) IN
    /\ Exists(s) /\ ~is_expired(r)
    /\ by = "subscriber" => SubscriberOf[s] \notin blocked
    /\ r.status # "Cancelled" /\ can_transition(r.status, "Cancelled")
    /\ TransferOut(r.prepaid)
    /\ write_subscription(s, [r EXCEPT !.status = "Cancelled"])
    /\ IF r.status = "Active" THEN decrement_active(s) ELSE UNCHANGED activeCount
    /\ indexed' = indexed \ {s}
    /\ UNCHANGED <<now, bal, admin_vars>>

CancelSubscription(s, by) ==
    LET r == get_subscription(s) IN
    /\ Exists(s) /\ ~is_expired(r)
    /\ by = "subscriber" => SubscriberOf[s] \notin blocked
    /\ r.status # "Cancelled" /\ can_transition(r.status, "Cancelled")
    /\ TransferOut(r.prepaid)
    /\ write_subscription(s, [r EXCEPT !.status = "Cancelled", !.prepaid = 0])
    /\ IF r.status = "Active" THEN decrement_active(s) ELSE UNCHANGED activeCount
    /\ indexed' = indexed \ {s}
    /\ UNCHANGED <<now, bal, admin_vars>>

ScheduleCancel(s, t) ==
    LET r == get_subscription(s) IN
    /\ Exists(s) /\ t > now
    /\ r.status # "Cancelled" /\ ~is_expired(r)
    /\ write_subscription(s, [r EXCEPT !.cancelAt = t])
    /\ UNCHANGED <<now, bal, vault, admin_vars, book_vars>>

UnscheduleCancel(s) ==
    LET r == get_subscription(s) IN
    /\ Exists(s) /\ r.status # "Cancelled"
    /\ write_subscription(s, [r EXCEPT !.cancelAt = None])
    /\ UNCHANGED <<now, bal, vault, admin_vars, book_vars>>

is_in_renewal_window(r) == r.disabledAt # None /\ now < r.disabledAt + Interval

SetAutoRenew(s, enabled) ==
    LET r == get_subscription(s) IN
    /\ Exists(s) /\ r.status # "Cancelled" /\ ~is_expired(r)
    /\ enabled /\ ~auto_renew(r) => is_in_renewal_window(r)
    /\ write_subscription(s, [r EXCEPT !.disabledAt =
            IF enabled THEN None ELSE IF auto_renew(r) THEN now ELSE @])
    /\ UNCHANGED <<now, bal, vault, admin_vars, book_vars>>

SetExpirationLedger(s, t) ==
    LET r == get_subscription(s) IN
    /\ Exists(s) /\ r.status \notin Terminal
    /\ t # None => t > now
    /\ write_subscription(s, [r EXCEPT !.expiresAtLedger = t])
    /\ UNCHANGED <<now, bal, vault, admin_vars, book_vars>>

\* The counter is decremented whatever the status the pause comes from.
PauseSubscription(s) ==
    LET r == get_subscription(s) IN
    /\ Exists(s) /\ ~is_expired(r)
    /\ r.status # "Paused" /\ can_transition(r.status, "Paused")
    /\ write_subscription(s, [r EXCEPT !.status = "Paused"])
    /\ decrement_active(s)
    /\ UNCHANGED <<now, bal, vault, admin_vars, indexed>>

\* Mutant: resume does not ask the state machine.
ResumeAnything(s, by) ==
    LET r == get_subscription(s) IN
    /\ Exists(s) /\ ~is_expired(r)
    /\ by = "subscriber" => SubscriberOf[s] \notin blocked
    /\ r.status # "Active"
    /\ r.status \in {"InsufficientBalance", "GracePeriod"} => r.prepaid >= Amount
    /\ write_subscription(s, [r EXCEPT !.status = "Active"])
    /\ IF r.status = "Paused" THEN increment_active(s) ELSE UNCHANGED activeCount
    /\ UNCHANGED <<now, bal, vault, admin_vars, indexed>>

\* Mutant: resume does not count the subscription as active again.
ResumeUncounted(s, by) ==
    LET r == get_subscription(s) IN
    /\ Exists(s) /\ ~is_expired(r)
    /\ by = "subscriber" => SubscriberOf[s] \notin blocked
    /\ r.status # "Active" /\ can_transition(r.status, "Active")
    /\ r.status \in {"InsufficientBalance", "GracePeriod"} => r.prepaid >= Amount
    /\ write_subscription(s, [r EXCEPT !.status = "Active"])
    /\ UNCHANGED <<now, bal, vault, activeCount, admin_vars, indexed>>

ResumeSubscription(s, by) ==
    LET r == get_subscription(s) IN
    /\ Exists(s) /\ ~is_expired(r)
    /\ by = "subscriber" => SubscriberOf[s] \notin blocked
    /\ r.status # "Active" /\ can_transition(r.status, "Active")
    /\ r.status \in {"InsufficientBalance", "GracePeriod"} => r.prepaid >= Amount
    /\ write_subscription(s, [r EXCEPT !.status = "Active"])
    /\ IF r.status = "Paused" THEN increment_active(s) ELSE UNCHANGED activeCount
    /\ UNCHANGED <<now, bal, vault, admin_vars, indexed>>

-----------------------------------------------------------------------------
(* Money out: subscribers, merchants, administrator.                       *)

RequestEmergencyWithdraw(s) ==
    LET r == get_subscription(s) IN
    /\ Exists(s) /\ r.status \in {"Paused", "Cancelled"}
    /\ r.prepaid > 0
    /\ r.intentAt = None
    /\ sub' = [sub EXCEPT ![s].intentAt = now, ![s].intentStatus = r.status]
    /\ UNCHANGED <<now, bal, vault, admin_vars, book_vars>>

FinalizeEmergencyWithdraw(s) ==
    LET r == get_subscription(s) IN
    /\ Exists(s) /\ r.intentAt # None
    /\ r.status = r.intentStatus
    /\ now >= r.intentAt + Cooldown
    /\ r.prepaid > 0
    /\ TransferOut(r.prepaid)
    /\ write_subscription(s, [r EXCEPT !.prepaid = 0, !.intentAt = None])
    /\ UNCHANGED <<now, bal, admin_vars, book_vars>>

\* An expired subscription passes through Expired on its way to Archived.
CleanupSubscription(s) ==
    LET r == get_subscription(s)
        from == IF r.status \in {"Cancelled", "Expired"} THEN r.status ELSE "Expired"
    IN
    /\ Exists(s) /\ r.status # "Archived"
    /\ r.status = "Cancelled" \/ is_expired(r)
    /\ can_transition(r.status, from) /\ can_transition(from, "Archived")
    /\ write_subscription(s, [r EXCEPT !.status = "Archived"])
    /\ UNCHANGED <<now, bal, vault, admin_vars, book_vars>>

WithdrawSubscriberFunds(s) ==
    LET r == get_subscription(s) IN
    /\ Exists(s)
    /\ r.status \in Terminal \/ is_expired(r)
    /\ r.prepaid > 0
    /\ TransferOut(r.prepaid)
    /\ write_subscription(s, [r EXCEPT !.prepaid = 0])
    /\ UNCHANGED <<now, bal, admin_vars, book_vars>>

PartialRefund(s, a) ==
    LET r == get_subscription(s) IN
    /\ Exists(s) /\ ~stop
    /\ a > 0 /\ a <= r.prepaid
    /\ TransferOut(a)
    /\ write_subscription(s, [r EXCEPT !.prepaid = @ - a])
    /\ UNCHANGED <<now, bal, admin_vars, book_vars>>

UpdateSubscriptionCap(s, cap) ==
    LET r == get_subscription(s) IN
    /\ Exists(s)
    /\ cap # None => cap >= r.charged
    /\ write_subscription(s, [r EXCEPT !.cap = cap])
    /\ UNCHANGED <<now, bal, vault, admin_vars, book_vars>>

WithdrawMerchantFunds(x, a) ==
    /\ ~stop /\ x \notin blocked
    /\ a > 0 /\ a <= bal[x]
    /\ TransferOut(a)
    /\ bal' = [bal EXCEPT ![x] = @ - a]
    /\ UNCHANGED <<now, sub, admin_vars, book_vars>>

MerchantRefund(x, a) ==
    /\ a > 0 /\ a <= bal[x]
    /\ TransferOut(a)
    /\ bal' = [bal EXCEPT ![x] = @ - a]
    /\ UNCHANGED <<now, sub, admin_vars, book_vars>>

\* get_total_accounted is a stub that returns zero, so the whole token balance
\* counts as recoverable. The multi-signature approval only refuses.
get_total_accounted == 0
RecoverStrandedFunds(a) ==
    /\ a > 0 /\ a <= vault - get_total_accounted
    /\ TransferOut(a)
    /\ UNCHANGED <<now, sub, bal, admin_vars, book_vars>>

-----------------------------------------------------------------------------
(* Switches and the clock.                                                 *)

EnableEmergencyStop ==
    /\ Stoppable /\ ~stop /\ stop' = TRUE
    /\ UNCHANGED <<now, sub, bal, vault, blocked, mpaused, pauseKey, book_vars>>

DisableEmergencyStop ==
    /\ stop /\ stop' = FALSE
    /\ UNCHANGED <<now, sub, bal, vault, blocked, mpaused, pauseKey, book_vars>>

AddToBlocklist(x) ==
    /\ x \notin blocked
    /\ blocked' = blocked \cup {x}
    /\ UNCHANGED <<now, sub, bal, vault, stop, mpaused, pauseKey, book_vars>>

\* Removal resumes every indexed Paused subscription, whoever paused it.
RemoveFromBlocklist(x) ==
    LET resumed == {s \in indexed : SubscriberOf[s] = x /\ sub[s].status = "Paused"}
        count(u) == activeCount[u] + (IF u = x THEN Cardinality(resumed) ELSE 0)
    IN
    /\ x \in blocked
    /\ blocked' = blocked \ {x}
    /\ sub' = [s \in Subs |-> IF s \in resumed THEN [sub[s] EXCEPT !.status = "Active"]
                                               ELSE sub[s]]
    /\ activeCount' = [u \in Subscribers |-> IF count(u) < MaxCount THEN count(u) ELSE MaxCount]
    /\ UNCHANGED <<now, bal, vault, stop, mpaused, pauseKey, indexed>>

PauseMerchant(m) ==
    /\ ~get_merchant_paused(m)
    /\ pauseKey' = pauseKey \cup {m}
    /\ UNCHANGED <<now, sub, bal, vault, stop, blocked, mpaused, book_vars>>

UnpauseMerchant(m) ==
    /\ get_merchant_paused(m)
    /\ pauseKey' = pauseKey \ {m}
    /\ UNCHANGED <<now, sub, bal, vault, stop, blocked, mpaused, book_vars>>

UpdateMerchantConfig(m, paused) ==
    /\ mpaused' = IF paused THEN mpaused \cup {m} ELSE mpaused \ {m}
    /\ UNCHANGED <<now, sub, bal, vault, stop, blocked, pauseKey, book_vars>>

Tick ==
    /\ now < MaxTime /\ now' = now + 1
    /\ UNCHANGED <<sub, bal, vault, admin_vars, book_vars>>

-----------------------------------------------------------------------------
Init ==
    /\ now = 0 /\ vault = 0 /\ stop = FALSE
    /\ sub = [s \in Subs |-> Absent]
    /\ bal = [x \in Accounts |-> 0]
    /\ blocked = {} /\ mpaused = {} /\ pauseKey = {}
    /\ activeCount = [u \in Subscribers |-> 0]
    /\ indexed = {}

\* charge_one, when it does not collect.
Dunning(s) ==
    \/ ChargeExpire(s) \/ ChargeAtCap(s) \/ ChargeScheduledCancellation(s)
    \/ \E a \in ChargeAmounts : ChargeOverCap(s, a) \/ ChargeUnderfunded(s, a)

Billing(s) == Dunning(s) \/ \E a \in ChargeAmounts : ChargeCollect(s, a)

Payments(s) ==
    \/ \E a \in DepositAmounts : DepositFunds(s, a)
    \/ \E a \in BulkAmounts : BulkDepositFunds(s, a)
    \/ \E a \in DelegatedAmounts : DepositFundsOnBehalf(s, a)
    \/ \E c \in ChargeAmounts, a \in BuyoutAmounts : GraceBuyout(s, c, a)
    \/ \E a \in OneOffAmounts : ChargeOneOff(s, a)
    \/ RequestEmergencyWithdraw(s) \/ FinalizeEmergencyWithdraw(s)
    \/ WithdrawSubscriberFunds(s)
    \/ \E a \in RefundAmounts : PartialRefund(s, a)

Funding(s) ==
    \/ \E cap \in Caps, t \in Times : CreateSubscription(s, cap, t)
    \/ \E cap \in Caps, trial \in Trials : CreateSubscriptionFromPlan(s, cap, trial)
    \/ \E a \in UsageAmounts : ChargeUsage(s, a)
    \/ Payments(s)

Control(s) ==
    \/ \E by \in Users : CancelSubscription(s, by) \/ ResumeSubscription(s, by)
    \/ \E t \in Times : ScheduleCancel(s, t) \/ SetExpirationLedger(s, t)
    \/ UnscheduleCancel(s) \/ PauseSubscription(s) \/ CleanupSubscription(s)
    \/ \E b \in RenewChoices : SetAutoRenew(s, b)
    \/ \E cap \in Caps : UpdateSubscriptionCap(s, cap)

Administration ==
    \/ \E x \in Accounts, a \in MerchantAmounts :
          WithdrawMerchantFunds(x, a) \/ MerchantRefund(x, a)
    \/ \E a \in RecoveryAmounts : RecoverStrandedFunds(a)
    \/ EnableEmergencyStop \/ DisableEmergencyStop
    \/ \E x \in Blockable : AddToBlocklist(x) \/ RemoveFromBlocklist(x)
    \/ \E m \in Pausable : \/ PauseMerchant(m) \/ UnpauseMerchant(m)
                           \/ \E b \in BOOLEAN : UpdateMerchantConfig(m, b)
    \/ Tick

Next == Administration \/ \E s \in Subs : Billing(s) \/ Funding(s) \/ Control(s)

Spec == Init /\ [][Next]_vars

\* The billing engine keeps submitting charges and ledgers keep closing.
Billed(s) == WF_vars(Billing(s))
EngineRuns == \A s \in Subs : Billed(s)
FairSpec == Spec /\ WF_vars(Tick) /\ EngineRuns

-----------------------------------------------------------------------------
(* Properties.                                                             *)

\* Every field keeps its range. Balances of subscriptions, merchants and vault
\* are natural numbers: no sequence of deposits, charges, fees, refunds and
\* withdrawals makes a checked subtraction go below zero (INV-2).
TypeOK ==
    /\ now \in 0..MaxTime
    /\ sub \in [Subs -> Subscription]
    /\ bal \in [Accounts -> Nat]
    /\ vault \in Nat
    /\ stop \in BOOLEAN
    /\ blocked \subseteq Blockable
    /\ mpaused \subseteq Pausable /\ pauseKey \subseteq Pausable
    /\ activeCount \in [Subscribers -> Nat]
    /\ indexed \subseteq Subs

\* Where a subscription stands in its billing calendar: what is stored as the last
\* payment is, until the first collection, creation or the end of the trial, and from
\* then on a time that has come, in the period ChargedPeriod says; a stored grace
\* period means that a whole interval has passed unpaid.
InCalendar(r, t) ==
    /\ r.start <= t /\ r.start <= r.last
    /\ r.chargedPeriod = None => r.last - r.start \in {0} \cup Trials
    /\ r.chargedPeriod # None => /\ r.last <= t
                                 /\ r.chargedPeriod = (r.last - r.start) \div Interval
    /\ r.status = "GracePeriod" => t >= r.last + Interval
BillingCalendar == \A s \in Subs : InCalendar(sub[s], now)

\* INV-1: an interval charge is collected (by charge_one or a grace buyout)
\* only when a whole interval has passed since the previous one, and never
\* twice for one billing period.
CollectedOnce(s) ==
    Exists(s) /\ sub'[s].last # sub[s].last =>
        /\ sub'[s].last = now
        /\ now >= next_charge_time(sub[s])
        /\ sub'[s].chargedPeriod > sub[s].chargedPeriod
ChargeSpacing == [][\A s \in Subs : CollectedOnce(s)]_vars

\* Under the emergency stop money only flows out: nothing is charged, no
\* merchant or treasury balance grows, and no deposit is taken.
StopFreezesBilling ==
    [][stop => /\ vault' <= vault
               /\ \A x \in Accounts : bal'[x] <= bal[x]
               /\ \A s \in Subs : sub'[s].charged = sub[s].charged]_vars

\* While the subscriber or the merchant is blocklisted, the subscription is not
\* charged; and when that is so of every subscription, no account earns
\* anything, by whatever kind of charge. The one exception is buying it out of its
\* grace period, which tests the emergency stop and not the blocklist.
BoughtOut(s) == \E c \in ChargeAmounts, a \in BuyoutAmounts : GraceBuyout(s, c, a)
BlockedNeverBilled ==
    [][/\ \A s \in Subs : ~Unblocked(s) /\ sub'[s].charged # sub[s].charged => BoughtOut(s)
       /\ (\A s \in Subs : ~Unblocked(s)) => \/ \A x \in Accounts : bal'[x] <= bal[x]
                                             \/ \E s \in Subs : BoughtOut(s)]_vars

\* The counter behind the active-subscription cap never under-counts: pauses,
\* resumes, auto-pauses, blocklist removals and underfunded charges leave it
\* at least as large as the number of subscriptions that are or may by
\* themselves become Active again.
Live == {"Active", "GracePeriod", "InsufficientBalance"}
ActiveCountCovers ==
    \A u \in Subscribers :
        activeCount[u] >= Cardinality({s \in Subs : SubscriberOf[s] = u /\ sub[s].status \in Live})

\* The status an observer reads follows the documented state machine, although
\* the view rewrites an elapsed grace period and handlers write the view back.
Observed == INSTANCE Lifecycle WITH status <- [s \in Subs |-> EffectiveStatus(sub[s])]
LifecycleRefined == Observed!Spec

\* A funded or underfunded Active subscription whose interval has passed does
\* not stay due: it is collected, enters its grace period, runs into its cap
\* or leaves Active.
ActiveDue(s) == ChargeDue(s) /\ sub[s].status = "Active"
DueSettled(s) == ActiveDue(s) ~> ~ActiveDue(s)
ActiveDueSettled == \A s \in Subs : DueSettled(s)

\* No due charge fails as a whole: none overflows a balance (safe_add).
Chargeable(s) == ActiveDue(s) => ENABLED <<Billing(s)>>_vars
AllChargeable == \A s \in Subs : Chargeable(s)

\* A cancellation scheduled for a time that comes is carried out, unless it is
\* withdrawn or the subscription ends in another way.
ScheduledCancelFires ==
    \A s \in Subs : (sub[s].cancelAt \in 0..MaxTime /\ sub[s].status \notin Terminal)
                        ~> (sub[s].cancelAt = None \/ sub[s].status \in Terminal)

\* admin.rs: with a threshold N > 0 a subscription is paused after N
\* consecutive failures; the engine keeps charging an underfunded one, so it
\* does not stay due in InsufficientBalance for good.
AutoPauseFires ==
    \A s \in Subs :
        (ChargeDue(s) /\ EffectiveStatus(sub[s]) = "InsufficientBalance")
            ~> ~(ChargeDue(s) /\ EffectiveStatus(sub[s]) = "InsufficientBalance")
=============================================================================
