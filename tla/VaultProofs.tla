----------------------------- MODULE VaultProofs -----------------------------
(***************************************************************************)
(* For every number of subscriptions, every amount, interval, grace        *)
(* period, fee and horizon: the vault's state keeps its type, interval     *)
(* charges keep their distance (INV-1), the status an observer reads       *)
(* follows the state machine, the switches stop what they are meant to     *)
(* stop, and the active-subscription counter covers what it counts.        *)
(*                                                                         *)
(* Every handler reads one record r == get_subscription(s) and writes one  *)
(* record r2, so the argument is about records: Good(s, r2) collects what  *)
(* a written record must satisfy, WriteGood lifts it to the next state,    *)
(* and one lemma per group of handlers shows that what it writes is Good.  *)
(***************************************************************************)
EXTENDS Vault, FiniteSetTheorems, TLAPS

IInv == TypeOK /\ BillingCalendar

\* What a handler may write for s: a well-typed record that is in the billing
\* calendar, collects only when due, moves along the state machine and keeps the
\* time a subscription was created.
Good(s, r2) ==
    /\ r2 \in Subscription
    /\ InCalendar(r2, now)
    /\ Exists(s) /\ r2.last # sub[s].last =>
          /\ r2.last = now
          /\ now >= next_charge_time(sub[s])
          /\ r2.chargedPeriod > sub[s].chargedPeriod
    /\ Observed!Allowed(EffectiveStatus(sub[s]), EffectiveStatus(r2))
    /\ Exists(s) => r2.start = sub[s].start

-----------------------------------------------------------------------------
(* Facts about records and arithmetic.                                     *)

\* The fields of a subscription record have the types Subscription gives them.
LEMMA FieldTypes ==
    ASSUME NEW r \in Subscription
    PROVE  /\ r.status \in Status \cup {"Absent"} /\ r.prepaid \in Nat
           /\ r.charged \in Nat /\ r.cap \in OptTime /\ r.start \in Nat
           /\ r.last \in Nat /\ r.graceStart \in OptTime /\ r.failures \in Nat
           /\ r.chargedPeriod \in OptTime /\ r.closedPeriod \in OptTime
           /\ r.disabledAt \in OptTime /\ r.intentAt \in OptTime
  BY DEF Subscription

\* An optional time is None or a natural number.
LEMMA Optional == None \in OptTime /\ Nat \subseteq OptTime
  BY DEF None, OptTime

\* A whole interval later is at least one billing period later.
LEMMA NextPeriod ==
    ASSUME NEW x \in Nat, NEW y \in Nat \ {0}, NEW z \in Nat, z >= x + y
    PROVE  z \div y > x \div y
  OBVIOUS

\* A fee is never larger than the amount it is taken from.
LEMMA FeeBound ==
    ASSUME NEW a \in Nat \ {0}, NEW bps \in BpsRange
    PROVE  Fee(a, bps) \in 0..a
  <1>1. a * bps \in Nat /\ a * bps <= a * 10000
    BY DEF BpsRange
  <1>2. (a * bps) \div 10000 \in 0..a
    BY <1>1
  <1> QED
    BY <1>2 DEF Fee, Bps

\* What every handler knows about the record it reads.
LEMMA View ==
    ASSUME IInv, NEW s \in Subs
    PROVE  /\ get_subscription(s) \in Subscription
           /\ sub[s] \in Subscription
           /\ get_subscription(s).status = EffectiveStatus(sub[s])
           /\ get_subscription(s).last = sub[s].last
           /\ get_subscription(s).start = sub[s].start
           /\ get_subscription(s).graceStart = sub[s].graceStart
           /\ get_subscription(s).chargedPeriod = sub[s].chargedPeriod
           /\ InCalendar(get_subscription(s), now)
           /\ Exists(s) => get_subscription(s).status # "Absent"
           /\ EffectiveStatus(get_subscription(s)) = EffectiveStatus(sub[s])
  <1> DEFINE v == get_subscription(s)
  <1>1. sub[s] \in Subscription /\ InCalendar(sub[s], now)
    BY DEF IInv, TypeOK, BillingCalendar
  <1>2. EffectiveStatus(sub[s]) \in Status \cup {"Absent"}
    BY <1>1, FieldTypes DEF EffectiveStatus, Status
  <1>3. v \in Subscription
    BY <1>1, <1>2 DEF get_subscription, Subscription
  <1>4. /\ v.status = EffectiveStatus(sub[s]) /\ v.last = sub[s].last
        /\ v.start = sub[s].start /\ v.graceStart = sub[s].graceStart
        /\ v.chargedPeriod = sub[s].chargedPeriod
    BY <1>1 DEF get_subscription, Subscription
  <1>5. InCalendar(v, now)
    BY <1>1, <1>4 DEF InCalendar, EffectiveStatus
  <1>6. Exists(s) => v.status # "Absent"
    BY <1>4 DEF Exists, EffectiveStatus
  <1>7. EffectiveStatus(v) = EffectiveStatus(sub[s])
    BY <1>4 DEF EffectiveStatus, GraceOver
  <1> QED
    BY <1>1, <1>3, <1>4, <1>5, <1>6, <1>7

-----------------------------------------------------------------------------
(* Three ways for a written record to be Good.                             *)

\* The handler leaves status, grace clock and calendar alone.
LEMMA KeepGood ==
    ASSUME IInv, NEW s \in Subs, NEW r2 \in Subscription,
           r2.status = get_subscription(s).status,
           r2.graceStart = sub[s].graceStart, r2.last = sub[s].last,
           r2.start = sub[s].start, r2.chargedPeriod = sub[s].chargedPeriod
    PROVE  Good(s, r2)
  <1>1. InCalendar(r2, now)
    BY View DEF InCalendar
  <1>2. EffectiveStatus(r2) = EffectiveStatus(sub[s])
    BY View DEF EffectiveStatus, GraceOver
  <1> QED
    BY <1>1, <1>2 DEF Good, Observed!Allowed

\* The handler moves the status, to something other than the grace period.
LEMMA MoveGood ==
    ASSUME IInv, NEW s \in Subs, Exists(s), NEW r2 \in Subscription,
           r2.status # "GracePeriod",
           Observed!Allowed(get_subscription(s).status, r2.status),
           r2.last = sub[s].last, r2.start = sub[s].start,
           r2.chargedPeriod = sub[s].chargedPeriod
    PROVE  Good(s, r2)
  <1>1. InCalendar(r2, now)
    BY View DEF InCalendar
  <1>2. EffectiveStatus(r2) = r2.status
    BY DEF EffectiveStatus
  <1> QED
    BY <1>1, <1>2, View DEF Good

\* The handler collects a charge that is due.
LEMMA CollectGood ==
    ASSUME IInv, NEW s \in Subs, Exists(s), NEW r2 \in Subscription,
           now >= next_charge_time(sub[s]),
           r2.last = now, r2.start = sub[s].start,
           r2.chargedPeriod = period_index(sub[s]),
           r2.status # "GracePeriod",
           Observed!Allowed(get_subscription(s).status, r2.status)
    PROVE  Good(s, r2)
  <1> DEFINE r == sub[s]
  <1>1. /\ r \in Subscription /\ InCalendar(r, now) /\ now \in Nat
        /\ Interval \in Nat \ {0}
    BY ConfigAssumption, InputAssumption DEF IInv, TypeOK, BillingCalendar
  <1>2. /\ r.start \in Nat /\ r.last \in Nat /\ r.chargedPeriod \in OptTime
        /\ r.start <= r.last /\ r.last + Interval <= now
    BY <1>1, FieldTypes DEF InCalendar, next_charge_time
  <1>3. /\ now - r.start \in Nat /\ r.last - r.start \in Nat
        /\ now - r.start >= (r.last - r.start) + Interval
    BY <1>1, <1>2
  <1>4. (now - r.start) \div Interval > (r.last - r.start) \div Interval
    BY <1>1, <1>3, NextPeriod
  <1>5. /\ (now - r.start) \div Interval \in Nat
        /\ (r.last - r.start) \div Interval \in Nat
    BY <1>1, <1>3
  <1>6. r2.chargedPeriod > r.chargedPeriod
    BY <1>1, <1>4, <1>5 DEF InCalendar, period_index, None
  <1>7. InCalendar(r2, now)
    BY <1>1, <1>2, <1>5 DEF InCalendar, period_index, None
  <1>8. EffectiveStatus(r2) = r2.status
    BY DEF EffectiveStatus
  <1> QED
    BY <1>6, <1>7, <1>8, View DEF Good

\* Writing a Good record keeps the invariant on subscriptions and is an
\* allowed step of billing and of the lifecycle.
SubStep ==
    /\ sub' \in [Subs -> Subscription]
    /\ BillingCalendar'
    /\ \A t \in Subs : CollectedOnce(t)
    /\ \A t \in Subs : Observed!Allowed(EffectiveStatus(sub[t]), EffectiveStatus(sub[t])')
    /\ now' >= now /\ \A t \in Subs : Exists(t) => sub'[t].start = sub[t].start

\* Writing a Good record, and nothing else of a subscription, is a SubStep.
LEMMA WriteGood ==
    ASSUME IInv, NEW s \in Subs, NEW r2, Good(s, r2),
           write_subscription(s, r2), now' = now
    PROVE  SubStep
  <1>1. /\ sub \in [Subs -> Subscription]
        /\ sub' = [sub EXCEPT ![s] = r2]
    BY DEF IInv, TypeOK, write_subscription
  <1>2. sub' \in [Subs -> Subscription]
    BY <1>1 DEF Good
  <1>3. \A t \in Subs : sub'[t] = IF t = s THEN r2 ELSE sub[t]
    BY <1>1
  <1>4. BillingCalendar'
    BY <1>3 DEF IInv, BillingCalendar, Good, InCalendar
  <1>5. \A t \in Subs : CollectedOnce(t)
    BY <1>3 DEF CollectedOnce, Good
  <1>6. ASSUME NEW t \in Subs
        PROVE  Observed!Allowed(EffectiveStatus(sub[t]), EffectiveStatus(sub[t])')
    <2>1. EffectiveStatus(sub[t])' = IF t = s THEN EffectiveStatus(r2)
                                              ELSE EffectiveStatus(sub[t])
      BY <1>3 DEF EffectiveStatus, GraceOver
    <2> QED
      BY <2>1 DEF Good, Observed!Allowed
  <1>7. now' >= now /\ \A t \in Subs : Exists(t) => sub'[t].start = sub[t].start
    BY <1>3, InputAssumption DEF Good, IInv, TypeOK
  <1> QED
    BY <1>2, <1>4, <1>5, <1>6, <1>7 DEF SubStep

-----------------------------------------------------------------------------
(* One lemma per handler: what it writes is Good.                          *)

\* The edges the handlers test are the edges the abstract machine allows.
LEMMA EdgeAllowed ==
    ASSUME NEW from, from # "Absent", NEW to, can_transition(from, to)
    PROVE  Observed!Allowed(from, to)
  BY DEF can_transition, get_allowed_transitions, Observed!Allowed,
         Observed!can_transition, Observed!get_allowed_transitions

\* Directly or from a plan.
Created(s) ==
    \E cap \in Caps, trial \in {0} \cup Trials, t \in Times \cup {None} : Enter(s, cap, trial, t)

LEMMA Creations ==
    ASSUME NEW s \in Subs,
           \/ \E cap \in Caps, t \in Times : CreateSubscription(s, cap, t)
           \/ \E cap \in Caps, trial \in Trials : CreateSubscriptionFromPlan(s, cap, trial)
    PROVE  Created(s)
  BY DEF Created, CreateSubscription, CreateSubscriptionFromPlan

\* The record a new subscription starts from: Active, counted as paid until the end
\* of its trial.
Entered(cap, trial, t) == [Absent EXCEPT !.status = "Active", !.cap = cap, !.start = now,
                                         !.last = now + trial, !.expiresAt = t]

LEMMA EnteredType ==
    ASSUME IInv, NEW cap \in Caps, NEW trial \in {0} \cup Trials,
           NEW t \in Times \cup {None}
    PROVE  LET r == Entered(cap, trial, t) IN
           /\ r \in Subscription /\ r.status = "Active" /\ r.start = now
           /\ r.last = now + trial /\ r.chargedPeriod = None /\ r.graceStart = None
           /\ r.prepaid = 0 /\ r.charged = 0
  <1>1. now \in Nat /\ now + trial \in Nat /\ cap \in OptTime /\ t \in OptTime
    BY InputAssumption DEF IInv, TypeOK, OptTime
  <1>2. Absent \in Subscription
    BY DEF Absent, Subscription, Status, OptTime, None
  <1>3. Entered(cap, trial, t) \in Subscription
    BY <1>1, <1>2 DEF Entered, Subscription, Status
  <1> QED
    BY <1>3 DEF Entered, Absent

\* do_create_subscription_with_token and do_create_subscription_from_plan write a
\* fresh record.
LEMMA CreateStep ==
    ASSUME IInv, NEW s \in Subs, Created(s)
    PROVE  SubStep
  <1>1. PICK cap \in Caps, trial \in {0} \cup Trials, t \in Times \cup {None} :
             Enter(s, cap, trial, t)
    BY DEF Created
  <1> DEFINE r2 == Entered(cap, trial, t)
  <1>2. now \in Nat /\ trial \in Nat
    BY InputAssumption DEF IInv, TypeOK
  <1>3. /\ r2 \in Subscription /\ r2.status = "Active" /\ r2.start = now
        /\ r2.last = now + trial /\ r2.chargedPeriod = None
    BY EnteredType
  <1>4. ~Exists(s) /\ EffectiveStatus(sub[s]) = "Absent"
    BY <1>1 DEF Enter, Exists, EffectiveStatus
  <1>5. write_subscription(s, r2) /\ now' = now
    BY <1>1 DEF Enter, Entered
  <1> HIDE DEF r2
  <1>6. InCalendar(r2, now)
    BY <1>2, <1>3 DEF InCalendar
  <1>7. Good(s, r2)
    BY <1>3, <1>4, <1>6 DEF Good, EffectiveStatus, Observed!Allowed
  <1> QED
    BY <1>5, <1>7, WriteGood

\* do_deposit_funds keeps the calendar and may recover to Active.
LEMMA DepositStep ==
    ASSUME IInv, NEW s \in Subs, NEW a \in DepositAmounts, DepositFunds(s, a)
    PROVE  SubStep
  <1> DEFINE r == get_subscription(s)
             r2 == [r EXCEPT !.prepaid = @ + a, !.failures = 0]
  <1>1. r \in Subscription /\ r.prepaid + a \in Nat
    BY View, FieldTypes, InputAssumption
  <1>2. r2 \in Subscription
    BY <1>1 DEF Subscription
  <1>3. /\ r2.status = r.status /\ r2.graceStart = r.graceStart /\ r2.last = r.last
        /\ r2.start = r.start /\ r2.chargedPeriod = r.chargedPeriod
    BY <1>1 DEF Subscription
  <1>4. Good(s, r2)
    BY <1>2, <1>3, View, KeepGood
  <1> QED
    BY <1>4, WriteGood DEF DepositFunds

\* bulk_deposit_one keeps the calendar and may recover to Active.
LEMMA BulkDepositStep ==
    ASSUME IInv, NEW s \in Subs, NEW a \in BulkAmounts, BulkDepositFunds(s, a)
    PROVE  SubStep
  <1> DEFINE r == get_subscription(s)
             r2 == [r EXCEPT !.prepaid = @ + a, !.failures = 0]
  <1>1. r \in Subscription /\ r.prepaid + a \in Nat
    BY View, FieldTypes, InputAssumption
  <1>2. r2 \in Subscription
    BY <1>1 DEF Subscription
  <1>3. /\ r2.status = r.status /\ r2.graceStart = r.graceStart /\ r2.last = r.last
        /\ r2.start = r.start /\ r2.chargedPeriod = r.chargedPeriod
    BY <1>1 DEF Subscription
  <1>4. Good(s, r2)
    BY <1>2, <1>3, View, KeepGood
  <1> QED
    BY <1>4, WriteGood DEF BulkDepositFunds

\* do_deposit_funds_on_behalf keeps status and calendar unless it recovers.
LEMMA DelegatedDepositStep ==
    ASSUME IInv, NEW s \in Subs, NEW a \in DelegatedAmounts, DepositFundsOnBehalf(s, a)
    PROVE  SubStep
  <1> DEFINE r == get_subscription(s)
             recovers == r.status \in {"InsufficientBalance", "GracePeriod"} /\ r.prepaid + a >= Amount
             st == IF recovers THEN "Active" ELSE r.status
             g == IF recovers THEN None ELSE r.graceStart
             r2 == [r EXCEPT !.prepaid = @ + a, !.status = st, !.graceStart = g]
  <1>1. /\ r \in Subscription /\ r.prepaid + a \in Nat
        /\ st \in Status \cup {"Absent"} /\ g \in OptTime
    BY View, FieldTypes, InputAssumption DEF Status, OptTime
  <1>2. r2 \in Subscription
    BY <1>1 DEF Subscription
  <1>3. /\ r2.status = st /\ r2.graceStart = g /\ r2.last = r.last
        /\ r2.start = r.start /\ r2.chargedPeriod = r.chargedPeriod
    BY <1>1 DEF Subscription
  <1>4. CASE ~recovers
    BY <1>2, <1>3, <1>4, View, KeepGood, WriteGood DEF DepositFundsOnBehalf
  <1>5. CASE recovers
    <2>1. Observed!Allowed(r.status, "Active")
      BY <1>5, EdgeAllowed DEF can_transition, get_allowed_transitions
    <2>2. Exists(s) /\ r2.status = "Active"
      BY <1>3, <1>5 DEF DepositFundsOnBehalf
    <2>3. Good(s, r2)
      <3> HIDE DEF r2, r
      <3> QED BY <1>2, <1>3, <2>1, <2>2, View, MoveGood DEF r
    <2> QED
      BY <2>3, WriteGood DEF DepositFundsOnBehalf
  <1> QED
    BY <1>4, <1>5

\* do_grace_buyout collects once, an interval after the last collection.
LEMMA BuyoutStep ==
    ASSUME IInv, NEW s \in Subs, NEW c \in ChargeAmounts, NEW a \in BuyoutAmounts,
           GraceBuyout(s, c, a)
    PROVE  SubStep
  <1> DEFINE r == get_subscription(s)
             p == period_index(r)
             r2 == [r EXCEPT !.prepaid = @ + a - c, !.charged = @ + c,
                             !.last = now, !.status = "Active", !.graceStart = None,
                             !.chargedPeriod = p]
  <1>1. /\ r \in Subscription /\ now \in Nat /\ c \in Nat \ {0} /\ a \in Nat
        /\ Interval \in Nat \ {0} /\ InCalendar(r, now)
    BY View, InputAssumption, ConfigAssumption DEF IInv, TypeOK
  <1>2. Bps(c, PremiumBps) \in Nat
    BY <1>1, ConfigAssumption DEF Bps
  <1>3. r.prepaid + a - c \in Nat /\ r.charged + c \in Nat
    BY <1>1, <1>2, FieldTypes DEF GraceBuyout
  <1>4. p \in Nat
    <2>1. r.start \in Nat /\ r.last \in Nat /\ r.start <= r.last /\ r.last <= now
      BY <1>1, FieldTypes DEF InCalendar, GraceBuyout
    <2> QED
      BY <1>1, <2>1 DEF period_index
  <1>5. r2 \in Subscription
    <2> HIDE DEF p
    <2> QED BY <1>1, <1>3, <1>4 DEF Subscription, Status, OptTime, None
  <1>6. /\ r2.status = "Active" /\ r2.last = now
        /\ r2.start = r.start /\ r2.chargedPeriod = p
    BY <1>1 DEF Subscription
  <1>7. now >= next_charge_time(sub[s])
    BY <1>1, View DEF InCalendar, next_charge_time, GraceBuyout
  <1>8. Observed!Allowed(r.status, "Active")
    BY EdgeAllowed DEF can_transition, get_allowed_transitions, GraceBuyout
  <1>9. p = period_index(sub[s])
    BY View DEF period_index
  <1>10. Good(s, r2)
    BY <1>5, <1>6, <1>7, <1>8, <1>9, View, CollectGood DEF GraceBuyout
  <1> QED
    BY <1>10, WriteGood DEF GraceBuyout

\* The expiry branch of charge_one only moves the status, to Expired.
LEMMA ExpireStep ==
    ASSUME IInv, NEW s \in Subs, ChargeExpire(s)
    PROVE  SubStep
  <1> DEFINE r == get_subscription(s)
             r2 == [r EXCEPT !.status = "Expired"]
  <1>1. r \in Subscription /\ Exists(s)
    BY View DEF ChargeExpire, ChargeAllowed
  <1>2. /\ r2 \in Subscription /\ r2.status = "Expired" /\ r2.last = r.last
        /\ r2.start = r.start /\ r2.chargedPeriod = r.chargedPeriod
    BY <1>1 DEF Subscription, Status
  <1>3. Observed!Allowed(r.status, "Expired")
    BY <1>1, View, EdgeAllowed DEF ChargeExpire
  <1>4. Good(s, r2)
    BY <1>1, <1>2, <1>3, View, MoveGood
  <1> QED
    BY <1>4, WriteGood DEF ChargeExpire

\* The cap branch of charge_one only moves the status, to Cancelled.
LEMMA AtCapStep ==
    ASSUME IInv, NEW s \in Subs, ChargeAtCap(s)
    PROVE  SubStep
  <1> DEFINE r == get_subscription(s)
             r2 == [r EXCEPT !.status = "Cancelled"]
  <1>1. r \in Subscription /\ Exists(s)
    BY View DEF ChargeAtCap, ChargeAllowed
  <1>2. /\ r2 \in Subscription /\ r2.status = "Cancelled" /\ r2.last = r.last
        /\ r2.start = r.start /\ r2.chargedPeriod = r.chargedPeriod
    BY <1>1 DEF Subscription, Status
  <1>3. Observed!Allowed(r.status, "Cancelled")
    BY <1>1, View, EdgeAllowed DEF ChargeAtCap
  <1>4. Good(s, r2)
    BY <1>1, <1>2, <1>3, View, MoveGood
  <1> QED
    BY <1>4, WriteGood DEF ChargeAtCap

\* The scheduled-cancellation branch only moves the status, to Cancelled.
LEMMA ScheduledCancellationStep ==
    ASSUME IInv, NEW s \in Subs, ChargeScheduledCancellation(s)
    PROVE  SubStep
  <1> DEFINE r == get_subscription(s)
             r2 == [r EXCEPT !.status = "Cancelled", !.prepaid = 0, !.cancelAt = None]
  <1>1. r \in Subscription /\ Exists(s)
    BY View DEF ChargeScheduledCancellation, ChargeAllowed
  <1>2. /\ r2 \in Subscription /\ r2.status = "Cancelled" /\ r2.last = r.last
        /\ r2.start = r.start /\ r2.chargedPeriod = r.chargedPeriod
    BY <1>1, Optional DEF Subscription, Status
  <1>3. Observed!Allowed(r.status, "Cancelled")
    BY <1>1, View, EdgeAllowed DEF ChargeScheduledCancellation
  <1>4. Good(s, r2)
    BY <1>1, <1>2, <1>3, View, MoveGood
  <1> QED
    BY <1>4, WriteGood DEF ChargeScheduledCancellation

\* What the guards of an interval charge establish.
LEMMA DueFacts ==
    ASSUME IInv, NEW s \in Subs, ChargeDue(s)
    PROVE  /\ Exists(s)
           /\ get_subscription(s).status \in Live
           /\ now >= next_charge_time(sub[s])
           /\ Observed!Allowed(get_subscription(s).status, "Cancelled")
           /\ Observed!Allowed(get_subscription(s).status, "Active")
  <1>1. Exists(s) /\ get_subscription(s).status \in Live
    BY DEF ChargeDue, ChargeAllowed, Live
  <1>2. now >= next_charge_time(sub[s])
    BY View DEF ChargeDue, next_charge_time
  <1>3. \A st \in Live : can_transition(st, "Cancelled") /\ can_transition(st, "Active")
    BY DEF Live, can_transition, get_allowed_transitions
  <1>4. "Absent" \notin Live
    BY DEF Live
  <1> QED
    BY <1>1, <1>2, <1>3, <1>4, EdgeAllowed

\* A charge that would exceed the cap cancels and collects nothing.
LEMMA OverCapStep ==
    ASSUME IInv, NEW s \in Subs, NEW a \in ChargeAmounts, ChargeOverCap(s, a)
    PROVE  SubStep
  <1> DEFINE r == get_subscription(s)
             r2 == [r EXCEPT !.status = "Cancelled"]
  <1>1. r \in Subscription /\ ChargeDue(s)
    BY View DEF ChargeOverCap
  <1>2. /\ r2 \in Subscription /\ r2.status = "Cancelled" /\ r2.last = r.last
        /\ r2.start = r.start /\ r2.chargedPeriod = r.chargedPeriod
    BY <1>1 DEF Subscription, Status
  <1>3. Good(s, r2)
    BY <1>1, <1>2, DueFacts, View, MoveGood
  <1> QED
    BY <1>3, WriteGood DEF ChargeOverCap

\* A successful interval charge collects once and records its period.
LEMMA CollectStep ==
    ASSUME IInv, NEW s \in Subs, NEW a \in ChargeAmounts, ChargeCollect(s, a)
    PROVE  SubStep
  <1> DEFINE r == get_subscription(s)
             p == period_index(r)
             g == IF r.status = "Active" THEN r.graceStart ELSE None
             paid == [r EXCEPT !.prepaid = @ - a, !.charged = @ + a, !.last = now,
                               !.failures = 0, !.chargedPeriod = p,
                               !.closedPeriod = p, !.graceStart = g]
             st == IF lifetime_cap_reached(paid) THEN "Cancelled" ELSE "Active"
             r2 == [paid EXCEPT !.status = st]
  <1>1. /\ r \in Subscription /\ now \in Nat /\ a \in Nat
        /\ Interval \in Nat \ {0} /\ InCalendar(r, now)
        /\ ChargeDue(s) /\ r.prepaid >= a
    BY View, InputAssumption, ConfigAssumption DEF IInv, TypeOK, ChargeCollect
  <1>2. r.prepaid - a \in Nat /\ r.charged + a \in Nat /\ g \in OptTime
    BY <1>1, FieldTypes DEF OptTime
  <1>3. p \in Nat
    <2>1. r.start \in Nat /\ r.last \in Nat /\ r.start <= r.last /\ r.last <= now
      BY <1>1, FieldTypes DEF InCalendar, ChargeDue, next_charge_time
    <2> QED
      BY <1>1, <2>1 DEF period_index
  <1>4. /\ paid \in Subscription /\ paid.last = now /\ paid.start = r.start
        /\ paid.chargedPeriod = p
    <2> HIDE DEF p, g
    <2> QED BY <1>1, <1>2, <1>3 DEF Subscription, OptTime
  <1>5. /\ r2 \in Subscription /\ r2.last = now /\ r2.start = r.start
        /\ r2.chargedPeriod = p /\ r2.status = st
    <2>1. st \in Status
      BY DEF Status
    <2> HIDE DEF paid, st
    <2> QED BY <1>4, <2>1 DEF Subscription
  <1>6. Observed!Allowed(r.status, st) /\ st # "GracePeriod"
    BY <1>1, DueFacts
  <1>7. p = period_index(sub[s])
    BY View DEF period_index
  <1>8. Good(s, r2)
    <2> HIDE DEF r2, st, p
    <2> QED BY <1>1, <1>5, <1>6, <1>7, DueFacts, View, CollectGood
  <1> QED
    BY <1>8, WriteGood DEF ChargeCollect, Collected

\* A failed interval charge opens the grace period only when one is due,
\* and otherwise moves to InsufficientBalance or Paused.
LEMMA UnderfundedStep ==
    ASSUME IInv, NEW s \in Subs, NEW a \in ChargeAmounts, ChargeUnderfunded(s, a)
    PROVE  SubStep
  <1> DEFINE r == get_subscription(s)
             u == Underfunded(r)
             r2 == CountFailure(u)
  <1>1. /\ r \in Subscription /\ now \in Nat /\ ChargeDue(s) /\ Exists(s)
        /\ GracePeriod \in Nat /\ InCalendar(r, now) /\ r.status \in Live
        /\ can_transition(r.status, u.status) /\ now >= next_charge_time(sub[s])
        /\ r.status # "Absent"
    BY View, DueFacts, InputAssumption, ConfigAssumption
    DEF IInv, TypeOK, ChargeUnderfunded, Live
  <1>2. /\ u \in Subscription /\ u.status \in {"GracePeriod", "InsufficientBalance"}
        /\ u.last = r.last /\ u.start = r.start /\ u.chargedPeriod = r.chargedPeriod
    BY <1>1, Optional DEF Underfunded, Subscription, Status, Live
  <1>3. \A st \in Live : can_transition(st, "InsufficientBalance")
    BY DEF Live, can_transition, get_allowed_transitions
  <1>4. Observed!Allowed(r.status, "InsufficientBalance")
    BY <1>1, <1>3, EdgeAllowed
  <1>5. CASE u.status = "GracePeriod"
    <2>1. r2 = u
      BY <1>5 DEF CountFailure
    <2>2. InCalendar(u, now)
      BY <1>1, <1>2, View DEF InCalendar, next_charge_time
    <2>3. Observed!Allowed(r.status, "GracePeriod")
      BY <1>1, <1>5, EdgeAllowed
    <2>4. Observed!Allowed(EffectiveStatus(sub[s]), EffectiveStatus(u))
      BY <1>4, <1>5, <2>3, View DEF EffectiveStatus
    <2>5. Good(s, u)
      BY <1>2, <2>2, <2>4, View DEF Good
    <2> QED
      BY <2>1, <2>5, WriteGood DEF ChargeUnderfunded
  <1>6. CASE u.status = "InsufficientBalance"
    <2>1. u.failures + 1 \in Nat
      BY <1>2, FieldTypes
    <2>2. /\ r2 \in Subscription /\ r2.status \in {"InsufficientBalance", "Paused"}
          /\ r2.last = u.last /\ r2.start = u.start /\ r2.chargedPeriod = u.chargedPeriod
      BY <1>2, <1>6, <2>1 DEF CountFailure, Subscription, Status
    <2>3. r.status # "GracePeriod"
      <3>1. SUFFICES ASSUME r.status = "GracePeriod" PROVE FALSE
        OBVIOUS
      <3>2. EffectiveStatus(r) = "GracePeriod"
        BY <3>1, View
      <3>3. ~GraceOver(r)
        BY <3>1, <3>2 DEF EffectiveStatus
      <3> QED
        BY <1>1, <1>6, <3>1, <3>3 DEF Underfunded, Subscription
    <2>4. \A st \in Live \ {"GracePeriod"} : can_transition(st, "Paused")
      BY DEF Live, can_transition, get_allowed_transitions
    <2>5. Observed!Allowed(r.status, r2.status)
      BY <1>1, <1>4, <2>2, <2>3, <2>4, EdgeAllowed
    <2>6. Good(s, r2)
      <3> HIDE DEF r2, u
      <3> QED BY <1>1, <1>2, <2>2, <2>5, View, MoveGood
    <2> QED
      BY <2>6, WriteGood DEF ChargeUnderfunded
  <1> QED
    BY <1>2, <1>5, <1>6

\* charge_usage_one leaves the calendar alone; it may only move the status.
LEMMA UsageStep ==
    ASSUME IInv, NEW s \in Subs, NEW a \in UsageAmounts, ChargeUsage(s, a)
    PROVE  SubStep
  <1> DEFINE r == get_subscription(s)
             paid == [r EXCEPT !.prepaid = @ - a, !.charged = @ + a]
             st == IF lifetime_cap_reached(paid) THEN "Cancelled"
                   ELSE IF paid.prepaid = 0 THEN "InsufficientBalance" ELSE paid.status
             r2 == [paid EXCEPT !.status = st]
             r3 == [r EXCEPT !.status = "Cancelled"]
  <1>1. /\ r \in Subscription /\ a \in Nat /\ Exists(s) /\ r.status = "Active"
        /\ a <= r.prepaid /\ now' = now
    BY View, InputAssumption DEF ChargeUsage, UsageAllowed, ChargeAllowed
  <1>2. r.prepaid - a \in Nat /\ r.charged + a \in Nat
    BY <1>1, FieldTypes
  <1>3. /\ paid \in Subscription /\ paid.last = r.last /\ paid.start = r.start
        /\ paid.chargedPeriod = r.chargedPeriod /\ paid.status = "Active"
    BY <1>1, <1>2 DEF Subscription
  <1>4. st \in {"Cancelled", "InsufficientBalance", "Active"}
    BY <1>3
  <1>5. /\ r2 \in Subscription /\ r2.last = r.last /\ r2.start = r.start
        /\ r2.chargedPeriod = r.chargedPeriod /\ r2.status = st
    <2> HIDE DEF paid, st
    <2> QED BY <1>3, <1>4 DEF Subscription, Status
  <1>6. /\ r3 \in Subscription /\ r3.last = r.last /\ r3.start = r.start
        /\ r3.chargedPeriod = r.chargedPeriod /\ r3.status = "Cancelled"
    BY <1>1 DEF Subscription, Status
  <1>7. \A x \in {"Cancelled", "InsufficientBalance", "Active"} : can_transition("Active", x)
    BY DEF can_transition, get_allowed_transitions
  <1>8. Observed!Allowed(r.status, st) /\ Observed!Allowed(r.status, "Cancelled")
    BY <1>1, <1>4, <1>7, EdgeAllowed
  <1>9. Good(s, r2)
    <2> HIDE DEF r2, st
    <2> QED BY <1>1, <1>4, <1>5, <1>8, View, MoveGood
  <1>10. Good(s, r3)
    BY <1>1, <1>6, <1>8, View, MoveGood
  <1>11. write_subscription(s, r2) \/ write_subscription(s, r3)
    BY DEF ChargeUsage
  <1> QED
    BY <1>1, <1>9, <1>10, <1>11, WriteGood

\* do_cancel_subscription only moves the status, to Cancelled.
LEMMA CancelStep ==
    ASSUME IInv, NEW s \in Subs, NEW by \in Users, CancelSubscription(s, by)
    PROVE  SubStep
  <1> DEFINE r == get_subscription(s)
             r2 == [r EXCEPT !.status = "Cancelled", !.prepaid = 0]
  <1>1. r \in Subscription /\ Exists(s)
    BY View DEF CancelSubscription
  <1>2. /\ r2 \in Subscription /\ r2.status = "Cancelled" /\ r2.last = r.last
        /\ r2.start = r.start /\ r2.chargedPeriod = r.chargedPeriod
    BY <1>1 DEF Subscription, Status
  <1>3. Observed!Allowed(r.status, "Cancelled")
    BY <1>1, View, EdgeAllowed DEF CancelSubscription
  <1>4. Good(s, r2)
    BY <1>1, <1>2, <1>3, View, MoveGood
  <1> QED
    BY <1>4, WriteGood DEF CancelSubscription

\* do_pause_subscription only moves the status, to Paused.
LEMMA PauseStep ==
    ASSUME IInv, NEW s \in Subs, PauseSubscription(s)
    PROVE  SubStep
  <1> DEFINE r == get_subscription(s)
             r2 == [r EXCEPT !.status = "Paused"]
  <1>1. r \in Subscription /\ Exists(s)
    BY View DEF PauseSubscription
  <1>2. /\ r2 \in Subscription /\ r2.status = "Paused" /\ r2.last = r.last
        /\ r2.start = r.start /\ r2.chargedPeriod = r.chargedPeriod
    BY <1>1 DEF Subscription, Status
  <1>3. Observed!Allowed(r.status, "Paused")
    BY <1>1, View, EdgeAllowed DEF PauseSubscription
  <1>4. Good(s, r2)
    BY <1>1, <1>2, <1>3, View, MoveGood
  <1> QED
    BY <1>4, WriteGood DEF PauseSubscription

\* do_resume_subscription only moves the status, to Active.
LEMMA ResumeStep ==
    ASSUME IInv, NEW s \in Subs, NEW by \in Users, ResumeSubscription(s, by)
    PROVE  SubStep
  <1> DEFINE r == get_subscription(s)
             r2 == [r EXCEPT !.status = "Active"]
  <1>1. r \in Subscription /\ Exists(s)
    BY View DEF ResumeSubscription
  <1>2. /\ r2 \in Subscription /\ r2.status = "Active" /\ r2.last = r.last
        /\ r2.start = r.start /\ r2.chargedPeriod = r.chargedPeriod
    BY <1>1 DEF Subscription, Status
  <1>3. Observed!Allowed(r.status, "Active")
    BY <1>1, View, EdgeAllowed DEF ResumeSubscription
  <1>4. Good(s, r2)
    BY <1>1, <1>2, <1>3, View, MoveGood
  <1> QED
    BY <1>4, WriteGood DEF ResumeSubscription

\* do_cleanup_subscription only moves the status, to Archived.
LEMMA CleanupStep ==
    ASSUME IInv, NEW s \in Subs, CleanupSubscription(s)
    PROVE  SubStep
  <1> DEFINE r == get_subscription(s)
             from == IF r.status \in {"Cancelled", "Expired"} THEN r.status ELSE "Expired"
             r2 == [r EXCEPT !.status = "Archived"]
  <1>1. /\ r \in Subscription /\ Exists(s) /\ r.status # "Absent"
        /\ can_transition(r.status, from) /\ can_transition(from, "Archived")
    BY View DEF CleanupSubscription
  <1>2. /\ r2 \in Subscription /\ r2.status = "Archived" /\ r2.last = r.last
        /\ r2.start = r.start /\ r2.chargedPeriod = r.chargedPeriod
    BY <1>1 DEF Subscription, Status
  <1>3. Observed!Allowed(r.status, "Archived")
    BY <1>1 DEF can_transition, get_allowed_transitions, Observed!Allowed,
                Observed!can_transition, Observed!get_allowed_transitions
  <1>4. Good(s, r2)
    BY <1>1, <1>2, <1>3, View, MoveGood
  <1> QED
    BY <1>4, WriteGood DEF CleanupSubscription

\* ScheduleCancel, UnscheduleCancel, SetAutoRenew, SetExpirationLedger,
\* FinalizeEmergencyWithdraw, WithdrawSubscriberFunds, PartialRefund and
\* UpdateSubscriptionCap change neither the status nor the calendar.
LEMMA KeepStep ==
    ASSUME IInv, NEW s \in Subs, NEW r2 \in Subscription,
           LET r == get_subscription(s) IN
               /\ r2.status = r.status /\ r2.graceStart = r.graceStart /\ r2.last = r.last
               /\ r2.start = r.start /\ r2.chargedPeriod = r.chargedPeriod,
           write_subscription(s, r2), now' = now
    PROVE  SubStep
  <1>1. Good(s, r2)
    BY View, KeepGood
  <1> QED
    BY <1>1, WriteGood

\* do_schedule_cancel is a step of the KeepStep kind.
LEMMA ScheduleStep ==
    ASSUME IInv, NEW s \in Subs, NEW t \in Times, ScheduleCancel(s, t)
    PROVE  SubStep
  <1> DEFINE r == get_subscription(s)
             r2 == [r EXCEPT !.cancelAt = t]
  <1>1. r \in Subscription /\ t \in OptTime
    BY View, InputAssumption DEF OptTime
  <1>2. r2 \in Subscription
    BY <1>1 DEF Subscription
  <1>3. /\ r2.status = r.status /\ r2.graceStart = r.graceStart /\ r2.last = r.last
        /\ r2.start = r.start /\ r2.chargedPeriod = r.chargedPeriod
    BY <1>1 DEF Subscription
  <1> QED
    BY <1>2, <1>3, KeepStep DEF ScheduleCancel

\* do_unschedule_cancel is a step of the KeepStep kind.
LEMMA UnscheduleStep ==
    ASSUME IInv, NEW s \in Subs, UnscheduleCancel(s)
    PROVE  SubStep
  <1> DEFINE r == get_subscription(s)
             r2 == [r EXCEPT !.cancelAt = None]
  <1>1. r \in Subscription
    BY View
  <1>2. r2 \in Subscription
    BY <1>1, Optional DEF Subscription
  <1>3. /\ r2.status = r.status /\ r2.graceStart = r.graceStart /\ r2.last = r.last
        /\ r2.start = r.start /\ r2.chargedPeriod = r.chargedPeriod
    BY <1>1 DEF Subscription
  <1> QED
    BY <1>2, <1>3, KeepStep DEF UnscheduleCancel

\* do_set_auto_renew is a step of the KeepStep kind.
LEMMA AutoRenewStep ==
    ASSUME IInv, NEW s \in Subs, NEW b \in RenewChoices, SetAutoRenew(s, b)
    PROVE  SubStep
  <1> DEFINE r == get_subscription(s)
             d == IF b THEN None ELSE IF auto_renew(r) THEN now ELSE r.disabledAt
             r2 == [r EXCEPT !.disabledAt = d]
  <1>1. r \in Subscription /\ d \in OptTime
    BY View, FieldTypes, Optional, InputAssumption DEF IInv, TypeOK
  <1>2. r2 \in Subscription
    <2> HIDE DEF d
    <2> QED BY <1>1 DEF Subscription
  <1>3. /\ r2.status = r.status /\ r2.graceStart = r.graceStart /\ r2.last = r.last
        /\ r2.start = r.start /\ r2.chargedPeriod = r.chargedPeriod
    BY <1>1 DEF Subscription
  <1> QED
    BY <1>2, <1>3, KeepStep DEF SetAutoRenew

\* do_set_subscription_expiration_ledger is a step of the KeepStep kind.
LEMMA ExpirationStep ==
    ASSUME IInv, NEW s \in Subs, NEW t \in Times, SetExpirationLedger(s, t)
    PROVE  SubStep
  <1> DEFINE r == get_subscription(s)
             r2 == [r EXCEPT !.expiresAtLedger = t]
  <1>1. r \in Subscription /\ t \in OptTime
    BY View, InputAssumption DEF OptTime
  <1>2. r2 \in Subscription
    BY <1>1 DEF Subscription
  <1>3. /\ r2.status = r.status /\ r2.graceStart = r.graceStart /\ r2.last = r.last
        /\ r2.start = r.start /\ r2.chargedPeriod = r.chargedPeriod
    BY <1>1 DEF Subscription
  <1> QED
    BY <1>2, <1>3, KeepStep DEF SetExpirationLedger

\* The intent is stored under a key of its own: the record keeps its stored
\* status, which for a Paused or Cancelled subscription is the viewed one.
LEMMA RequestStep ==
    ASSUME IInv, NEW s \in Subs, RequestEmergencyWithdraw(s)
    PROVE  SubStep
  <1> DEFINE r == get_subscription(s)
             r2 == [sub[s] EXCEPT !.intentAt = now, !.intentStatus = r.status]
  <1>1. /\ sub[s] \in Subscription /\ now \in Nat /\ now' = now
        /\ r.status \in {"Paused", "Cancelled"}
    BY View, InputAssumption DEF IInv, TypeOK, RequestEmergencyWithdraw
  <1>2. r.status = sub[s].status
    BY <1>1, View DEF EffectiveStatus
  <1>3. r2 \in Subscription
    BY <1>1, <1>2, Optional DEF Subscription, Status
  <1>4. /\ r2.status = sub[s].status /\ r2.graceStart = sub[s].graceStart
        /\ r2.last = sub[s].last /\ r2.start = sub[s].start
        /\ r2.chargedPeriod = sub[s].chargedPeriod
    BY <1>1 DEF Subscription
  <1>5. write_subscription(s, r2)
    BY DEF RequestEmergencyWithdraw, write_subscription, IInv, TypeOK
  <1> QED
    BY <1>1, <1>2, <1>3, <1>4, <1>5, View, KeepStep

\* do_finalize_emergency_withdraw is a step of the KeepStep kind.
LEMMA FinalizeStep ==
    ASSUME IInv, NEW s \in Subs, FinalizeEmergencyWithdraw(s)
    PROVE  SubStep
  <1> DEFINE r == get_subscription(s)
             r2 == [r EXCEPT !.prepaid = 0, !.intentAt = None]
  <1>1. r \in Subscription
    BY View
  <1>2. r2 \in Subscription
    BY <1>1, Optional DEF Subscription
  <1>3. /\ r2.status = r.status /\ r2.graceStart = r.graceStart /\ r2.last = r.last
        /\ r2.start = r.start /\ r2.chargedPeriod = r.chargedPeriod
    BY <1>1 DEF Subscription
  <1> QED
    BY <1>2, <1>3, KeepStep DEF FinalizeEmergencyWithdraw

\* do_withdraw_subscriber_funds is a step of the KeepStep kind.
LEMMA WithdrawStep ==
    ASSUME IInv, NEW s \in Subs, WithdrawSubscriberFunds(s)
    PROVE  SubStep
  <1> DEFINE r == get_subscription(s)
             r2 == [r EXCEPT !.prepaid = 0]
  <1>1. r \in Subscription
    BY View
  <1>2. r2 \in Subscription
    BY <1>1 DEF Subscription
  <1>3. /\ r2.status = r.status /\ r2.graceStart = r.graceStart /\ r2.last = r.last
        /\ r2.start = r.start /\ r2.chargedPeriod = r.chargedPeriod
    BY <1>1 DEF Subscription
  <1> QED
    BY <1>2, <1>3, KeepStep DEF WithdrawSubscriberFunds

\* do_partial_refund is a step of the KeepStep kind.
LEMMA PartialRefundStep ==
    ASSUME IInv, NEW s \in Subs, NEW a \in RefundAmounts, PartialRefund(s, a)
    PROVE  SubStep
  <1> DEFINE r == get_subscription(s)
             r2 == [r EXCEPT !.prepaid = @ - a]
  <1>1. r \in Subscription /\ r.prepaid - a \in Nat
    BY View, FieldTypes, InputAssumption DEF PartialRefund
  <1>2. r2 \in Subscription
    BY <1>1 DEF Subscription
  <1>3. /\ r2.status = r.status /\ r2.graceStart = r.graceStart /\ r2.last = r.last
        /\ r2.start = r.start /\ r2.chargedPeriod = r.chargedPeriod
    BY <1>1 DEF Subscription
  <1> QED
    BY <1>2, <1>3, KeepStep DEF PartialRefund

\* do_update_subscription_cap is a step of the KeepStep kind.
LEMMA UpdateCapStep ==
    ASSUME IInv, NEW s \in Subs, NEW cap \in Caps, UpdateSubscriptionCap(s, cap)
    PROVE  SubStep
  <1> DEFINE r == get_subscription(s)
             r2 == [r EXCEPT !.cap = cap]
  <1>1. r \in Subscription /\ cap \in OptTime
    BY View, InputAssumption DEF OptTime
  <1>2. r2 \in Subscription
    BY <1>1 DEF Subscription
  <1>3. /\ r2.status = r.status /\ r2.graceStart = r.graceStart /\ r2.last = r.last
        /\ r2.start = r.start /\ r2.chargedPeriod = r.chargedPeriod
    BY <1>1 DEF Subscription
  <1> QED
    BY <1>2, <1>3, KeepStep DEF UpdateSubscriptionCap

-----------------------------------------------------------------------------
(* Steps that write no subscription, the blocklist and the clock.          *)

\* Stuttering, and the steps that leave clock and subscriptions alone.
LEMMA QuietStep ==
    ASSUME IInv, UNCHANGED <<now, sub>>
    PROVE  SubStep
  <1>1. BillingCalendar' /\ sub' \in [Subs -> Subscription]
    BY DEF IInv, TypeOK, BillingCalendar, InCalendar
  <1>2. \A t \in Subs : CollectedOnce(t)
    BY DEF CollectedOnce
  <1>3. \A t \in Subs : EffectiveStatus(sub[t])' = EffectiveStatus(sub[t])
    BY DEF EffectiveStatus, GraceOver
  <1>4. now' >= now
    BY InputAssumption DEF IInv, TypeOK
  <1> QED
    BY <1>1, <1>2, <1>3, <1>4 DEF SubStep, Observed!Allowed

\* Removal from the blocklist resumes Paused subscriptions only.
LEMMA UnblockStep ==
    ASSUME IInv, NEW x \in Blockable, RemoveFromBlocklist(x)
    PROVE  SubStep
  <1> DEFINE resumed == {s \in indexed : SubscriberOf[s] = x /\ sub[s].status = "Paused"}
             r2(s) == [sub[s] EXCEPT !.status = "Active"]
  <1>1. /\ sub' = [s \in Subs |-> IF s \in resumed THEN r2(s) ELSE sub[s]]
        /\ now' = now
    BY DEF RemoveFromBlocklist
  <1>2. ASSUME NEW s \in Subs
        PROVE  /\ sub[s] \in Subscription /\ r2(s) \in Subscription
               /\ r2(s).last = sub[s].last /\ r2(s).start = sub[s].start
               /\ r2(s).chargedPeriod = sub[s].chargedPeriod
               /\ r2(s).status = "Active"
    BY <1>2 DEF IInv, TypeOK, Subscription, Status
  <1>3. \A s \in Subs : sub'[s] = IF s \in resumed THEN r2(s) ELSE sub[s]
    BY <1>1
  <1>4. sub' \in [Subs -> Subscription]
    <2> HIDE DEF resumed, r2
    <2> QED BY <1>1, <1>2
  <1>5. BillingCalendar'
    <2>1. ASSUME NEW s \in Subs PROVE InCalendar(sub'[s], now')
      <3>1. InCalendar(sub[s], now)
        BY DEF IInv, BillingCalendar
      <3> HIDE DEF resumed, r2
      <3> QED BY <1>1, <1>2, <1>3, <3>1 DEF InCalendar
    <2> QED
      BY <2>1 DEF BillingCalendar
  <1>6. ASSUME NEW s \in Subs PROVE CollectedOnce(s)
    <2> HIDE DEF resumed, r2
    <2> QED BY <1>2, <1>3 DEF CollectedOnce
  <1>7. ASSUME NEW s \in Subs
        PROVE  Observed!Allowed(EffectiveStatus(sub[s]), EffectiveStatus(sub[s])')
    <2>1. CASE s \in resumed
      <3>1. EffectiveStatus(sub[s]) = "Paused"
        BY <2>1 DEF EffectiveStatus
      <3>2. EffectiveStatus(sub[s])' = "Active"
        BY <1>2, <1>3, <2>1 DEF EffectiveStatus
      <3> QED
        BY <3>1, <3>2, EdgeAllowed DEF can_transition, get_allowed_transitions
    <2>2. CASE s \notin resumed
      <3>1. EffectiveStatus(sub[s])' = EffectiveStatus(sub[s])
        BY <1>1, <1>3, <2>2 DEF EffectiveStatus, GraceOver
      <3> QED
        BY <3>1 DEF Observed!Allowed
    <2> QED
      BY <2>1, <2>2
  <1>8. now' >= now
    BY <1>1, InputAssumption DEF IInv, TypeOK
  <1>9. \A s \in Subs : sub'[s].start = sub[s].start
    <2> HIDE DEF resumed, r2
    <2> QED BY <1>2, <1>3
  <1> QED
    BY <1>4, <1>5, <1>6, <1>7, <1>8, <1>9 DEF SubStep

\* Time alone may only end a grace period.
LEMMA TickStep ==
    ASSUME IInv, Tick
    PROVE  SubStep
  <1>1. now \in Nat /\ now' = now + 1 /\ sub' = sub /\ Interval \in Nat
    BY InputAssumption, ConfigAssumption DEF IInv, TypeOK, Tick
  <1>2. BillingCalendar'
    <2>1. ASSUME NEW s \in Subs PROVE InCalendar(sub'[s], now')
      <3>1. InCalendar(sub[s], now) /\ sub[s].last \in Nat /\ sub[s].start \in Nat
        BY FieldTypes DEF IInv, TypeOK, BillingCalendar
      <3> QED
        BY <1>1, <3>1 DEF InCalendar
    <2> QED
      BY <2>1 DEF BillingCalendar
  <1>3. \A s \in Subs : CollectedOnce(s)
    BY <1>1 DEF CollectedOnce
  <1>4. ASSUME NEW s \in Subs
        PROVE  Observed!Allowed(EffectiveStatus(sub[s]), EffectiveStatus(sub[s])')
    <2>1. sub[s].graceStart \in OptTime /\ GracePeriod \in Nat
      BY FieldTypes, ConfigAssumption DEF IInv, TypeOK
    <2>2. GraceOver(sub[s]) => GraceOver(sub[s])'
      BY <1>1, <2>1 DEF GraceOver, OptTime, None
    <2>3. \/ EffectiveStatus(sub[s])' = EffectiveStatus(sub[s])
          \/ /\ EffectiveStatus(sub[s]) = "GracePeriod"
             /\ EffectiveStatus(sub[s])' = "InsufficientBalance"
      BY <1>1, <2>2 DEF EffectiveStatus
    <2>4. can_transition("GracePeriod", "InsufficientBalance")
      BY DEF can_transition, get_allowed_transitions
    <2> QED
      BY <2>3, <2>4, EdgeAllowed DEF Observed!Allowed
  <1> QED
    BY <1>1, <1>2, <1>3, <1>4 DEF SubStep, IInv, TypeOK

\* Every step of the system is a SubStep.
LEMMA SubscriptionsStep ==
    ASSUME IInv, [Next]_vars
    PROVE  SubStep
  <1>1. CASE UNCHANGED vars
    BY <1>1, QuietStep DEF vars
  <1>2. ASSUME NEW s \in Subs, Billing(s) PROVE SubStep
    BY <1>2, ExpireStep, AtCapStep, ScheduledCancellationStep, OverCapStep,
       CollectStep, UnderfundedStep DEF Billing, Dunning
  <1>3. ASSUME NEW s \in Subs, Funding(s) PROVE SubStep
    <2>1. CASE Created(s)
      BY <2>1, CreateStep
    <2>2. CASE \/ \E a \in DepositAmounts : DepositFunds(s, a)
               \/ \E a \in BulkAmounts : BulkDepositFunds(s, a)
      BY <2>2, DepositStep, BulkDepositStep
    <2>3. CASE \E a \in DelegatedAmounts : DepositFundsOnBehalf(s, a)
      BY <2>3, DelegatedDepositStep
    <2>4. CASE \E c \in ChargeAmounts, a \in BuyoutAmounts : GraceBuyout(s, c, a)
      BY <2>4, BuyoutStep
    <2>5. CASE \E a \in UsageAmounts : ChargeUsage(s, a)
      BY <2>5, UsageStep
    <2>6. CASE \E a \in OneOffAmounts : ChargeOneOff(s, a)
      BY <2>6, QuietStep DEF ChargeOneOff
    <2>7. CASE \/ RequestEmergencyWithdraw(s) \/ FinalizeEmergencyWithdraw(s)
               \/ WithdrawSubscriberFunds(s)
      BY <2>7, RequestStep, FinalizeStep, WithdrawStep
    <2>8. CASE \E a \in RefundAmounts : PartialRefund(s, a)
      BY <2>8, PartialRefundStep
    <2> QED
      BY <1>3, <2>1, <2>2, <2>3, <2>4, <2>5, <2>6, <2>7, <2>8, Creations DEF Funding, Payments
  <1>4. ASSUME NEW s \in Subs, Control(s) PROVE SubStep
    BY <1>4, CancelStep, ResumeStep, ScheduleStep, ExpirationStep, UnscheduleStep,
       PauseStep, CleanupStep, AutoRenewStep, UpdateCapStep DEF Control
  <1>5. CASE Administration
    <2>1. CASE UNCHANGED <<now, sub>>
      BY <2>1, QuietStep
    <2>2. CASE ~UNCHANGED <<now, sub>>
      BY <1>5, <2>2, UnblockStep, TickStep
      DEF Administration, WithdrawMerchantFunds, MerchantRefund, RecoverStrandedFunds,
          EnableEmergencyStop, DisableEmergencyStop, AddToBlocklist, PauseMerchant,
          UnpauseMerchant, UpdateMerchantConfig
    <2> QED
      BY <2>1, <2>2
  <1> QED
    BY <1>1, <1>2, <1>3, <1>4, <1>5 DEF Next

-----------------------------------------------------------------------------
(* The books: clock, balances, counters, switches.                         *)

Books ==
    /\ now \in 0..MaxTime /\ bal \in [Accounts -> Nat] /\ vault \in Nat
    /\ stop \in BOOLEAN /\ blocked \subseteq Blockable
    /\ mpaused \subseteq Pausable /\ pauseKey \subseteq Pausable
    /\ activeCount \in [Subscribers -> Nat] /\ indexed \subseteq Subs

\* A charge splits into two non-negative shares.
LEMMA CreditType ==
    ASSUME IInv, NEW s, NEW a \in Nat, NEW fee \in 0..a, credit_charge_payees(s, a, fee)
    PROVE  bal' \in [Accounts -> Nat]
  <1>1. bal \in [Accounts -> Nat] /\ a - fee \in Nat /\ fee \in Nat
    BY DEF IInv, TypeOK
  <1> QED
    BY <1>1 DEF credit_charge_payees

\* Saturating counters stay natural numbers.
LEMMA CountType ==
    ASSUME IInv, NEW s \in Subs,
           increment_active(s) \/ decrement_active(s) \/ UNCHANGED activeCount
    PROVE  activeCount' \in [Subscribers -> Nat]
  <1>1. activeCount \in [Subscribers -> Nat]
    BY DEF IInv, TypeOK
  <1>2. ASSUME NEW u \in Subscribers PROVE activeCount[u] + 1 \in Nat
    BY <1>1
  <1>3. ASSUME NEW u \in Subscribers, activeCount[u] # 0 PROVE activeCount[u] - 1 \in Nat
    BY <1>1, <1>3
  <1> QED
    BY <1>1, <1>2, <1>3 DEF increment_active, decrement_active

\* A token transfer that succeeds leaves a natural balance.
LEMMA TransferType ==
    ASSUME IInv, NEW a \in Nat, TransferIn(a) \/ TransferOut(a)
    PROVE  vault' \in Nat
  BY DEF IInv, TypeOK, TransferIn, TransferOut

\* Charges keep the books well typed.
LEMMA BillingBooks ==
    ASSUME IInv, NEW s \in Subs, Billing(s)
    PROVE  Books'
  <1>1. Books /\ get_subscription(s).prepaid \in Nat
    BY View, FieldTypes DEF Books, IInv, TypeOK
  <1>2. CASE ChargeExpire(s) \/ ChargeAtCap(s)
    BY <1>1, <1>2 DEF Books, ChargeExpire, ChargeAtCap, admin_vars, book_vars
  <1>3. CASE ChargeScheduledCancellation(s)
    BY <1>1, <1>3, TransferType DEF Books, ChargeScheduledCancellation, admin_vars, book_vars
  <1>4. ASSUME NEW a \in ChargeAmounts, ChargeOverCap(s, a) \/ ChargeUnderfunded(s, a)
        PROVE  Books'
    BY <1>1, <1>4 DEF Books, ChargeOverCap, ChargeUnderfunded, admin_vars, book_vars
  <1>5. ASSUME NEW a \in ChargeAmounts, ChargeCollect(s, a)
        PROVE  Books'
    <2>1. a \in Nat \ {0} /\ Fee(a, FeeBps) \in 0..a
      BY InputAssumption, ConfigAssumption, FeeBound
    <2>2. bal' \in [Accounts -> Nat]
      BY <1>5, <2>1, CreditType DEF ChargeCollect
    <2> QED
      BY <1>1, <1>5, <2>2 DEF Books, ChargeCollect, admin_vars, book_vars
  <1> QED
    BY <1>2, <1>3, <1>4, <1>5 DEF Billing, Dunning

\* Deposits, buyouts, usage and one-off charges and refunds do, too.
LEMMA FundingBooks ==
    ASSUME IInv, NEW s \in Subs, Funding(s)
    PROVE  Books'
  <1>1. Books /\ get_subscription(s).prepaid \in Nat
    BY View, FieldTypes DEF Books, IInv, TypeOK
  <1>2. ASSUME Created(s) PROVE Books'
    <2>1. PICK cap, trial, t : Enter(s, cap, trial, t)
      BY <1>2 DEF Created
    <2>2. activeCount' \in [Subscribers -> Nat]
      BY <2>1, CountType DEF Enter
    <2> QED
      BY <1>1, <2>1, <2>2 DEF Books, Enter, admin_vars
  <1>3. ASSUME NEW a \in DepositAmounts, DepositFunds(s, a) PROVE Books'
    <2>1. vault' \in Nat
      BY <1>3, InputAssumption, TransferType DEF DepositFunds
    <2> QED
      BY <1>1, <1>3, <2>1 DEF Books, DepositFunds, admin_vars, book_vars
  <1>11. ASSUME NEW a \in BulkAmounts, BulkDepositFunds(s, a) PROVE Books'
    <2>1. vault' \in Nat
      BY <1>11, InputAssumption, TransferType DEF BulkDepositFunds
    <2> QED
      BY <1>1, <1>11, <2>1 DEF Books, BulkDepositFunds, admin_vars, book_vars
  <1>4. ASSUME NEW a \in DelegatedAmounts, DepositFundsOnBehalf(s, a) PROVE Books'
    <2>1. vault' \in Nat
      BY <1>4, InputAssumption, TransferType DEF DepositFundsOnBehalf
    <2> QED
      BY <1>1, <1>4, <2>1 DEF Books, DepositFundsOnBehalf, admin_vars, book_vars
  <1>5. ASSUME NEW c \in ChargeAmounts, NEW a \in BuyoutAmounts, GraceBuyout(s, c, a)
        PROVE  Books'
    <2>1. c \in Nat /\ PremiumBps \in Nat
      BY InputAssumption, ConfigAssumption
    <2>2. c + Bps(c, PremiumBps) \in Nat
      BY <2>1 DEF Bps
    <2>3. bal' \in [Accounts -> Nat]
      BY <1>5, <2>2, CreditType DEF GraceBuyout
    <2> QED
      BY <1>1, <1>5, <2>3 DEF Books, GraceBuyout, admin_vars, book_vars
  <1>6. ASSUME NEW a \in UsageAmounts, ChargeUsage(s, a) PROVE Books'
    <2>1. a \in Nat \ {0} /\ Fee(a, MerchantFeeBps) \in 0..a
      BY <1>6, InputAssumption, ConfigAssumption, FeeBound DEF ChargeUsage, UsageAllowed
    <2>2. bal' \in [Accounts -> Nat]
      BY <1>1, <1>6, <2>1, CreditType DEF ChargeUsage, Books
    <2> QED
      BY <1>1, <1>6, <2>2 DEF Books, ChargeUsage, admin_vars, book_vars
  <1>7. ASSUME NEW a \in OneOffAmounts, ChargeOneOff(s, a) PROVE Books'
    <2>1. a \in Nat \ {0} /\ Fee(a, FeeBps) \in 0..a
      BY <1>7, InputAssumption, ConfigAssumption, FeeBound DEF ChargeOneOff
    <2>2. bal' \in [Accounts -> Nat]
      BY <1>7, <2>1, CreditType DEF ChargeOneOff
    <2> QED
      BY <1>1, <1>7, <2>2 DEF Books, ChargeOneOff, admin_vars, book_vars
  <1>8. CASE RequestEmergencyWithdraw(s)
    BY <1>1, <1>8 DEF Books, RequestEmergencyWithdraw, admin_vars, book_vars
  <1>9. CASE FinalizeEmergencyWithdraw(s) \/ WithdrawSubscriberFunds(s)
    BY <1>1, <1>9, TransferType
    DEF Books, FinalizeEmergencyWithdraw, WithdrawSubscriberFunds, admin_vars, book_vars
  <1>10. ASSUME NEW a \in RefundAmounts, PartialRefund(s, a) PROVE Books'
    <2>1. vault' \in Nat
      BY <1>10, InputAssumption, TransferType DEF PartialRefund
    <2> QED
      BY <1>1, <1>10, <2>1 DEF Books, PartialRefund, admin_vars, book_vars
  <1> QED
    BY <1>2, <1>3, <1>4, <1>5, <1>6, <1>7, <1>8, <1>9, <1>10, <1>11, Creations
    DEF Funding, Payments

\* And so do cancellation, pause, resume and the settings.
LEMMA ControlBooks ==
    ASSUME IInv, NEW s \in Subs, Control(s)
    PROVE  Books'
  <1>1. Books /\ get_subscription(s).prepaid \in Nat
    BY View, FieldTypes DEF Books, IInv, TypeOK
  <1>2. ASSUME NEW by \in Users, CancelSubscription(s, by) PROVE Books'
    <2>1. vault' \in Nat
      BY <1>1, <1>2, TransferType DEF CancelSubscription
    <2>2. activeCount' \in [Subscribers -> Nat]
      BY <1>2, CountType DEF CancelSubscription
    <2> QED
      BY <1>1, <1>2, <2>1, <2>2 DEF Books, CancelSubscription, admin_vars
  <1>3. ASSUME NEW by \in Users, ResumeSubscription(s, by) PROVE Books'
    <2>1. activeCount' \in [Subscribers -> Nat]
      BY <1>3, CountType DEF ResumeSubscription
    <2> QED
      BY <1>1, <1>3, <2>1 DEF Books, ResumeSubscription, admin_vars
  <1>4. CASE PauseSubscription(s)
    <2>1. activeCount' \in [Subscribers -> Nat]
      BY <1>4, CountType DEF PauseSubscription
    <2> QED
      BY <1>1, <1>4, <2>1 DEF Books, PauseSubscription, admin_vars
  <1>5. ASSUME NEW t \in Times, ScheduleCancel(s, t) \/ SetExpirationLedger(s, t)
        PROVE  Books'
    BY <1>1, <1>5 DEF Books, ScheduleCancel, SetExpirationLedger, admin_vars, book_vars
  <1>6. CASE UnscheduleCancel(s) \/ CleanupSubscription(s)
    BY <1>1, <1>6 DEF Books, UnscheduleCancel, CleanupSubscription, admin_vars, book_vars
  <1>7. ASSUME NEW b \in RenewChoices, SetAutoRenew(s, b) PROVE Books'
    BY <1>1, <1>7 DEF Books, SetAutoRenew, admin_vars, book_vars
  <1>8. ASSUME NEW cap \in Caps, UpdateSubscriptionCap(s, cap) PROVE Books'
    BY <1>1, <1>8 DEF Books, UpdateSubscriptionCap, admin_vars, book_vars
  <1> QED
    BY <1>2, <1>3, <1>4, <1>5, <1>6, <1>7, <1>8 DEF Control

\* And merchants, administrator and clock.
LEMMA AdministrationBooks ==
    ASSUME IInv, Administration
    PROVE  Books'
  <1>1. Books
    BY DEF Books, IInv, TypeOK
  <1>2. ASSUME NEW x \in Accounts, NEW a \in MerchantAmounts,
               WithdrawMerchantFunds(x, a) \/ MerchantRefund(x, a)
        PROVE  Books'
    <2>1. a \in Nat /\ a <= bal[x] /\ TransferOut(a) /\ bal' = [bal EXCEPT ![x] = @ - a]
      BY <1>2, InputAssumption DEF WithdrawMerchantFunds, MerchantRefund
    <2>2. bal[x] - a \in Nat
      BY <1>1, <2>1 DEF Books
    <2>3. bal' \in [Accounts -> Nat] /\ vault' \in Nat
      BY <1>1, <2>1, <2>2, TransferType DEF Books
    <2> QED
      BY <1>1, <1>2, <2>3
      DEF Books, WithdrawMerchantFunds, MerchantRefund, admin_vars, book_vars
  <1>3. ASSUME NEW a \in RecoveryAmounts, RecoverStrandedFunds(a) PROVE Books'
    <2>1. vault' \in Nat
      BY <1>3, InputAssumption, TransferType DEF RecoverStrandedFunds
    <2> QED
      BY <1>1, <1>3, <2>1 DEF Books, RecoverStrandedFunds, admin_vars, book_vars
  <1>4. CASE EnableEmergencyStop \/ DisableEmergencyStop
    BY <1>1, <1>4 DEF Books, EnableEmergencyStop, DisableEmergencyStop, book_vars
  <1>5. ASSUME NEW x \in Blockable, AddToBlocklist(x) PROVE Books'
    BY <1>1, <1>5 DEF Books, AddToBlocklist, book_vars
  <1>6. ASSUME NEW x \in Blockable, RemoveFromBlocklist(x) PROVE Books'
    <2> DEFINE resumed == {s \in indexed : SubscriberOf[s] = x /\ sub[s].status = "Paused"}
               count(u) == activeCount[u] + (IF u = x THEN Cardinality(resumed) ELSE 0)
    <2>1. Cardinality(resumed) \in Nat
      <3>1. IsFiniteSet(Subs) /\ resumed \subseteq Subs
        BY <1>1, ConfigAssumption DEF Books
      <3> HIDE DEF resumed
      <3> QED BY <3>1, FS_Subset, FS_CardinalityType
    <2>2. \A u \in Subscribers : count(u) \in Nat
      <3> HIDE DEF resumed
      <3> QED BY <1>1, <2>1 DEF Books
    <2>3. activeCount' = [u \in Subscribers |-> IF count(u) < MaxCount THEN count(u)
                                                                      ELSE MaxCount]
      BY <1>6 DEF RemoveFromBlocklist
    <2>4. activeCount' \in [Subscribers -> Nat]
      <3> HIDE DEF count
      <3> QED BY <2>2, <2>3, InputAssumption
    <2> QED
      BY <1>1, <1>6, <2>4 DEF Books, RemoveFromBlocklist
  <1>7. ASSUME NEW m \in Pausable, NEW b \in BOOLEAN,
               PauseMerchant(m) \/ UnpauseMerchant(m) \/ UpdateMerchantConfig(m, b)
        PROVE  Books'
    BY <1>1, <1>7 DEF Books, PauseMerchant, UnpauseMerchant, UpdateMerchantConfig, book_vars
  <1>8. CASE Tick
    BY <1>1, <1>8, InputAssumption DEF Books, Tick, admin_vars, book_vars
  <1> QED
    BY <1>2, <1>3, <1>4, <1>5, <1>6, <1>7, <1>8 DEF Administration

-----------------------------------------------------------------------------
(* The theorems.                                                           *)

\* IInv holds in a vault just initialised and every entrypoint preserves it.
LEMMA Initially == Init => IInv
  <1> SUFFICES ASSUME Init PROVE IInv
    OBVIOUS
  <1>1. Absent \in Subscription /\ InCalendar(Absent, 0)
    BY DEF Absent, Subscription, Status, OptTime, None, InCalendar
  <1>2. now \in 0..MaxTime /\ sub \in [Subs -> Subscription]
    BY <1>1, InputAssumption DEF Init
  <1>3. bal \in [Accounts -> Nat] /\ activeCount \in [Subscribers -> Nat] /\ vault \in Nat
    BY DEF Init
  <1>4. TypeOK
    BY <1>2, <1>3 DEF Init, TypeOK
  <1>5. BillingCalendar
    BY <1>1 DEF Init, BillingCalendar
  <1> QED
    BY <1>4, <1>5 DEF IInv

\* The inductive invariant is preserved by every step of the vault.
LEMMA Preserved == IInv /\ [Next]_vars => IInv' /\ SubStep
  <1> SUFFICES ASSUME IInv, [Next]_vars PROVE IInv' /\ SubStep
    OBVIOUS
  <1>1. SubStep
    BY SubscriptionsStep
  <1>2. Books'
    <2>1. CASE UNCHANGED vars
      BY <2>1 DEF IInv, TypeOK, Books, vars
    <2>2. CASE Next
      BY <2>2, BillingBooks, FundingBooks, ControlBooks, AdministrationBooks DEF Next
    <2> QED
      BY <2>1, <2>2
  <1> QED
    BY <1>1, <1>2 DEF IInv, TypeOK, Books, SubStep

\* The inductive invariant holds in every reachable state.
LEMMA Inductive == Spec => []IInv
  <1>1. IInv /\ [Next]_vars => IInv'
    BY Preserved
  <1> QED
    BY <1>1, Initially, PTL DEF Spec

\* The vault's state keeps its type: in particular no sequence of deposits,
\* charges, fee splits, refunds and withdrawals makes the prepaid balance of a
\* subscription, the balance of a merchant or the token balance negative.
THEOREM TypeCorrect == Spec => []TypeOK
  BY Inductive, PTL DEF IInv

\* Every subscription stands where its billing calendar says: charge_one and
\* do_grace_buyout record the period of the collection they make, and a stored
\* GracePeriod, which a buyout charges without looking at the clock, means
\* that a whole interval has passed since the last collection.
THEOREM CalendarCorrect == Spec => []BillingCalendar
  BY Inductive, PTL DEF IInv

\* INV-1 for every interval, grace period and set of subscriptions: no two
\* collections by charge_one or do_grace_buyout fall in one billing period or
\* less than an interval apart, whatever is called in between.
THEOREM SpacingCorrect == Spec => ChargeSpacing
  <1>1. IInv /\ [Next]_vars => [\A s \in Subs : CollectedOnce(s)]_vars
    BY Preserved DEF SubStep
  <1> QED
    BY <1>1, Inductive, PTL DEF Spec, ChargeSpacing

\* The status get_subscription returns implements the state machine of
\* state_machine.rs, although an elapsed grace period is only rewritten in
\* the view and every handler writes the view back.
THEOREM LifecycleCorrect == Spec => LifecycleRefined
  <1> DEFINE view == [s \in Subs |-> EffectiveStatus(sub[s])]
  <1>1. Init => Observed!Init
    BY DEF Init, Observed!Init, EffectiveStatus, Absent
  <1>2. IInv /\ IInv' /\ [Next]_vars => [Observed!Next]_view
    <2> SUFFICES ASSUME IInv, IInv', [Next]_vars PROVE Observed!Next
      OBVIOUS
    <2>1. SubStep /\ sub' \in [Subs -> Subscription]
      BY Preserved DEF SubStep
    <2>2. \A s \in Subs : EffectiveStatus(sub[s])' \in Status \cup {"Absent"}
      BY <2>1, FieldTypes DEF EffectiveStatus, Status
    <2>3. \A s \in Subs : Observed!Allowed(view[s], view'[s])
      BY <2>1 DEF SubStep
    <2> QED
      BY <2>2, <2>3 DEF Observed!Next, Observed!Status, Status
  <1> QED
    BY <1>1, <1>2, Inductive, PTL DEF Spec, LifecycleRefined, Observed!Spec

-----------------------------------------------------------------------------
(* Free ids.                                                               *)

\* No id comes into being: what does not exist is left as it is.
NoNewId == \A t \in Subs : ~Exists(t) => sub'[t] = sub[t]

\* Writing a subscription that exists creates none.
LEMMA WriteExisting ==
    ASSUME sub \in [Subs -> Subscription], NEW s \in Subs, Exists(s),
           NEW r, sub' = [sub EXCEPT ![s] = r]
    PROVE  NoNewId
  <1>1. \A t \in Subs : t # s => sub'[t] = sub[t]
    OBVIOUS
  <1> QED
    BY <1>1 DEF NoNewId, Exists

\* charge_one, usage charges, payments and control calls need a subscription.
LEMMA HandlerCreatesNone ==
    ASSUME sub \in [Subs -> Subscription], NEW s \in Subs,
           \/ Dunning(s) \/ Payments(s) \/ Control(s)
           \/ \E a \in ChargeAmounts : ChargeCollect(s, a)
           \/ \E a \in UsageAmounts : ChargeUsage(s, a)
    PROVE  NoNewId
  <1>1. CASE Dunning(s)
    BY <1>1, WriteExisting DEF Dunning, ChargeExpire, ChargeAtCap,
       ChargeScheduledCancellation, ChargeOverCap, ChargeUnderfunded, ChargeDue,
       ChargeAllowed, write_subscription
  <1>2. CASE Payments(s)
    <2>1. CASE \E a \in OneOffAmounts : ChargeOneOff(s, a)
      BY <2>1 DEF ChargeOneOff, NoNewId, Exists
    <2>2. CASE RequestEmergencyWithdraw(s)
      <3>1. PICK r : sub' = [sub EXCEPT ![s] = r]
        BY <2>2 DEF RequestEmergencyWithdraw
      <3> QED
        BY <2>2, <3>1, WriteExisting DEF RequestEmergencyWithdraw
    <2>3. CASE \E a \in DepositAmounts : DepositFunds(s, a)
      BY <2>3, WriteExisting DEF DepositFunds, write_subscription
    <2>4. CASE \E a \in BulkAmounts : BulkDepositFunds(s, a)
      BY <2>4, WriteExisting DEF BulkDepositFunds, write_subscription
    <2>5. CASE \E a \in DelegatedAmounts : DepositFundsOnBehalf(s, a)
      BY <2>5, WriteExisting DEF DepositFundsOnBehalf, write_subscription
    <2>6. CASE \E c \in ChargeAmounts, a \in BuyoutAmounts : GraceBuyout(s, c, a)
      BY <2>6, WriteExisting DEF GraceBuyout, write_subscription
    <2>7. CASE FinalizeEmergencyWithdraw(s) \/ WithdrawSubscriberFunds(s)
      BY <2>7, WriteExisting DEF FinalizeEmergencyWithdraw, WithdrawSubscriberFunds,
         write_subscription
    <2>8. CASE \E a \in RefundAmounts : PartialRefund(s, a)
      BY <2>8, WriteExisting DEF PartialRefund, write_subscription
    <2> QED
      BY <1>2, <2>1, <2>2, <2>3, <2>4, <2>5, <2>6, <2>7, <2>8 DEF Payments
  <1>3. CASE Control(s)
    BY <1>3, WriteExisting DEF Control, CancelSubscription, ResumeSubscription,
       ScheduleCancel, SetExpirationLedger, UnscheduleCancel, PauseSubscription,
       CleanupSubscription, SetAutoRenew, UpdateSubscriptionCap, write_subscription
  <1>4. CASE \E a \in ChargeAmounts : ChargeCollect(s, a)
    BY <1>4, WriteExisting DEF ChargeCollect, ChargeDue, ChargeAllowed, write_subscription
  <1>5. CASE \E a \in UsageAmounts : ChargeUsage(s, a)
    BY <1>5, WriteExisting DEF ChargeUsage, UsageAllowed, ChargeAllowed, write_subscription
  <1> QED
    BY <1>1, <1>2, <1>3, <1>4, <1>5

\* Nor does the administration create subscriptions: removal from the blocklist
\* resumes Paused ones.
LEMMA AdministrationCreatesNone ==
    ASSUME Administration PROVE NoNewId
  <1>1. CASE sub' = sub
    BY <1>1 DEF NoNewId, Exists
  <1>2. CASE \E x \in Blockable : RemoveFromBlocklist(x)
    <2>1. ASSUME NEW t \in Subs, ~Exists(t) PROVE sub'[t] = sub[t]
      BY <1>2, <2>1 DEF RemoveFromBlocklist, Exists
    <2> QED
      BY <2>1 DEF NoNewId, Exists
  <1> QED
    BY <1>1, <1>2 DEF Administration, WithdrawMerchantFunds, MerchantRefund,
       RecoverStrandedFunds, EnableEmergencyStop, DisableEmergencyStop, AddToBlocklist,
       PauseMerchant, UnpauseMerchant, UpdateMerchantConfig, Tick

\* An id that is not taken holds the fresh record: no money, no history.
AbsentInv == \A t \in Subs : ~Exists(t) => sub[t] = Absent

\* Creation writes the one id it is for; every other step leaves the free ids alone.
LEMMA FreeIds ==
    ASSUME IInv, [Next]_vars
    PROVE  \/ NoNewId
           \/ \E s \in Subs : Created(s)
  <1>0. sub \in [Subs -> Subscription]
    BY DEF IInv, TypeOK
  <1>1. CASE UNCHANGED vars
    BY <1>1 DEF vars, NoNewId
  <1>2. CASE Administration
    BY <1>2, AdministrationCreatesNone
  <1>3. ASSUME NEW s \in Subs, Billing(s) \/ Control(s) PROVE NoNewId
    BY <1>0, <1>3, HandlerCreatesNone DEF Billing
  <1>4. ASSUME NEW s \in Subs, Funding(s)
        PROVE  NoNewId \/ Created(s)
    BY <1>0, <1>4, HandlerCreatesNone, Creations DEF Funding
  <1> QED
    BY <1>1, <1>2, <1>3, <1>4 DEF Next

\* No edge of the state machine leads back to a free id.
LEMMA NoReturn ==
    ASSUME NEW from, Observed!Allowed(from, "Absent")
    PROVE  from = "Absent"
  BY DEF Observed!Allowed, Observed!can_transition, Observed!get_allowed_transitions

\* No id that was taken becomes free again, and none is freed half-written.
LEMMA AbsentStep ==
    ASSUME IInv, AbsentInv, [Next]_vars
    PROVE  AbsentInv'
  <1>1. \A t \in Subs : Exists(t) => Exists(t)'
    <2>1. ASSUME NEW t \in Subs, Exists(t), ~Exists(t)' PROVE FALSE
      <3>1. Observed!Allowed(EffectiveStatus(sub[t]), EffectiveStatus(sub[t])')
        BY Preserved DEF SubStep
      <3>2. EffectiveStatus(sub[t]) # "Absent" /\ EffectiveStatus(sub[t])' = "Absent"
        BY <2>1 DEF Exists, EffectiveStatus
      <3> QED
        BY <3>1, <3>2, NoReturn
    <2> QED
      BY <2>1
  <1>2. CASE NoNewId
    BY <1>1, <1>2 DEF NoNewId, AbsentInv
  <1>3. ASSUME NEW s \in Subs, Created(s) PROVE AbsentInv'
    <2>1. PICK r : sub' = [sub EXCEPT ![s] = r] /\ r.status = "Active"
      <3>1. PICK cap \in Caps, trial \in {0} \cup Trials, t \in Times \cup {None} :
                 Enter(s, cap, trial, t)
        BY <1>3 DEF Created
      <3>2. Entered(cap, trial, t).status = "Active"
        BY EnteredType
      <3> QED
        BY <3>1, <3>2 DEF Enter, Entered, write_subscription
    <2>2. Exists(s)' /\ \A u \in Subs : u # s => sub'[u] = sub[u]
      BY <2>1 DEF Exists, IInv, TypeOK
    <2> QED
      BY <2>2 DEF AbsentInv, Exists
  <1> QED
    BY <1>2, <1>3, FreeIds

\* In every reachable state a free id holds the fresh record.
LEMMA FreshIds == Spec => []AbsentInv
  <1>1. Init => AbsentInv
    BY DEF Init, AbsentInv
  <1>2. IInv /\ AbsentInv /\ [Next]_vars => AbsentInv'
    BY AbsentStep
  <1> QED
    BY <1>1, <1>2, Inductive, PTL DEF Spec

-----------------------------------------------------------------------------
(* Money under the switches.                                               *)

\* No handler that moves a status, a date or prepaid money moves `charged`.
Uncharged == \A t \in Subs : sub'[t].charged = sub[t].charged

\* The view a handler reads leaves `charged` alone, and whether the status is live.
LEMMA ViewKeeps ==
    ASSUME IInv, NEW s \in Subs
    PROVE  /\ get_subscription(s).charged = sub[s].charged
           /\ get_subscription(s).prepaid = sub[s].prepaid
           /\ get_subscription(s).status \in Live <=> sub[s].status \in Live
  <1>1. sub[s] \in Subscription
    BY View
  <1>2. /\ get_subscription(s).charged = sub[s].charged
        /\ get_subscription(s).prepaid = sub[s].prepaid
        /\ get_subscription(s).status = EffectiveStatus(sub[s])
    BY <1>1 DEF get_subscription, Subscription
  <1> QED
    BY <1>2 DEF EffectiveStatus, Live

\* One record written with its `charged` as it was read.
LEMMA WriteUncharged ==
    ASSUME IInv, NEW s \in Subs, NEW r2, write_subscription(s, r2),
           r2.charged = get_subscription(s).charged
    PROVE  Uncharged
  BY ViewKeeps DEF IInv, TypeOK, write_subscription, Uncharged

\* A charge that does not collect moves neither `charged` nor an account.
LEMMA DunningUncharged ==
    ASSUME IInv, NEW s \in Subs, Dunning(s)
    PROVE  Uncharged /\ bal' = bal /\ ~stop /\ vault' <= vault
  <1> DEFINE r == get_subscription(s)
  <1>1. r \in Subscription /\ r.prepaid \in Nat /\ vault \in Nat
    BY View, FieldTypes DEF IInv, TypeOK
  <1>2. CASE ChargeExpire(s) \/ ChargeAtCap(s)
    BY <1>1, <1>2, WriteUncharged DEF ChargeExpire, ChargeAtCap, ChargeAllowed, Subscription
  <1>3. CASE ChargeScheduledCancellation(s)
    <2>1. [r EXCEPT !.status = "Cancelled", !.prepaid = 0, !.cancelAt = None].charged = r.charged
      BY <1>1 DEF Subscription
    <2>2. Uncharged
      BY <1>3, <2>1, WriteUncharged DEF ChargeScheduledCancellation
    <2> QED
      BY <1>1, <1>3, <2>2 DEF ChargeScheduledCancellation, ChargeAllowed, TransferOut
  <1>4. ASSUME NEW a \in ChargeAmounts, ChargeOverCap(s, a)
        PROVE  Uncharged /\ bal' = bal /\ ~stop /\ vault' <= vault
    BY <1>1, <1>4, WriteUncharged DEF ChargeOverCap, ChargeDue, ChargeAllowed, Subscription
  <1>5. ASSUME NEW a \in ChargeAmounts, ChargeUnderfunded(s, a)
        PROVE  Uncharged /\ bal' = bal /\ ~stop /\ vault' <= vault
    <2>1. Underfunded(r) \in Subscription /\ Underfunded(r).charged = r.charged
      <3>1. now \in Nat
        BY InputAssumption DEF IInv, TypeOK
      <3> QED
        BY <1>1, <3>1, Optional DEF Underfunded, Subscription, Status
    <2>2. CountFailure(Underfunded(r)).charged = r.charged
      BY <2>1 DEF CountFailure, Subscription
    <2> QED
      BY <1>1, <1>5, <2>2, WriteUncharged DEF ChargeUnderfunded, ChargeDue, ChargeAllowed
  <1> QED
    BY <1>2, <1>3, <1>4, <1>5 DEF Dunning

\* Neither do cancellation, pause, resume and the settings.
LEMMA ControlUncharged ==
    ASSUME IInv, NEW s \in Subs, Control(s)
    PROVE  Uncharged /\ bal' = bal /\ vault' <= vault
  <1> DEFINE r == get_subscription(s)
  <1>1. r \in Subscription /\ r.prepaid \in Nat /\ vault \in Nat
    BY View, FieldTypes DEF IInv, TypeOK
  <1>2. ASSUME NEW by \in Users, CancelSubscription(s, by) \/ ResumeSubscription(s, by)
        PROVE  Uncharged /\ bal' = bal /\ vault' <= vault
    <2>1. /\ [r EXCEPT !.status = "Cancelled", !.prepaid = 0].charged = r.charged
          /\ [r EXCEPT !.status = "Active"].charged = r.charged
      BY <1>1 DEF Subscription
    <2>2. Uncharged
      BY <1>2, <2>1, WriteUncharged DEF CancelSubscription, ResumeSubscription
    <2> QED
      BY <1>1, <1>2, <2>2 DEF CancelSubscription, ResumeSubscription, TransferOut
  <1>3. CASE PauseSubscription(s) \/ CleanupSubscription(s) \/ UnscheduleCancel(s)
    BY <1>1, <1>3, WriteUncharged
    DEF PauseSubscription, CleanupSubscription, UnscheduleCancel, Subscription
  <1>4. ASSUME NEW t \in Times, ScheduleCancel(s, t) \/ SetExpirationLedger(s, t)
        PROVE  Uncharged /\ bal' = bal /\ vault' <= vault
    BY <1>1, <1>4, WriteUncharged DEF ScheduleCancel, SetExpirationLedger, Subscription
  <1>5. ASSUME NEW b \in RenewChoices, SetAutoRenew(s, b)
        PROVE  Uncharged /\ bal' = bal /\ vault' <= vault
    BY <1>1, <1>5, WriteUncharged DEF SetAutoRenew, Subscription
  <1>6. ASSUME NEW cap \in Caps, UpdateSubscriptionCap(s, cap)
        PROVE  Uncharged /\ bal' = bal /\ vault' <= vault
    BY <1>1, <1>6, WriteUncharged DEF UpdateSubscriptionCap, Subscription
  <1> QED
    BY <1>2, <1>3, <1>4, <1>5, <1>6 DEF Control

\* The four things a step can do to money: only let it out, move it without
\* earning, charge one subscription, or buy one out of its grace period.
MoneyOut == Uncharged /\ vault' <= vault /\ \A x \in Accounts : bal'[x] <= bal[x]
Unearned == Uncharged /\ bal' = bal /\ ~stop
Earned(s) == ~stop /\ Unblocked(s) /\ \A t \in Subs \ {s} : sub'[t].charged = sub[t].charged

\* Accounts left alone do not earn.
LEMMA NoEarning ==
    ASSUME IInv, bal' = bal, vault' <= vault, Uncharged
    PROVE  MoneyOut
  BY DEF MoneyOut, IInv, TypeOK

\* A handler charges no subscription but its own.
LEMMA OthersUncharged ==
    ASSUME IInv, NEW s \in Subs, NEW r2, write_subscription(s, r2)
    PROVE  \A t \in Subs \ {s} : sub'[t].charged = sub[t].charged
  BY DEF IInv, TypeOK, write_subscription

\* Deposits take money in, refunds and withdrawals pay it out; neither earns.
LEMMA TransfersMoney ==
    ASSUME IInv, NEW s \in Subs,
           \/ \E a \in DepositAmounts : DepositFunds(s, a)
           \/ \E a \in BulkAmounts : BulkDepositFunds(s, a)
           \/ \E a \in DelegatedAmounts : DepositFundsOnBehalf(s, a)
           \/ RequestEmergencyWithdraw(s) \/ FinalizeEmergencyWithdraw(s)
           \/ WithdrawSubscriberFunds(s)
           \/ \E a \in RefundAmounts : PartialRefund(s, a)
    PROVE  MoneyOut \/ Unearned
  <1> DEFINE r == get_subscription(s)
  <1>1. /\ r \in Subscription /\ r.prepaid \in Nat /\ vault \in Nat
        /\ sub[s] \in Subscription /\ sub \in [Subs -> Subscription]
    BY View, FieldTypes DEF IInv, TypeOK
  <1>2. ASSUME NEW a \in DepositAmounts \cup BulkAmounts,
               DepositFunds(s, a) \/ BulkDepositFunds(s, a)
        PROVE  Unearned
    <2>1. [r EXCEPT !.prepaid = @ + a, !.failures = 0].charged = r.charged
      BY <1>1 DEF Subscription
    <2>2. Uncharged
      BY <1>2, <2>1, WriteUncharged DEF DepositFunds, BulkDepositFunds
    <2> QED
      BY <1>2, <2>2 DEF Unearned, DepositFunds, BulkDepositFunds
  <1>3. ASSUME NEW a \in DelegatedAmounts, DepositFundsOnBehalf(s, a)
        PROVE  Unearned
    <2>1. \A st, g : [r EXCEPT !.prepaid = @ + a, !.status = st, !.graceStart = g].charged
                       = r.charged
      BY <1>1 DEF Subscription
    <2>2. Uncharged
      BY <1>3, <2>1, WriteUncharged DEF DepositFundsOnBehalf
    <2> QED
      BY <1>3, <2>2 DEF Unearned, DepositFundsOnBehalf
  <1>4. CASE RequestEmergencyWithdraw(s)
    <2>1. Uncharged
      BY <1>1, <1>4 DEF RequestEmergencyWithdraw, Uncharged, Subscription
    <2> QED
      BY <1>1, <1>4, <2>1, NoEarning DEF RequestEmergencyWithdraw
  <1>5. CASE FinalizeEmergencyWithdraw(s) \/ WithdrawSubscriberFunds(s)
    <2>1. /\ [r EXCEPT !.prepaid = 0, !.intentAt = None].charged = r.charged
          /\ [r EXCEPT !.prepaid = 0].charged = r.charged
      BY <1>1 DEF Subscription
    <2>2. Uncharged
      BY <1>5, <2>1, WriteUncharged DEF FinalizeEmergencyWithdraw, WithdrawSubscriberFunds
    <2> QED
      BY <1>1, <1>5, <2>2, NoEarning
      DEF FinalizeEmergencyWithdraw, WithdrawSubscriberFunds, TransferOut
  <1>6. ASSUME NEW a \in RefundAmounts, PartialRefund(s, a) PROVE Unearned
    <2>1. [r EXCEPT !.prepaid = @ - a].charged = r.charged
      BY <1>1 DEF Subscription
    <2>2. Uncharged
      BY <1>6, <2>1, WriteUncharged DEF PartialRefund
    <2> QED
      BY <1>6, <2>2 DEF Unearned, PartialRefund
  <1> QED
    BY <1>2, <1>3, <1>4, <1>5, <1>6

\* What payments do to money: only buyouts and one-off charges earn.
LEMMA PaymentsMoney ==
    ASSUME IInv, NEW s \in Subs, Payments(s)
    PROVE  MoneyOut \/ Unearned \/ Earned(s) \/ (~stop /\ BoughtOut(s))
  <1>1. ASSUME NEW c \in ChargeAmounts, NEW a \in BuyoutAmounts, GraceBuyout(s, c, a)
        PROVE  ~stop /\ BoughtOut(s)
    BY <1>1 DEF GraceBuyout, BoughtOut
  <1>2. ASSUME NEW a \in OneOffAmounts, ChargeOneOff(s, a) PROVE Earned(s)
    BY <1>2 DEF ChargeOneOff, Earned
  <1> QED
    BY <1>1, <1>2, TransfersMoney DEF Payments

\* Interval and usage charges run only while nothing is stopped or blocked.
LEMMA ChargesMoney ==
    ASSUME IInv, NEW s \in Subs,
           \/ \E a \in ChargeAmounts : ChargeCollect(s, a)
           \/ \E a \in UsageAmounts : ChargeUsage(s, a)
    PROVE  Earned(s)
  <1>1. ASSUME NEW a \in ChargeAmounts, ChargeCollect(s, a) PROVE Earned(s)
    BY <1>1, OthersUncharged DEF ChargeCollect, ChargeDue, ChargeAllowed, Earned
  <1>2. ASSUME NEW a \in UsageAmounts, ChargeUsage(s, a) PROVE Earned(s)
    BY <1>2, OthersUncharged DEF ChargeUsage, UsageAllowed, ChargeAllowed, Earned
  <1> QED
    BY <1>1, <1>2

\* Creation, which writes a fresh record over a free id, moves no money.
LEMMA CreateMoney ==
    ASSUME IInv, AbsentInv, NEW s \in Subs, Created(s)
    PROVE  MoneyOut
  <1>1. PICK cap \in Caps, trial \in {0} \cup Trials, t \in Times \cup {None} :
             Enter(s, cap, trial, t)
    BY DEF Created
  <1>2. Entered(cap, trial, t).charged = 0 /\ sub[s].charged = 0
    BY <1>1, EnteredType DEF Enter, AbsentInv, Absent
  <1>3. write_subscription(s, Entered(cap, trial, t)) /\ bal' = bal /\ vault' = vault
    BY <1>1 DEF Enter, Entered
  <1>4. Uncharged
    <2>1. get_subscription(s).charged = 0
      BY <1>2, ViewKeeps DEF IInv, TypeOK
    <2> QED
      BY <1>2, <1>3, <2>1, WriteUncharged
  <1> QED
    BY <1>3, <1>4, NoEarning DEF IInv, TypeOK

\* Merchants and the administrator only take money out.
LEMMA AdministrationMoney ==
    ASSUME IInv, Administration
    PROVE  MoneyOut
  <1>1. /\ sub \in [Subs -> Subscription] /\ bal \in [Accounts -> Nat] /\ vault \in Nat
    BY DEF IInv, TypeOK
  <1>2. ASSUME NEW x \in Accounts, NEW a \in MerchantAmounts,
               WithdrawMerchantFunds(x, a) \/ MerchantRefund(x, a)
        PROVE  MoneyOut
    <2>1. /\ a \in Nat /\ bal' = [bal EXCEPT ![x] = @ - a] /\ vault' = vault - a /\ sub' = sub
      BY <1>2, InputAssumption DEF WithdrawMerchantFunds, MerchantRefund, TransferOut
    <2> QED
      BY <1>1, <2>1 DEF MoneyOut, Uncharged
  <1>3. ASSUME NEW a \in RecoveryAmounts, RecoverStrandedFunds(a) PROVE MoneyOut
    <2>1. a \in Nat /\ vault' = vault - a /\ sub' = sub /\ bal' = bal
      BY <1>3, InputAssumption DEF RecoverStrandedFunds, TransferOut
    <2> QED
      BY <1>1, <2>1 DEF MoneyOut, Uncharged
  <1>4. CASE /\ bal' = bal /\ vault' = vault /\ sub' = sub
    BY <1>1, <1>4 DEF MoneyOut, Uncharged
  <1>5. ASSUME NEW x \in Blockable, RemoveFromBlocklist(x) PROVE MoneyOut
    <2>1. \A t \in Subs : [sub[t] EXCEPT !.status = "Active"].charged = sub[t].charged
      BY <1>1 DEF Subscription
    <2>2. Uncharged
      BY <1>5, <2>1 DEF RemoveFromBlocklist, Uncharged
    <2> QED
      BY <1>1, <1>5, <2>2, NoEarning DEF RemoveFromBlocklist
  <1>6. CASE EnableEmergencyStop \/ DisableEmergencyStop \/ Tick
    BY <1>4, <1>6 DEF EnableEmergencyStop, DisableEmergencyStop, Tick
  <1>7. ASSUME NEW x \in Blockable, AddToBlocklist(x) PROVE MoneyOut
    BY <1>4, <1>7 DEF AddToBlocklist
  <1>8. ASSUME NEW m \in Pausable, NEW b \in BOOLEAN,
               PauseMerchant(m) \/ UnpauseMerchant(m) \/ UpdateMerchantConfig(m, b)
        PROVE  MoneyOut
    BY <1>4, <1>8 DEF PauseMerchant, UnpauseMerchant, UpdateMerchantConfig
  <1> QED
    BY <1>2, <1>3, <1>5, <1>6, <1>7, <1>8 DEF Administration

\* Every step does one of the four.
LEMMA MoneyKinds ==
    ASSUME IInv, AbsentInv, [Next]_vars
    PROVE  MoneyOut \/ Unearned \/ \E s \in Subs : Earned(s) \/ (~stop /\ BoughtOut(s))
  <1>1. CASE UNCHANGED vars
    BY <1>1, NoEarning DEF vars, Uncharged, IInv, TypeOK
  <1>2. CASE Administration
    BY <1>2, AdministrationMoney
  <1>3. ASSUME NEW s \in Subs, Billing(s)
        PROVE  MoneyOut \/ Earned(s)
    BY <1>3, DunningUncharged, NoEarning, ChargesMoney DEF Billing
  <1>4. ASSUME NEW s \in Subs, Funding(s)
        PROVE  MoneyOut \/ Unearned \/ Earned(s) \/ (~stop /\ BoughtOut(s))
    BY <1>4, Creations, CreateMoney, ChargesMoney, PaymentsMoney DEF Funding
  <1>5. ASSUME NEW s \in Subs, Control(s) PROVE MoneyOut
    BY <1>5, ControlUncharged, NoEarning
  <1> QED
    BY <1>1, <1>2, <1>3, <1>4, <1>5 DEF Next

\* Once the emergency stop is on, no entrypoint lets money in or a balance
\* grow: each one that charges, deposits or buys out tests the stop itself,
\* and cancellation, withdrawals and recovery, which do not, only pay out.
THEOREM StopCorrect == Spec => StopFreezesBilling
  <1>1. ASSUME IInv, AbsentInv, [Next]_vars
        PROVE  [stop => /\ vault' <= vault
                        /\ \A x \in Accounts : bal'[x] <= bal[x]
                        /\ \A s \in Subs : sub'[s].charged = sub[s].charged]_vars
    BY <1>1, MoneyKinds DEF MoneyOut, Unearned, Earned, Uncharged
  <1> QED
    BY <1>1, Inductive, FreshIds, PTL DEF Spec, StopFreezesBilling

\* A buyout charges no subscription but its own.
LEMMA BuyoutOthers ==
    ASSUME IInv, NEW s \in Subs, BoughtOut(s)
    PROVE  \A t \in Subs \ {s} : sub'[t].charged = sub[t].charged
  BY OthersUncharged DEF BoughtOut, GraceBuyout

\* A subscription whose subscriber or merchant is blocklisted is never charged,
\* but by buying it out of its grace period: do_grace_buyout does not look.
THEOREM BlockedCorrect == Spec => BlockedNeverBilled
  <1> DEFINE Unbilled ==
         /\ \A s \in Subs : ~Unblocked(s) /\ sub'[s].charged # sub[s].charged => BoughtOut(s)
         /\ (\A s \in Subs : ~Unblocked(s)) => \/ \A x \in Accounts : bal'[x] <= bal[x]
                                               \/ \E s \in Subs : BoughtOut(s)
  <1>1. ASSUME IInv, AbsentInv, [Next]_vars
        PROVE  [Unbilled]_vars
    <2>1. CASE MoneyOut
      BY <2>1 DEF MoneyOut, Uncharged
    <2>2. CASE Unearned
      BY <1>1, <2>2 DEF Unearned, Uncharged, IInv, TypeOK
    <2>3. ASSUME NEW s \in Subs, Earned(s) PROVE Unbilled
      BY <2>3 DEF Earned
    <2>4. ASSUME NEW s \in Subs, BoughtOut(s) PROVE Unbilled
      BY <1>1, <2>4, BuyoutOthers
    <2>5. MoneyOut \/ Unearned \/ \E s \in Subs : Earned(s) \/ BoughtOut(s)
      BY <1>1, MoneyKinds
    <2> HIDE DEF Unbilled
    <2> QED
      BY <2>1, <2>2, <2>3, <2>4, <2>5
  <1> QED
    BY <1>1, Inductive, FreshIds, PTL DEF Spec, BlockedNeverBilled

-----------------------------------------------------------------------------
(* The active-subscription counter.                                        *)

\* The subscriptions of u the cap's counter has to cover.
LiveOf(u) == {s \in Subs : SubscriberOf[s] = u /\ sub[s].status \in Live}

\* ActiveCountCovers is inductive once the types are known.
CountInv == IInv /\ ActiveCountCovers

\* Sets of subscriptions are finite, and the counter's ceiling covers them.
LEMMA SubsetSize ==
    ASSUME NEW A, A \subseteq Subs
    PROVE  /\ IsFiniteSet(A) /\ Cardinality(A) \in Nat
           /\ Cardinality(A) <= MaxCount
           /\ \A B \in SUBSET A : Cardinality(B) \in Nat /\ Cardinality(B) <= Cardinality(A)
  <1>1. IsFiniteSet(Subs) /\ MaxCount \in Nat /\ Cardinality(Subs) <= MaxCount
    BY ConfigAssumption, InputAssumption, FS_CardinalityType
  <1>2. IsFiniteSet(A) /\ Cardinality(A) <= Cardinality(Subs) /\ Cardinality(A) \in Nat
        /\ Cardinality(Subs) \in Nat
    BY <1>1, FS_Subset, FS_CardinalityType
  <1>3. ASSUME NEW B \in SUBSET A
        PROVE  Cardinality(B) \in Nat /\ Cardinality(B) <= Cardinality(A)
    BY <1>2, FS_Subset, FS_CardinalityType
  <1> QED
    BY <1>1, <1>2, <1>3

\* The invariant says that the counter covers LiveOf(u).
LEMMA CoversLive ==
    ActiveCountCovers <=> \A u \in Subscribers : activeCount[u] >= Cardinality(LiveOf(u))
  BY DEF ActiveCountCovers, LiveOf

\* No subscription of T becomes live in this step.
NoRevival(T) == \A t \in T : sub'[t].status \in Live => sub[t].status \in Live

\* Nothing becomes live and the counter does not move.
LEMMA NoRevivalCounts ==
    ASSUME CountInv, NoRevival(Subs), UNCHANGED activeCount
    PROVE  ActiveCountCovers'
  <1> SUFFICES ASSUME NEW u \in Subscribers
               PROVE  activeCount[u] >= Cardinality(LiveOf(u)')
    BY DEF ActiveCountCovers, LiveOf, NoRevival
  <1>1. LiveOf(u)' \subseteq LiveOf(u) /\ LiveOf(u) \subseteq Subs
    BY DEF LiveOf, NoRevival
  <1>2. activeCount[u] \in Nat /\ activeCount[u] >= Cardinality(LiveOf(u))
    BY CoversLive DEF CountInv, IInv, TypeOK
  <1>3. /\ Cardinality(LiveOf(u)) \in Nat /\ Cardinality(LiveOf(u)') \in Nat
        /\ Cardinality(LiveOf(u)') <= Cardinality(LiveOf(u))
    BY <1>1, SubsetSize
  <1> QED
    BY <1>2, <1>3

\* One more live subscription, and the counter incremented up to its ceiling.
LEMMA IncrementCounts ==
    ASSUME CountInv, NEW s \in Subs, NoRevival(Subs \ {s}), increment_active(s)
    PROVE  ActiveCountCovers'
  <1> SUFFICES ASSUME NEW u \in Subscribers
               PROVE  activeCount'[u] >= Cardinality(LiveOf(u)')
    BY DEF ActiveCountCovers, LiveOf
  <1> DEFINE A == LiveOf(u)
             B == LiveOf(u)'
  <1>1. /\ B \subseteq A \cup {s} /\ A \subseteq Subs /\ B \subseteq Subs
        /\ SubscriberOf[s] # u => B \subseteq A
    BY DEF LiveOf, NoRevival
  <1>2. activeCount[u] \in Nat /\ activeCount[u] >= Cardinality(A)
    BY CoversLive DEF CountInv, IInv, TypeOK
  <1>3. activeCount'[u] = IF SubscriberOf[s] = u /\ activeCount[u] < MaxCount
                            THEN activeCount[u] + 1 ELSE activeCount[u]
    BY DEF CountInv, IInv, TypeOK, increment_active
  <1> SUFFICES activeCount'[u] >= Cardinality(B)
    OBVIOUS
  <1> HIDE DEF A, B
  <1>4. /\ Cardinality(A) \in Nat /\ IsFiniteSet(A) /\ MaxCount \in Nat
        /\ Cardinality(B) \in Nat /\ Cardinality(B) <= MaxCount
    BY <1>1, SubsetSize, InputAssumption
  <1>5. CASE SubscriberOf[s] = u
    <2>1. /\ IsFiniteSet(A \cup {s}) /\ Cardinality(A \cup {s}) <= Cardinality(A) + 1
          /\ Cardinality(A \cup {s}) \in Nat
      <3>1. /\ IsFiniteSet(A \cup {s})
            /\ Cardinality(A \cup {s}) = IF s \in A THEN Cardinality(A) ELSE Cardinality(A) + 1
        BY <1>4, FS_AddElement
      <3> QED
        BY <1>4, <3>1
    <2>2. Cardinality(B) <= Cardinality(A \cup {s})
      BY <1>1, <2>1, FS_Subset
    <2> QED
      BY <1>2, <1>3, <1>4, <1>5, <2>1, <2>2
  <1>6. CASE SubscriberOf[s] # u
    <2>1. Cardinality(B) <= Cardinality(A)
      BY <1>1, <1>6, SubsetSize
    <2> QED
      BY <1>2, <1>3, <1>4, <1>6, <2>1
  <1> QED
    BY <1>5, <1>6

\* One live subscription less, and the counter decremented.
LEMMA DecrementCounts ==
    ASSUME CountInv, NEW s \in Subs, NoRevival(Subs), decrement_active(s),
           sub[s].status \in Live, sub'[s].status \notin Live
    PROVE  ActiveCountCovers'
  <1> SUFFICES ASSUME NEW u \in Subscribers
               PROVE  activeCount'[u] >= Cardinality(LiveOf(u)')
    BY DEF ActiveCountCovers, LiveOf
  <1> DEFINE A == LiveOf(u)
             B == LiveOf(u)'
  <1>1. /\ B \subseteq A /\ A \subseteq Subs
        /\ SubscriberOf[s] = u => s \in A /\ B \subseteq A \ {s}
    BY DEF LiveOf, NoRevival
  <1>2. activeCount[u] \in Nat /\ activeCount[u] >= Cardinality(A)
    BY CoversLive DEF CountInv, IInv, TypeOK
  <1>3. activeCount'[u] = IF SubscriberOf[s] = u
                            THEN IF activeCount[u] = 0 THEN 0 ELSE activeCount[u] - 1
                            ELSE activeCount[u]
    BY DEF CountInv, IInv, TypeOK, decrement_active
  <1> SUFFICES activeCount'[u] >= Cardinality(B)
    OBVIOUS
  <1> HIDE DEF A, B
  <1>4. /\ Cardinality(A) \in Nat /\ IsFiniteSet(A) /\ Cardinality(B) \in Nat
        /\ Cardinality(B) <= Cardinality(A)
    BY <1>1, SubsetSize
  <1>5. CASE SubscriberOf[s] = u
    <2>1. /\ IsFiniteSet(A \ {s}) /\ Cardinality(A \ {s}) = Cardinality(A) - 1
      BY <1>1, <1>4, <1>5, FS_RemoveElement
    <2>2. Cardinality(B) <= Cardinality(A \ {s})
      BY <1>1, <1>5, <2>1, FS_Subset
    <2>3. activeCount[u] # 0
      BY <1>2, <1>4, <2>1, <2>2
    <2> QED
      BY <1>2, <1>3, <1>4, <1>5, <2>1, <2>2, <2>3
  <1>6. CASE SubscriberOf[s] # u
    BY <1>2, <1>3, <1>4, <1>6
  <1> QED
    BY <1>5, <1>6

\* A handler writes one record that is live only if the one it read was.
LEMMA WriteCounts ==
    ASSUME CountInv, NEW s \in Subs, NEW r2, write_subscription(s, r2),
           r2.status \in Live => get_subscription(s).status \in Live
    PROVE  NoRevival(Subs)
  BY ViewKeeps DEF CountInv, IInv, TypeOK, write_subscription, NoRevival

\* remove_from_blocklist resumes several subscriptions and counts each of them.
LEMMA UnblockCounts ==
    ASSUME CountInv, NEW x \in Blockable, RemoveFromBlocklist(x)
    PROVE  ActiveCountCovers'
  <1> SUFFICES ASSUME NEW u \in Subscribers
               PROVE  activeCount'[u] >= Cardinality(LiveOf(u)')
    BY DEF ActiveCountCovers, LiveOf
  <1> DEFINE A == LiveOf(u)
             B == LiveOf(u)'
             R == {s \in indexed : SubscriberOf[s] = x /\ sub[s].status = "Paused"}
             n == activeCount[u] + (IF u = x THEN Cardinality(R) ELSE 0)
  <1>1. /\ sub \in [Subs -> Subscription] /\ indexed \subseteq Subs
        /\ activeCount[u] \in Nat /\ activeCount[u] >= Cardinality(A)
    BY CoversLive DEF CountInv, IInv, TypeOK
  <1>2. \A s \in Subs \ R : sub'[s] = sub[s]
    BY DEF RemoveFromBlocklist
  <1>3. /\ B \subseteq A \cup R /\ A \subseteq Subs /\ R \subseteq Subs /\ B \subseteq Subs
        /\ u # x => B \subseteq A
    BY <1>1, <1>2 DEF LiveOf
  <1>4. activeCount'[u] = IF n < MaxCount THEN n ELSE MaxCount
    BY DEF RemoveFromBlocklist
  <1> SUFFICES activeCount'[u] >= Cardinality(B)
    OBVIOUS
  <1> HIDE DEF A, B, R
  <1>5. /\ IsFiniteSet(A) /\ IsFiniteSet(R) /\ Cardinality(A) \in Nat /\ Cardinality(R) \in Nat
        /\ Cardinality(B) \in Nat /\ Cardinality(B) <= MaxCount /\ MaxCount \in Nat
        /\ Cardinality(A \cap R) \in Nat
    <2>1. A \cap R \subseteq Subs
      BY <1>3
    <2> QED
      BY <1>3, <2>1, SubsetSize, InputAssumption
  <1>6. CASE u = x
    <2>1. /\ IsFiniteSet(A \cup R)
          /\ Cardinality(A \cup R) = Cardinality(A) + Cardinality(R) - Cardinality(A \cap R)
      BY <1>5, FS_Union
    <2>2. Cardinality(B) <= Cardinality(A \cup R)
      BY <1>3, <2>1, FS_Subset
    <2> QED
      BY <1>1, <1>4, <1>5, <1>6, <2>1, <2>2
  <1>7. CASE u # x
    <2>1. Cardinality(B) <= Cardinality(A)
      BY <1>3, <1>7, SubsetSize
    <2> QED
      BY <1>1, <1>4, <1>5, <1>7, <2>1
  <1> QED
    BY <1>6, <1>7

\* What a step does to the counter, and to the set it covers.
Counted(s) ==
    \/ NoRevival(Subs) /\ UNCHANGED activeCount
    \/ NoRevival(Subs \ {s}) /\ increment_active(s)
    \/ /\ NoRevival(Subs) /\ decrement_active(s)
       /\ sub[s].status \in Live /\ sub'[s].status \notin Live

\* Whichever of the three it is, the counter still covers.
LEMMA CountedCovers ==
    ASSUME CountInv, NEW s \in Subs, Counted(s)
    PROVE  ActiveCountCovers'
  BY NoRevivalCounts, IncrementCounts, DecrementCounts DEF Counted

\* charge_one never revives a subscription: it is live before it is charged,
\* or it ends.
LEMMA BillingCounted ==
    ASSUME CountInv, NEW s \in Subs, Billing(s)
    PROVE  Counted(s)
  <1> DEFINE r == get_subscription(s)
  <1>1. r \in Subscription
    BY View DEF CountInv
  <1>2. CASE ChargeExpire(s) \/ ChargeAtCap(s)
    <2>1. /\ [r EXCEPT !.status = "Expired"].status \notin Live
          /\ [r EXCEPT !.status = "Cancelled"].status \notin Live
      BY <1>1 DEF Subscription, Live
    <2> QED
      BY <1>2, <2>1, WriteCounts DEF ChargeExpire, ChargeAtCap, Counted, book_vars
  <1>3. CASE ChargeScheduledCancellation(s)
    <2>1. [r EXCEPT !.status = "Cancelled", !.prepaid = 0, !.cancelAt = None].status \notin Live
      BY <1>1 DEF Subscription, Live
    <2> QED
      BY <1>3, <2>1, WriteCounts DEF ChargeScheduledCancellation, Counted, book_vars
  <1>4. ASSUME NEW a \in ChargeAmounts,
               ChargeOverCap(s, a) \/ ChargeUnderfunded(s, a) \/ ChargeCollect(s, a)
        PROVE  Counted(s)
    <2>1. r.status \in Live
      BY <1>4 DEF ChargeOverCap, ChargeUnderfunded, ChargeCollect, ChargeDue, Live
    <2> QED
      BY <1>4, <2>1, WriteCounts
      DEF ChargeOverCap, ChargeUnderfunded, ChargeCollect, Counted, book_vars
  <1> QED
    BY <1>2, <1>3, <1>4 DEF Billing, Dunning

\* Creation counts the subscription it makes; deposits, buyouts and usage
\* charges move only subscriptions that are counted already.
LEMMA FundingCounted ==
    ASSUME CountInv, NEW s \in Subs, Funding(s)
    PROVE  Counted(s)
  <1> DEFINE r == get_subscription(s)
  <1>1. r \in Subscription /\ sub \in [Subs -> Subscription]
    BY View DEF CountInv, IInv, TypeOK
  <1>2. ASSUME Created(s) PROVE Counted(s)
    BY <1>1, <1>2 DEF Created, Enter, write_subscription, Counted, NoRevival
  <1>3. ASSUME NEW a \in UsageAmounts, ChargeUsage(s, a) PROVE Counted(s)
    <2>1. r.status \in Live
      BY <1>3 DEF ChargeUsage, UsageAllowed, Live
    <2>2. \E r2 : write_subscription(s, r2)
      BY <1>3 DEF ChargeUsage
    <2> QED
      BY <1>3, <2>1, <2>2, WriteCounts DEF ChargeUsage, Counted, book_vars
  <1>4. ASSUME NEW a, DepositFunds(s, a) \/ BulkDepositFunds(s, a) PROVE Counted(s)
    <2>1. [r EXCEPT !.prepaid = @ + a, !.failures = 0].status = r.status
      BY <1>1 DEF Subscription
    <2> QED
      BY <1>4, <2>1, WriteCounts DEF DepositFunds, BulkDepositFunds, Counted, book_vars
  <1>5. ASSUME NEW a \in DelegatedAmounts, DepositFundsOnBehalf(s, a) PROVE Counted(s)
    <2> DEFINE recovers == r.status \in {"InsufficientBalance", "GracePeriod"}
                             /\ r.prepaid + a >= Amount
               st == IF recovers THEN "Active" ELSE r.status
    <2>1. \A g : [r EXCEPT !.prepaid = @ + a, !.status = st, !.graceStart = g].status = st
      BY <1>1 DEF Subscription
    <2>2. st \in Live => r.status \in Live
      BY DEF Live
    <2>3. \E g : write_subscription(s, [r EXCEPT !.prepaid = @ + a, !.status = st, !.graceStart = g])
      BY <1>5 DEF DepositFundsOnBehalf
    <2>4. UNCHANGED activeCount
      BY <1>5 DEF DepositFundsOnBehalf, book_vars
    <2>5. PICK g : write_subscription(s, [r EXCEPT !.prepaid = @ + a, !.status = st, !.graceStart = g])
      BY <2>3
    <2> DEFINE r2 == [r EXCEPT !.prepaid = @ + a, !.status = st, !.graceStart = g]
    <2>6. write_subscription(s, r2) /\ (r2.status \in Live => r.status \in Live)
      BY <2>1, <2>2, <2>5
    <2> HIDE DEF r2
    <2> QED
      BY <2>4, <2>6, WriteCounts DEF Counted
  <1>6. ASSUME NEW c \in ChargeAmounts, NEW a \in BuyoutAmounts, GraceBuyout(s, c, a)
        PROVE  Counted(s)
    <2>1. r.status \in Live
      BY <1>6 DEF GraceBuyout, Live
    <2> QED
      BY <1>6, <2>1, WriteCounts DEF GraceBuyout, Counted, book_vars
  <1>7. ASSUME NEW a \in OneOffAmounts, ChargeOneOff(s, a) PROVE Counted(s)
    BY <1>7 DEF ChargeOneOff, Counted, NoRevival, book_vars
  <1>8. CASE RequestEmergencyWithdraw(s)
    <2>1. \A t \in Subs : sub'[t].status = sub[t].status
      BY <1>1, <1>8 DEF RequestEmergencyWithdraw, Subscription
    <2> QED
      BY <1>8, <2>1 DEF RequestEmergencyWithdraw, Counted, NoRevival, book_vars
  <1>9. CASE FinalizeEmergencyWithdraw(s) \/ WithdrawSubscriberFunds(s)
    <2>1. /\ [r EXCEPT !.prepaid = 0, !.intentAt = None].status = r.status
          /\ [r EXCEPT !.prepaid = 0].status = r.status
      BY <1>1 DEF Subscription
    <2> QED
      BY <1>9, <2>1, WriteCounts
      DEF FinalizeEmergencyWithdraw, WithdrawSubscriberFunds, Counted, book_vars
  <1>10. ASSUME NEW a \in RefundAmounts, PartialRefund(s, a) PROVE Counted(s)
    <2>1. [r EXCEPT !.prepaid = @ - a].status = r.status
      BY <1>1 DEF Subscription
    <2> QED
      BY <1>10, <2>1, WriteCounts DEF PartialRefund, Counted, book_vars
  <1> QED
    BY <1>2, <1>3, <1>4, <1>5, <1>6, <1>7, <1>8, <1>9, <1>10, Creations DEF Funding, Payments

\* Pause and cancel leave a live status they decrement for; resume leaves
\* Paused, which it increments for, or a status that was counted already.
LEMMA ControlCounted ==
    ASSUME CountInv, NEW s \in Subs, Control(s)
    PROVE  Counted(s)
  <1> DEFINE r == get_subscription(s)
             To(st) == [r EXCEPT !.status = st]
  <1>1. r \in Subscription /\ sub \in [Subs -> Subscription]
    BY View DEF CountInv, IInv, TypeOK
  <1>2. \A st : To(st).status = st
    BY <1>1 DEF Subscription
  <1>3. \A r2 : write_subscription(s, r2) => sub'[s] = r2 /\ NoRevival(Subs \ {s})
    BY <1>1 DEF write_subscription, NoRevival
  <1>4. r.status \in Live <=> sub[s].status \in Live
    BY ViewKeeps DEF CountInv
  <1>5. ASSUME NEW by \in Users, CancelSubscription(s, by) PROVE Counted(s)
    <2>1. [r EXCEPT !.status = "Cancelled", !.prepaid = 0].status = "Cancelled"
      BY <1>1 DEF Subscription
    <2>2. sub'[s].status = "Cancelled" /\ NoRevival(Subs)
      BY <1>3, <1>5, <2>1, WriteCounts DEF CancelSubscription, Live
    <2> QED
      BY <1>4, <1>5, <2>2 DEF CancelSubscription, Counted, Live
  <1>6. ASSUME NEW by \in Users, ResumeSubscription(s, by) PROVE Counted(s)
    <2>1. write_subscription(s, To("Active")) /\ can_transition(r.status, "Active")
      BY <1>6 DEF ResumeSubscription
    <2>2. CASE r.status = "Paused"
      BY <1>3, <1>6, <2>1, <2>2 DEF ResumeSubscription, Counted
    <2>3. CASE r.status # "Paused"
      <3>1. r.status \in Live
        BY <1>6, <2>1, <2>3 DEF ResumeSubscription, can_transition, get_allowed_transitions, Live
      <3> QED
        BY <1>6, <2>1, <2>3, <3>1, WriteCounts DEF ResumeSubscription, Counted
    <2> QED
      BY <2>2, <2>3
  <1>7. CASE PauseSubscription(s)
    <2>1. /\ write_subscription(s, To("Paused")) /\ decrement_active(s)
          /\ r.status # "Paused" /\ can_transition(r.status, "Paused")
      BY <1>7 DEF PauseSubscription
    <2>2. r.status \in Live
      BY <2>1 DEF can_transition, get_allowed_transitions, Live
    <2>3. sub'[s].status \notin Live /\ NoRevival(Subs)
      BY <1>2, <1>3, <2>1, <2>2, WriteCounts DEF Live
    <2> QED
      BY <1>4, <2>1, <2>2, <2>3 DEF Counted
  <1>8. CASE CleanupSubscription(s)
    <2>1. To("Archived").status \notin Live
      BY <1>2 DEF Live
    <2> QED
      BY <1>8, <2>1, WriteCounts DEF CleanupSubscription, Counted, book_vars
  <1>9. \A t : /\ [r EXCEPT !.cancelAt = t].status = r.status
               /\ [r EXCEPT !.expiresAtLedger = t].status = r.status
               /\ [r EXCEPT !.disabledAt = t].status = r.status
               /\ [r EXCEPT !.cap = t].status = r.status
    BY <1>1 DEF Subscription
  <1>10. ASSUME NEW t \in Times, ScheduleCancel(s, t) \/ SetExpirationLedger(s, t)
         PROVE  Counted(s)
    BY <1>9, <1>10, WriteCounts DEF ScheduleCancel, SetExpirationLedger, Counted, book_vars
  <1>11. CASE UnscheduleCancel(s)
    BY <1>9, <1>11, WriteCounts DEF UnscheduleCancel, Counted, book_vars
  <1>12. ASSUME NEW b \in RenewChoices, SetAutoRenew(s, b) PROVE Counted(s)
    <2>1. \E t : write_subscription(s, [r EXCEPT !.disabledAt = t])
      BY <1>12 DEF SetAutoRenew
    <2> QED
      BY <1>9, <1>12, <2>1, WriteCounts DEF SetAutoRenew, Counted, book_vars
  <1>13. ASSUME NEW cap \in Caps, UpdateSubscriptionCap(s, cap) PROVE Counted(s)
    BY <1>9, <1>13, WriteCounts DEF UpdateSubscriptionCap, Counted, book_vars
  <1> QED
    BY <1>5, <1>6, <1>7, <1>8, <1>10, <1>11, <1>12, <1>13 DEF Control

\* Of the administrator's entrypoints only remove_from_blocklist touches it.
LEMMA AdministrationCounted ==
    ASSUME CountInv, Administration
    PROVE  ActiveCountCovers'
  <1>1. ASSUME sub' = sub, UNCHANGED activeCount PROVE ActiveCountCovers'
    BY <1>1, NoRevivalCounts DEF NoRevival
  <1>2. ASSUME NEW x \in Accounts, NEW a, WithdrawMerchantFunds(x, a) \/ MerchantRefund(x, a)
        PROVE  ActiveCountCovers'
    BY <1>1, <1>2 DEF WithdrawMerchantFunds, MerchantRefund, book_vars
  <1>3. ASSUME NEW a, RecoverStrandedFunds(a) PROVE ActiveCountCovers'
    BY <1>1, <1>3 DEF RecoverStrandedFunds, book_vars
  <1>4. CASE EnableEmergencyStop \/ DisableEmergencyStop \/ Tick
    BY <1>1, <1>4 DEF EnableEmergencyStop, DisableEmergencyStop, Tick, book_vars
  <1>5. ASSUME NEW x \in Blockable, AddToBlocklist(x) PROVE ActiveCountCovers'
    BY <1>1, <1>5 DEF AddToBlocklist, book_vars
  <1>6. ASSUME NEW m, NEW b \in BOOLEAN,
               PauseMerchant(m) \/ UnpauseMerchant(m) \/ UpdateMerchantConfig(m, b)
        PROVE  ActiveCountCovers'
    BY <1>1, <1>6 DEF PauseMerchant, UnpauseMerchant, UpdateMerchantConfig, book_vars
  <1> QED
    BY <1>2, <1>3, <1>4, <1>5, <1>6, UnblockCounts DEF Administration

\* The counter behind the active-subscription cap never under-counts, for any
\* number of subscribers and subscriptions: the handlers that skip it
\* (auto-pause, expiry, archival) only take subscriptions out of the set, the
\* unconditional decrement of a pause always leaves a counted status, and
\* remove_from_blocklist adds as many as it resumes.
THEOREM CounterCorrect == Spec => []ActiveCountCovers
  <1>1. Init => ActiveCountCovers
    <2> SUFFICES ASSUME Init, NEW u \in Subscribers
                 PROVE  activeCount[u] >= Cardinality(LiveOf(u))
      BY DEF ActiveCountCovers, LiveOf
    <2>1. LiveOf(u) = {}
      BY DEF Init, Absent, LiveOf, Live
    <2> QED
      BY <2>1, FS_EmptySet DEF Init
  <1>2. IInv /\ ActiveCountCovers /\ [Next]_vars => ActiveCountCovers'
    <2> SUFFICES ASSUME CountInv, [Next]_vars PROVE ActiveCountCovers'
      BY DEF CountInv
    <2>1. CASE UNCHANGED vars
      BY <2>1, NoRevivalCounts DEF vars, NoRevival
    <2>2. CASE Next
      BY <2>2, AdministrationCounted, BillingCounted, FundingCounted, ControlCounted,
         CountedCovers DEF Next
    <2> QED
      BY <2>1, <2>2
  <1> QED
    BY <1>1, <1>2, Inductive, PTL DEF Spec

-----------------------------------------------------------------------------
(* Liveness, as far as it does not take ENABLED.                           *)

\* A stored Active status is the one charge_one reads.
LEMMA ActiveSeen ==
    ASSUME IInv, NEW s \in Subs, ActiveDue(s)
    PROVE  get_subscription(s) \in Subscription /\ get_subscription(s).status = "Active"
  BY View DEF ActiveDue, EffectiveStatus

\* A record written with another status is not due as an Active one.
LEMMA LeavesActive ==
    ASSUME IInv, NEW s \in Subs, NEW r, write_subscription(s, r), r.status # "Active"
    PROVE  ~ActiveDue(s)'
  <1>1. sub'[s] = r
    BY DEF IInv, TypeOK, write_subscription
  <1> QED
    BY <1>1 DEF ActiveDue

\* Collecting moves last_payment_timestamp to the present.
LEMMA CollectSettles ==
    ASSUME IInv, IInv', NEW s \in Subs, ActiveDue(s), NEW a \in ChargeAmounts, ChargeCollect(s, a)
    PROVE  ~ActiveDue(s)'
  <1> DEFINE r == get_subscription(s)
             r2 == Collected(r, a)
  <1>1. r \in Subscription /\ sub' = [sub EXCEPT ![s] = r2] /\ now' = now
    BY View DEF ChargeCollect, write_subscription
  <1>2. sub \in [Subs -> Subscription] /\ now \in Nat /\ Interval \in Nat \ {0}
    BY ConfigAssumption, InputAssumption DEF IInv, TypeOK
  <1>3. sub'[s] = r2 /\ r2 \in Subscription
    BY <1>1, <1>2 DEF IInv, TypeOK
  <1>4. r2.last = now
    BY <1>1 DEF Collected, Subscription
  <1>5. next_charge_time(get_subscription(s))' = now + Interval
    <2>1. get_subscription(s)' = [r2 EXCEPT !.status = EffectiveStatus(sub[s])']
      BY <1>3 DEF get_subscription
    <2>2. get_subscription(s)'.last = now
      BY <1>3, <1>4, <2>1 DEF Subscription
    <2> QED
      BY <2>2 DEF next_charge_time
  <1>6. ~(now' >= next_charge_time(get_subscription(s))')
    BY <1>1, <1>2, <1>5
  <1> QED
    BY <1>6 DEF ActiveDue, ChargeDue

\* A charge of a due Active subscription that is not funded takes it out of Active.
LEMMA UnderfundedSettles ==
    ASSUME IInv, NEW s \in Subs, ActiveDue(s), NEW a \in ChargeAmounts, ChargeUnderfunded(s, a)
    PROVE  ~ActiveDue(s)'
  <1> DEFINE r == get_subscription(s)
             u == Underfunded(r)
  <1>1. r \in Subscription /\ r.status = "Active"
    BY ActiveSeen
  <1>2. u.status \in {"GracePeriod", "InsufficientBalance"}
    BY <1>1 DEF Underfunded, Subscription
  <1>3. CountFailure(u).status # "Active"
    BY <1>1, <1>2 DEF CountFailure, Underfunded, Subscription
  <1> QED
    BY <1>3, LeavesActive DEF ChargeUnderfunded

\* Whatever a charge of a due Active subscription comes to, it is settled.
LEMMA BillingSettles ==
    ASSUME IInv, IInv', NEW s \in Subs, ActiveDue(s), Billing(s)
    PROVE  ~ActiveDue(s)'
  <1> DEFINE r == get_subscription(s)
  <1>1. /\ r \in Subscription /\ ~is_expired(r) /\ ~lifetime_cap_reached(r) /\ ~CancelDue(r)
    BY ActiveSeen DEF ActiveDue, ChargeDue
  <1>2. ~ChargeExpire(s) /\ ~ChargeAtCap(s) /\ ~ChargeScheduledCancellation(s)
    BY <1>1 DEF ChargeExpire, ChargeAtCap, ChargeScheduledCancellation
  <1>3. ASSUME NEW a \in ChargeAmounts, ChargeOverCap(s, a) PROVE ~ActiveDue(s)'
    <2>1. [r EXCEPT !.status = "Cancelled"].status = "Cancelled"
      BY <1>1 DEF Subscription
    <2> QED
      BY <1>3, <2>1, LeavesActive DEF ChargeOverCap
  <1> QED
    BY <1>2, <1>3, UnderfundedSettles, CollectSettles DEF Billing, Dunning

\* Under a billing engine that keeps charging, no due Active subscription stays
\* so: for any number of subscriptions, intervals and grace periods, as long as
\* charges do not overflow a balance.
THEOREM DueSettlement == FairSpec /\ []AllChargeable => ActiveDueSettled
  <1>1. ASSUME NEW s \in Subs
        PROVE  FairSpec /\ []AllChargeable => DueSettled(s)
    <2>1. IInv /\ IInv' /\ ActiveDue(s) /\ <<Billing(s)>>_vars => ~ActiveDue(s)'
      BY BillingSettles
    <2>2. AllChargeable => Chargeable(s)
      BY DEF AllChargeable
    <2>3. EngineRuns => Billed(s)
      BY DEF EngineRuns
    <2>4. FairSpec => []IInv
      BY Inductive, PTL DEF FairSpec
    <2> QED
      BY <2>1, <2>2, <2>3, <2>4, PTL DEF Chargeable, Billed, DueSettled, FairSpec
  <1> QED
    BY <1>1 DEF ActiveDueSettled
=============================================================================
