------------------------------- MODULE Plans -------------------------------
(***************************************************************************)
(* Plan templates and admission: the catalogue of versioned plans, the     *)
(* subscriptions created from and migrated between its versions, and the   *)
(* limits a new subscription or a deposit has to pass (creation rate,      *)
(* merchant and subscriber limits, credit limit, plan concurrency).        *)
(*                                                                         *)
(* Vault fixes amount and interval; here they are the plan's and change    *)
(* with it. Checks that only refuse and are made elsewhere (emergency      *)
(* stop, blocklist, merchant pause, expiry, accepted tokens) are left out, *)
(* and there is one settlement token. A subscriber is never the admin, who *)
(* is exempt from the creation rate.                                       *)
(***************************************************************************)
EXTENDS Integers, Sequences, FiniteSets, Functions, StateMachine

CONSTANTS
    Subs, Subscribers, Merchants,
    Day,               \* SECONDS_IN_DAY, the length of a creation window
    CreateCap,         \* DEFAULT_CREATE_CAP (see Storage for the admin's setting)
    DefaultActiveCap,  \* DEFAULT_SUBSCRIBER_ACTIVE_CAP
    MaxScan            \* MAX_WRITE_PATH_SCAN_DEPTH

\* Inputs and bounds.
CONSTANTS
    MaxTime,           \* the clock stops here
    MaxPlans,          \* plans in the catalogue
    MaxPrepaid,        \* what a subscriber puts into one subscription
    Offers,            \* terms merchants publish in plans
    DirectTerms,       \* terms of subscriptions without a plan
    CreditLimits, ConcurrencyLimits, ActiveCaps, MerchantLimits,
    CapChoices,        \* default caps and caps set by the administrator; None clears them
    DepositAmounts

\* Option::None of caps, periods and plan links; u32::MAX of merchant limits.
None == -1
Unlimited == 1000000

Offer == [amount : Nat \ {0}, interval : Nat \ {0}, cap : Nat \cup {None}, trial : Nat]

ASSUME PlansAssumption ==
    /\ IsFiniteSet(Subs) /\ "none" \notin Subscribers \cup Merchants
    /\ Day \in Nat \ {0} /\ CreateCap \in Nat \ {0} /\ DefaultActiveCap \in Nat
    /\ MaxScan \in Nat /\ MaxTime \in Nat /\ MaxPlans \in Nat /\ MaxPrepaid \in Nat
    /\ Offers \cup DirectTerms \subseteq Offer /\ \A o \in Offers \cup DirectTerms : o.cap # 0
    /\ CreditLimits \subseteq Nat /\ ConcurrencyLimits \subseteq Nat
    /\ ActiveCaps \subseteq Nat /\ MerchantLimits \subseteq Nat
    /\ CapChoices \subseteq (Nat \ {0}) \cup {None} /\ DepositAmounts \subseteq Nat \ {0}

VARIABLES
    now,          \* ledger timestamp
    plan,         \* DataKey::Plan and PlanMaxActive, by plan id
    sub,          \* DataKey::Sub with SubPlan and ChargedPeriod of the same id
    indexed,      \* ids in the DataKey::MerchantSubs lists
    activeCount,  \* DataKey::SubscriberActiveCount
    activeCap,    \* DataKey::SubscriberActiveCapOverride, or the default
    credit,       \* DataKey::CreditLimit; zero for none
    maxSubs,      \* DataKey::MerchantMaxSubs
    capDefault,   \* the merchants' default caps, and the global one
    window        \* DataKey::SubscriberCreateWindow

config_vars == <<activeCap, credit, maxSubs, capDefault>>
vars == <<now, plan, sub, indexed, activeCount, config_vars, window>>

Subscription ==
    [owner : Subscribers \cup {"none"}, merchant : Merchants \cup {"none"},
     status : Status \cup {"Absent"}, amount : Nat, interval : Nat, start : Nat,
     last : Nat, period : Nat \cup {None}, prepaid : Nat, cap : Nat \cup {None},
     charged : Nat, plan : Nat]

Absent == [owner |-> "none", merchant |-> "none", status |-> "Absent", amount |-> 0,
           interval |-> 1, start |-> 0, last |-> 0, period |-> None, prepaid |-> 0,
           cap |-> None, charged |-> 0, plan |-> 0]

Exists(s) == sub[s].status # "Absent"
Existing == {s \in Subs : Exists(s)}
OwnedBy(u) == {s \in Subs : sub[s].owner = u}

-----------------------------------------------------------------------------
(* Admission.                                                              *)

\* Mutant: the window starts anew with every creation.
create_window_restarted(u) == [start |-> now, count |-> 1]

\* The window after one more creation: a new one when the old has run out.
create_window(u) ==
    IF window[u].count = 0 \/ now >= window[u].start + Day
      THEN [start |-> now, count |-> 1]
      ELSE [window[u] EXCEPT !.count = @ + 1]

enforce_creation_rate_limit(u) == create_window(u).count <= CreateCap

\* MerchantSubs loses the ids that are cancelled by a call, and keeps the ids
\* that a charge cancels.
get_merchant_subscription_count(m) == Cardinality({s \in indexed : sub[s].merchant = m})

\* Prepaid money, and the next amount of the Active ones.
compute_subscriber_exposure(u) ==
    SumFunctionOnSet(
        [s \in Subs |-> sub[s].prepaid + (IF sub[s].status = "Active" THEN sub[s].amount ELSE 0)],
        OwnedBy(u))

\* Mutant: the present exposure is compared, without what is being added.
enforce_credit_limit_before(u, added) ==
    credit[u] # 0 =>
        Cardinality(Existing) <= MaxScan /\ compute_subscriber_exposure(u) <= credit[u]

\* The exposure is a scan over all ids ever issued, refused beyond MaxScan.
enforce_credit_limit_for_delta(u, added) ==
    credit[u] # 0 =>
        Cardinality(Existing) <= MaxScan /\ compute_subscriber_exposure(u) + added <= credit[u]

count_active_subscriptions_for_plan(u, p) ==
    Cardinality({s \in OwnedBy(u) : sub[s].plan = p /\ sub[s].status = "Active"})

enforce_plan_concurrency_limit(u, p) ==
    plan[p].maxActive # 0 =>
        /\ Cardinality(Existing) <= MaxScan
        /\ count_active_subscriptions_for_plan(u, p) < plan[p].maxActive

\* Explicit cap, else the merchant's default, else the global one.
resolve_cap(m, cap) ==
    IF cap # None THEN cap
    ELSE IF capDefault[m] # None THEN capDefault[m] ELSE capDefault["global"]

Admitted(u, m, amount) ==
    /\ enforce_creation_rate_limit(u)
    /\ get_merchant_subscription_count(m) < maxSubs[m]
    /\ activeCount[u] < activeCap[u]
    /\ enforce_credit_limit_for_delta(u, amount)

\* The records and indexes of a new subscription.
Enter(s, u, m, o, cap, p) ==
    /\ sub' = [sub EXCEPT ![s] = [Absent EXCEPT
                 !.owner = u, !.merchant = m, !.status = "Active", !.amount = o.amount,
                 !.interval = o.interval, !.start = now, !.last = now + o.trial,
                 !.cap = cap, !.plan = p]]
    /\ indexed' = indexed \cup {s}
    /\ activeCount' = [activeCount EXCEPT ![u] = @ + 1]
    /\ window' = [window EXCEPT ![u] = create_window(u)]
    /\ UNCHANGED <<now, plan, config_vars>>

\* Without a plan the resolved cap must cover the first charge.
CreateSubscription(s, u, m, o) ==
    LET cap == resolve_cap(m, o.cap) IN
    /\ ~Exists(s) /\ Admitted(u, m, o.amount)
    /\ cap # None => cap >= o.amount
    /\ Enter(s, u, m, [o EXCEPT !.trial = 0], cap, 0)

\* A subscription from a plan starts with the plan's trial, if it has one.
CreateSubscriptionFromPlan(s, u, p) ==
    LET t == plan[p] IN
    /\ ~Exists(s) /\ ~t.disabled
    /\ Admitted(u, t.merchant, t.amount)
    /\ enforce_plan_concurrency_limit(u, p)
    /\ Enter(s, u, t.merchant, t, resolve_cap(t.merchant, t.cap), p)

-----------------------------------------------------------------------------
(* The catalogue.                                                          *)

next_plan_id == Len(plan) + 1

PlanTemplate(m, o, key, version) ==
    [merchant |-> m, amount |-> o.amount, interval |-> o.interval, cap |-> o.cap,
     trial |-> o.trial, key |-> key, version |-> version, disabled |-> FALSE,
     maxActive |-> 0]

\* A template of a merchant, without trial.
CreatePlanTemplate(m, o) ==
    /\ next_plan_id <= MaxPlans
    /\ plan' = Append(plan, PlanTemplate(m, [o EXCEPT !.trial = 0], next_plan_id, 1))
    /\ UNCHANGED <<now, sub, indexed, activeCount, config_vars, window>>

RegisterPlan(m, o) ==
    /\ next_plan_id <= MaxPlans
    /\ plan' = Append(plan, PlanTemplate(m, o, next_plan_id, 1))
    /\ UNCHANGED <<now, sub, indexed, activeCount, config_vars, window>>

\* Mutant: the new terms are written over the old version.
UpdatePlanInPlace(m, p, o) ==
    /\ plan[p].merchant = m
    /\ plan' = [plan EXCEPT ![p].amount = o.amount, ![p].interval = o.interval,
                            ![p].version = @ + 1]
    /\ next_plan_id <= MaxPlans
    /\ UNCHANGED <<now, sub, indexed, activeCount, config_vars, window>>

\* A new version is a new plan, enabled even when the old one is deprecated. Its
\* number counts from the version it updates: two updates of one version share it.
UpdatePlanTemplate(m, p, o) ==
    /\ next_plan_id <= MaxPlans
    /\ plan[p].merchant = m
    /\ plan' = Append(plan, PlanTemplate(m, [o EXCEPT !.trial = plan[p].trial],
                                         plan[p].key, plan[p].version + 1))
    /\ UNCHANGED <<now, sub, indexed, activeCount, config_vars, window>>

DeprecatePlan(m, p) ==
    /\ plan[p].merchant = m
    /\ plan' = [plan EXCEPT ![p].disabled = TRUE]
    /\ UNCHANGED <<now, sub, indexed, activeCount, config_vars, window>>

SetPlanMaxActiveSubs(m, p, n) ==
    /\ plan[p].merchant = m
    /\ plan' = [plan EXCEPT ![p].maxActive = n]
    /\ UNCHANGED <<now, sub, indexed, activeCount, config_vars, window>>

\* Mutant: the new plan's cap is taken whatever has been charged.
MigrateOverCap(s, p) ==
    LET r == sub[s] IN
    /\ Exists(s) /\ r.plan # 0
    /\ plan[p].key = plan[r.plan].key /\ plan[p].version > plan[r.plan].version
    /\ sub' = [sub EXCEPT ![s] = [r EXCEPT !.cap = plan[p].cap, !.amount = plan[p].amount,
                                           !.interval = plan[p].interval, !.plan = p]]
    /\ UNCHANGED <<now, plan, indexed, activeCount, config_vars, window>>

\* Mutant: the billing calendar starts anew with the new plan.
MigrateReanchored(s, p) ==
    LET r == sub[s] IN
    /\ Exists(s) /\ r.plan # 0
    /\ plan[p].key = plan[r.plan].key /\ plan[p].version > plan[r.plan].version
    /\ plan[p].cap # None => r.charged <= plan[p].cap
    /\ sub' = [sub EXCEPT ![s] = [r EXCEPT !.cap = plan[p].cap, !.amount = plan[p].amount,
                                           !.interval = plan[p].interval, !.plan = p,
                                           !.start = now]]
    /\ UNCHANGED <<now, plan, indexed, activeCount, config_vars, window>>

\* To a later version of the same family, in any status: amount, interval and
\* cap are the new plan's. The credit limit, the concurrency limit and whether
\* the plan is deprecated are not looked at; ChargedPeriod keeps its value.
MigrateSubscriptionToPlan(s, p) ==
    LET r == sub[s] IN
    /\ Exists(s) /\ r.plan # 0
    /\ plan[p].key = plan[r.plan].key /\ plan[p].version > plan[r.plan].version
    /\ plan[p].cap # None => r.charged <= plan[p].cap
    /\ sub' = [sub EXCEPT ![s] = [r EXCEPT !.cap = plan[p].cap, !.amount = plan[p].amount,
                                           !.interval = plan[p].interval, !.plan = p]]
    /\ UNCHANGED <<now, plan, indexed, activeCount, config_vars, window>>

-----------------------------------------------------------------------------
(* Limits. A limit below what is there already blocks later increases only. *)

SetSubscriberCreditLimit(u, n) ==
    /\ credit' = [credit EXCEPT ![u] = n]
    /\ UNCHANGED <<now, plan, sub, indexed, activeCount, activeCap, maxSubs, capDefault, window>>

SetSubscriberActiveCap(u, n) ==
    /\ activeCap' = [activeCap EXCEPT ![u] = n]
    /\ UNCHANGED <<now, plan, sub, indexed, activeCount, credit, maxSubs, capDefault, window>>

SetMerchantMaxSubs(m, n) ==
    /\ maxSubs' = [maxSubs EXCEPT ![m] = n]
    /\ UNCHANGED <<now, plan, sub, indexed, activeCount, activeCap, credit, capDefault, window>>

SetMerchantCapDefault(m, cap) ==
    /\ capDefault' = [capDefault EXCEPT ![m] = cap]
    /\ UNCHANGED <<now, plan, sub, indexed, activeCount, activeCap, credit, maxSubs, window>>

SetGlobalCapDefault(cap) ==
    /\ capDefault' = [capDefault EXCEPT !["global"] = cap]
    /\ UNCHANGED <<now, plan, sub, indexed, activeCount, activeCap, credit, maxSubs, window>>

-----------------------------------------------------------------------------
(* The life of a subscription, as far as it moves exposure and charges.     *)
(* The configured grace period is zero and auto-pause is off, so that an    *)
(* underfunded charge leads to InsufficientBalance (see Vault for both).    *)

lifetime_cap_reached(r) == r.cap # None /\ r.charged >= r.cap
period_index(r) == (now - r.start) \div r.interval
next_charge_time(r) == r.last + r.interval

\* Prepaid money must stay chargeable under the cap.
enforce_deposit_cap(r, a) == r.cap # None =>
    a <= (IF r.charged > r.cap THEN 0 ELSE r.cap - r.charged) - r.prepaid

write_subscription(s, r) ==
    /\ sub' = [sub EXCEPT ![s] = r]
    /\ UNCHANGED <<now, plan, config_vars, window>>

\* By the subscriber (not into a cancelled one), by the operator in bulk, or by a
\* delegated payer, whose deposit resumes an underfunded subscription. What the
\* resumption adds to the exposure is not part of the credit check.
DepositFunds(s, a, by) ==
    LET r == sub[s]
        recovers == by = "payer" /\ r.status = "InsufficientBalance" /\ r.prepaid + a >= r.amount
    IN
    /\ Exists(s) /\ r.prepaid + a <= MaxPrepaid
    /\ by = "subscriber" => r.status # "Cancelled"
    /\ enforce_credit_limit_for_delta(r.owner, a) /\ enforce_deposit_cap(r, a)
    /\ write_subscription(s, [r EXCEPT !.prepaid = @ + a,
                                !.status = IF recovers THEN "Active" ELSE @])
    /\ UNCHANGED <<indexed, activeCount>>

ChargeDue(s) ==
    /\ sub[s].status \in {"Active", "InsufficientBalance"}
    /\ ~lifetime_cap_reached(sub[s])
    /\ period_index(sub[s]) > sub[s].period
    /\ now >= next_charge_time(sub[s])

\* At the cap, or about to pass it: cancelled as it stands, indexes included.
ChargeOverCap(s) ==
    LET r == sub[s] IN
    /\ Exists(s) /\ r.status # "Cancelled"
    /\ \/ lifetime_cap_reached(r)
       \/ ChargeDue(s) /\ r.cap # None /\ r.charged + r.amount > r.cap
    /\ write_subscription(s, [r EXCEPT !.status = "Cancelled"])
    /\ UNCHANGED <<indexed, activeCount>>

ChargeSubscription(s) ==
    LET r == sub[s]
        paid == [r EXCEPT !.prepaid = @ - r.amount, !.charged = @ + r.amount, !.last = now,
                          !.period = period_index(r)]
    IN
    /\ ChargeDue(s) /\ (r.cap # None => r.charged + r.amount <= r.cap)
    /\ \/ /\ r.prepaid < r.amount
          /\ write_subscription(s, [r EXCEPT !.status = "InsufficientBalance"])
       \/ /\ r.prepaid >= r.amount
          /\ write_subscription(s, [paid EXCEPT !.status =
                          IF lifetime_cap_reached(paid) THEN "Cancelled" ELSE "Active"])
    /\ UNCHANGED <<indexed, activeCount>>

PauseSubscription(s) ==
    /\ Exists(s) /\ sub[s].status # "Paused" /\ can_transition(sub[s].status, "Paused")
    /\ write_subscription(s, [sub[s] EXCEPT !.status = "Paused"])
    /\ activeCount' = [activeCount EXCEPT ![sub[s].owner] = IF @ = 0 THEN 0 ELSE @ - 1]
    /\ UNCHANGED indexed

\* Neither the credit limit nor a concurrency limit is looked at.
ResumeSubscription(s) ==
    LET r == sub[s] IN
    /\ Exists(s) /\ r.status # "Active" /\ can_transition(r.status, "Active")
    /\ r.status = "InsufficientBalance" => r.prepaid >= r.amount
    /\ write_subscription(s, [r EXCEPT !.status = "Active"])
    /\ activeCount' = [activeCount EXCEPT ![r.owner] = IF r.status = "Paused" THEN @ + 1 ELSE @]
    /\ UNCHANGED indexed

CancelSubscription(s) ==
    LET r == sub[s] IN
    /\ Exists(s) /\ r.status # "Cancelled"
    /\ write_subscription(s, [r EXCEPT !.status = "Cancelled", !.prepaid = 0])
    /\ activeCount' = [activeCount EXCEPT ![r.owner] =
                          IF r.status = "Active" /\ @ > 0 THEN @ - 1 ELSE @]
    /\ indexed' = indexed \ {s}

UpdateSubscriptionCap(s, cap) ==
    /\ Exists(s) /\ (cap # None => cap >= sub[s].charged)
    /\ write_subscription(s, [sub[s] EXCEPT !.cap = cap])
    /\ UNCHANGED <<indexed, activeCount>>

Tick ==
    /\ now < MaxTime /\ now' = now + 1
    /\ UNCHANGED <<plan, sub, indexed, activeCount, config_vars, window>>

-----------------------------------------------------------------------------
Init ==
    /\ now = 0 /\ plan = <<>> /\ indexed = {}
    /\ sub = [s \in Subs |-> Absent]
    /\ activeCount = [u \in Subscribers |-> 0]
    /\ activeCap = [u \in Subscribers |-> DefaultActiveCap]
    /\ credit = [u \in Subscribers |-> 0]
    /\ maxSubs = [m \in Merchants |-> Unlimited]
    /\ capDefault = [m \in Merchants \cup {"global"} |-> None]
    /\ window = [u \in Subscribers |-> [start |-> 0, count |-> 0]]

Catalogue(m) ==
    \/ \E o \in Offers : CreatePlanTemplate(m, o) \/ RegisterPlan(m, o)
    \/ \E p \in DOMAIN plan :
          \/ \E o \in Offers : UpdatePlanTemplate(m, p, o)
          \/ DeprecatePlan(m, p)
          \/ \E n \in ConcurrencyLimits : SetPlanMaxActiveSubs(m, p, n)

Limits ==
    \/ \E u \in Subscribers, n \in CreditLimits : SetSubscriberCreditLimit(u, n)
    \/ \E u \in Subscribers, n \in ActiveCaps : SetSubscriberActiveCap(u, n)
    \/ \E m \in Merchants, n \in MerchantLimits : SetMerchantMaxSubs(m, n)
    \/ \E cap \in CapChoices : \/ SetGlobalCapDefault(cap)
                                \/ \E m \in Merchants : SetMerchantCapDefault(m, cap)

Subscribing(s) ==
    \/ \E u \in Subscribers :
          \/ \E m \in Merchants, o \in DirectTerms : CreateSubscription(s, u, m, o)
          \/ \E p \in DOMAIN plan : CreateSubscriptionFromPlan(s, u, p)
    \/ \E p \in DOMAIN plan : MigrateSubscriptionToPlan(s, p)

Running(s) ==
    \/ \E a \in DepositAmounts, by \in {"subscriber", "operator", "payer"} : DepositFunds(s, a, by)
    \/ ChargeSubscription(s) \/ ChargeOverCap(s)
    \/ PauseSubscription(s) \/ ResumeSubscription(s) \/ CancelSubscription(s)
    \/ \E cap \in CapChoices : UpdateSubscriptionCap(s, cap)

Next ==
    \/ Tick \/ Limits
    \/ \E m \in Merchants : Catalogue(m)
    \/ \E s \in Subs : Subscribing(s) \/ Running(s)

Spec == Init /\ [][Next]_vars

-----------------------------------------------------------------------------
(* Properties.                                                             *)

\* A subscription of a plan is billed on the terms of the version it is linked
\* to: publishing, deprecating and limiting plans never reaches into running
\* subscriptions, and a migration takes all terms or none (plan_versioning.md).
TermsFollowPlan ==
    \A s \in Subs : sub[s].plan # 0 =>
        LET t == plan[sub[s].plan] IN
        sub[s].amount = t.amount /\ sub[s].interval = t.interval /\ sub[s].merchant = t.merchant

\* The lifetime cap bounds the charges although it comes from three defaults,
\* is changed by the administrator and is replaced or dropped by migrations.
CapNeverExceeded ==
    \A s \in Subs : sub[s].cap # None => sub[s].charged <= sub[s].cap

\* credit_limits.md: no accepted operation takes the exposure of a subscriber
\* above its limit, with two exceptions in the code: what makes a subscription
\* Active again (a resumption, or a payer's deposit), and a migration.
ExposureGuarded ==
    [][\A u \in Subscribers :
          LET before == compute_subscriber_exposure(u)
              after == compute_subscriber_exposure(u)'
          IN  credit[u] # 0 /\ credit'[u] = credit[u] /\ after > before /\ after > credit[u] =>
                 \E s \in OwnedBy(u) : \/ sub[s].status # "Active" /\ sub'[s].status = "Active"
                                       \/ sub'[s].plan # sub[s].plan]_vars

\* The creation window is fixed, not sliding: in any stretch of a day a
\* subscriber creates fewer than twice the cap, directly or from plans.
CreationRate ==
    \A u \in Subscribers, t \in 0..MaxTime :
        Cardinality({s \in OwnedBy(u) : sub[s].start \in t..(t + Day - 1)}) < 2 * CreateCap

\* charge_core.rs: a charge is refused as a replay when the subscription is
\* "already charged for this billing period", which ChargedPeriod numbers.
Refused(s) ==
    Exists(s) /\ now >= next_charge_time(sub[s]) /\ period_index(sub[s]) <= sub[s].period

\* ChargedPeriod numbers a period that begins no later than the last payment.
PeriodCurrent(r) ==
    r.period # None => r.start <= r.last /\ r.period <= (r.last - r.start) \div r.interval

\* A subscription that is due is not shut out as a replay, whatever was deposited,
\* paused, resumed, charged late and migrated in between. One call can bring that
\* about: a migration to a plan with a longer interval, which keeps ChargedPeriod.
ReplaysExplained ==
    [][\A s \in Subs : PeriodCurrent(sub[s]) =>
          /\ ~Refused(s)
          /\ ~PeriodCurrent(sub'[s]) => /\ sub'[s].plan # sub[s].plan
                                        /\ sub'[s].interval > sub[s].interval]_vars

\* Also where plans are changed underneath them, and deposits, charges and caps move
\* their status, the status of subscriptions follows the promise of module Lifecycle.
Observed == INSTANCE Lifecycle WITH status <- [s \in Subs |-> sub[s].status]
StatusRefined == Observed!Spec
=============================================================================
