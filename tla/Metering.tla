------------------------------ MODULE Metering ------------------------------
(***************************************************************************)
(* Metered usage, on top of Vault: the limits a merchant configures per    *)
(* subscription (burst interval, calls per window, units per billing       *)
(* period), the state they are enforced with, the references that make a   *)
(* retried call harmless, and the billing-period snapshots that usage and  *)
(* interval charges add to. Every step is a step of Vault or leaves        *)
(* Vault's state alone.                                                    *)
(***************************************************************************)
EXTENDS Vault, Sequences, Functions

CONSTANTS
    References,    \* references of usage calls
    LimitChoices   \* limits a merchant may configure, without the merchant

\* UsageLimits without its merchant: None disables calls or cap, zero the burst.
Limit == [maxCalls : OptTime, window : Nat, burst : Nat, cap : OptTime]

ASSUME MeteringAssumption == LimitChoices \subseteq Limit

VARIABLES
    limits,    \* UsageLimits, or NoLimits
    usage,     \* UsageState, or NoUsage
    refs,      \* references that have been charged
    snapshot,  \* BillingPeriodSnapshot of every period: amounts and usage units
    capped,    \* history: units charged under a cap, and the period they fell in
    calls,     \* history: times of the charges under limits, since these were last set
    inherited  \* history: created from a plan, their limits not set since

meter_vars == <<limits, usage, refs, snapshot, capped, calls, inherited>>
metered_vars == <<vars, meter_vars>>

Periods == 0..MaxTime
UsageLimits == [merchant : Merchants \cup {None}, limit : Limit]
UsageState == [last : Nat, windowStart : Nat, count : Nat, units : Nat, period : OptTime]

\* The keys before they are first written.
NoLimits == [merchant |-> None,
             limit |-> [maxCalls |-> None, window |-> 0, burst |-> 0, cap |-> None]]
NoUsage == [last |-> 0, windowStart |-> 0, count |-> 0, units |-> 0, period |-> None]

-----------------------------------------------------------------------------
(* Limits.                                                                 *)

\* Mutant: whoever configured the id first, the subscription is created.
CreateUnderAnyLimits(s, cap, expiry) ==
    /\ limits[s].merchant # None
    /\ CreateSubscription(s, cap, expiry)
    /\ UNCHANGED meter_vars

\* Created directly, a subscription with usage needs limits its merchant has
\* configured for the id it is about to get.
CreateMetered(s, cap, expiry) ==
    /\ limits[s].merchant = MerchantOf[s]
    /\ CreateSubscription(s, cap, expiry)
    /\ UNCHANGED meter_vars

\* From a plan, it takes whatever is configured for its id, or nothing.
CreateMeteredFromPlan(s, cap, trial) ==
    /\ CreateSubscriptionFromPlan(s, cap, trial)
    /\ inherited' = inherited \cup {s}
    /\ UNCHANGED <<limits, usage, refs, snapshot, capped, calls>>

\* Until the id is taken any merchant may configure it, and overwrite what
\* another has configured; the state of the limits is kept.
ConfigureUsageLimits(s, m, l) ==
    /\ Exists(s) => m = MerchantOf[s]
    /\ l.cap # 0
    /\ limits' = [limits EXCEPT ![s] = [merchant |-> m, limit |-> l]]
    /\ calls' = [calls EXCEPT ![s] = <<>>]
    /\ inherited' = inherited \ {s}
    /\ UNCHANGED <<vars, usage, refs, snapshot, capped>>

-----------------------------------------------------------------------------
(* charge_usage_one: reference and limits, then the charge of Vault.       *)

\* The state the first call under limits starts from.
UsageStateOf(s) ==
    IF usage[s].period # None THEN usage[s]
    ELSE [NoUsage EXCEPT !.windowStart = now, !.period = period_index(sub[s])]

BurstAllows(s) ==
    LET l == limits[s].limit IN l.burst > 0 => now - UsageStateOf(s).last >= l.burst

\* A window starts with the first call after the previous one has run out.
RollWindow(l, st) ==
    IF l.maxCalls # None /\ now >= st.windowStart + l.window
      THEN [st EXCEPT !.windowStart = now, !.count = 0] ELSE st

\* Mutant: the units are reset without recording the period they belong to.
RollPeriodKeepingIndex(l, st, p) ==
    IF l.cap # None /\ p > st.period THEN [st EXCEPT !.units = 0] ELSE st

\* The period rolls only while a cap is configured.
RollPeriod(l, st, p) ==
    IF l.cap # None /\ p > st.period
      THEN [st EXCEPT !.period = p, !.units = 0] ELSE st

Rolled(s) ==
    LET l == limits[s].limit
    IN  RollPeriod(l, RollWindow(l, UsageStateOf(s)), period_index(sub[s]))

RateAllows(s) == limits[s].limit.maxCalls # None => Rolled(s).count < limits[s].limit.maxCalls
CapAllows(s, a) == limits[s].limit.cap # None => Rolled(s).units + a <= limits[s].limit.cap

\* Mutant: the call is not counted in its window.
RecordUncounted(st, a) == [st EXCEPT !.last = now, !.units = @ + a]

RecordUsage(st, a) == [st EXCEPT !.last = now, !.count = @ + 1, !.units = @ + a]

\* Mutant: a later charge of the period replaces what the snapshot holds.
overwrite_period_snapshot(s, p, total, units) ==
    snapshot' = [snapshot EXCEPT ![s][p] = [total |-> total, units |-> units]]

\* A snapshot of an open period adds up its charges. Whether the period is
\* closed is Vault's closedPeriod: periods are closed in order.
write_period_snapshot(s, p, total, units) ==
    snapshot' = [snapshot EXCEPT ![s][p] = [total |-> @.total + total,
                                            units |-> @.units + units]]

\* Refused by the cap: the rolled period (and window) is stored all the same.
\* Refusals by burst, rate or reference store nothing.
RefuseOverPeriodCap(s, a, ref) ==
    /\ UsageAllowed(s, a) /\ ref \notin refs[s]
    /\ BurstAllows(s) /\ RateAllows(s) /\ ~CapAllows(s, a)
    /\ period_index(sub[s]) > UsageStateOf(s).period
    /\ usage' = [usage EXCEPT ![s] = Rolled(s)]
    /\ UNCHANGED <<vars, limits, refs, snapshot, capped, calls, inherited>>

\* History of the charges made under a cap in one billing period.
CountCapped(s, a) ==
    LET p == period_index(sub[s])
        before == IF capped[s].period = p THEN capped[s].units ELSE 0
    IN  IF limits[s].limit.cap = None THEN capped
        ELSE [capped EXCEPT ![s] = [period |-> p, units |-> before + a]]

Limited(s) == limits[s] # NoLimits

\* An amount over the lifetime cap cancels the subscription: the call counts
\* against the limits, but nothing is debited and its reference stays unused.
\* Without limits no state of them is kept.
ChargeUsageWithReference(s, a, ref) ==
    /\ ref \notin refs[s]
    /\ BurstAllows(s) /\ RateAllows(s) /\ CapAllows(s, a)
    /\ ChargeUsage(s, a)
    /\ usage' = IF Limited(s) THEN [usage EXCEPT ![s] = RecordUsage(Rolled(s), a)] ELSE usage
    /\ IF lifetime_cap_allows(sub[s], a)
         THEN /\ refs' = [refs EXCEPT ![s] = @ \cup {ref}]
              /\ write_period_snapshot(s, period_index(sub[s]), a, a)
              /\ capped' = CountCapped(s, a)
              /\ calls' = IF Limited(s) THEN [calls EXCEPT ![s] = Append(@, now)] ELSE calls
         ELSE UNCHANGED <<refs, snapshot, capped, calls>>
    /\ UNCHANGED <<limits, inherited>>

\* The interval charge adds its amount to the snapshot of the period it closes.
CollectMetered(s, a) ==
    /\ ChargeCollect(s, a)
    /\ write_period_snapshot(s, period_index(sub[s]), a, 0)
    /\ UNCHANGED <<limits, usage, refs, capped, calls, inherited>>

-----------------------------------------------------------------------------
MeteredInit ==
    /\ Init
    /\ limits = [s \in Subs |-> NoLimits] /\ usage = [s \in Subs |-> NoUsage]
    /\ refs = [s \in Subs |-> {}]
    /\ snapshot = [s \in Subs |-> [p \in Periods |-> [total |-> 0, units |-> 0]]]
    /\ capped = [s \in Subs |-> [period |-> 0, units |-> 0]]
    /\ calls = [s \in Subs |-> <<>>] /\ inherited = {}

Meter(s) ==
    \/ \E cap \in Caps, t \in Times : CreateMetered(s, cap, t)
    \/ \E cap \in Caps, trial \in Trials : CreateMeteredFromPlan(s, cap, trial)
    \/ \E m \in Merchants, l \in LimitChoices : ConfigureUsageLimits(s, m, l)
    \/ \E a \in UsageAmounts, ref \in References :
          ChargeUsageWithReference(s, a, ref) \/ RefuseOverPeriodCap(s, a, ref)
    \/ \E a \in ChargeAmounts : CollectMetered(s, a)

\* What else happens in the vault.
Unmetered ==
    /\ Administration \/ \E s \in Subs : Dunning(s) \/ Payments(s) \/ Control(s)
    /\ UNCHANGED meter_vars

MeteredNext == Unmetered \/ \E s \in Subs : Meter(s)

MeteredSpec == MeteredInit /\ [][MeteredNext]_metered_vars

-----------------------------------------------------------------------------
(* Properties.                                                             *)

\* The metering keys keep their types.
MeteringTypeOK ==
    /\ limits \in [Subs -> UsageLimits]
    /\ usage \in [Subs -> UsageState]
    /\ refs \in [Subs -> SUBSET References]
    /\ snapshot \in [Subs -> [Periods -> [total : Nat, units : Nat]]]
    /\ capped \in [Subs -> [period : Nat, units : Nat]]
    /\ calls \in [Subs -> Seq(Nat)]
    /\ inherited \subseteq Subs

\* Although any merchant may configure an id that is not taken yet, a metered
\* subscription has limits, and they are its own merchant's; created from a plan, it
\* may have none or another merchant's, until its own sets them.
LimitsOwned ==
    \A s \in Subs : Exists(s) => limits[s].merchant = MerchantOf[s] \/ s \in inherited

\* usage_caps.md: units charged in one billing period under a cap never exceed
\* the cap in force at the charge, however the period rolls, the merchant
\* changes the limits or drops the cap in between, and calls are refused.
UsageCapHolds ==
    [][\A s \in Subs : refs'[s] # refs[s] /\ limits[s].limit.cap # None
          => capped'[s].units <= limits[s].limit.cap]_metered_vars

\* The snapshots account for every unit charged over the subscription's life by
\* interval and usage charges, and the usage among it, as long as no grace buyout
\* is made (a buyout writes no snapshot).
SnapshotsReconcile ==
    \A s \in Subs :
        /\ sub[s].charged = SumFunction([p \in Periods |-> snapshot[s][p].total])
        /\ \A p \in Periods : snapshot[s][p].units <= snapshot[s][p].total

\* usage_rate_limits.md: a stretch as long as the window sees at most twice the
\* configured number of calls, since it meets at most two windows; limits and
\* counters that a reconfiguration leaves behind do not weaken this.
RateBounded ==
    \A s \in Subs : LET l == limits[s].limit IN
        l.maxCalls # None =>
            \A t \in 0..MaxTime :
                Cardinality({i \in DOMAIN calls[s] :
                    t <= calls[s][i] /\ calls[s][i] < t + l.window}) <= 2 * l.maxCalls
=============================================================================
