------------------------- MODULE BookkeepingProofs -------------------------
(***************************************************************************)
(* Proofs about the two modules that keep books on top of Vault. Metering  *)
(* and receipts only record what the vault does, or refuse it, so what     *)
(* VaultProofs shows of the vault holds with them too. On top of that: the *)
(* limits a metered subscription is charged under are its own merchant's,  *)
(* unless a plan brought it to an id nobody or somebody else had           *)
(* configured; the books balance, statements add up to what was charged, a *)
(* live key is charged once, usage stays under its cap and its rate, and   *)
(* the snapshots of the billing periods add up.                            *)
(***************************************************************************)
EXTENDS Metering, Receipts, Sums, VaultProofs, SequenceTheorems
-----------------------------------------------------------------------------
(* Metering implements the vault.                                          *)

\* Every metered step is a step of the vault or leaves its state alone.
LEMMA MeteredStep == [MeteredNext]_metered_vars => [Next]_vars
  <1> SUFFICES ASSUME [MeteredNext]_metered_vars PROVE [Next]_vars
    OBVIOUS
  <1>1. CASE UNCHANGED metered_vars
    BY <1>1 DEF metered_vars
  <1>2. CASE Unmetered
    BY <1>2 DEF Unmetered, Next, Billing, Funding
  <1>3. CASE \E s \in Subs : Meter(s)
    <2>1. PICK s \in Subs : Meter(s)
      BY <1>3
    <2>2. CASE \E cap \in Caps, t \in Times : CreateMetered(s, cap, t)
      BY <2>2 DEF CreateMetered, Next, Funding
    <2>7. CASE \E cap \in Caps, trial \in Trials : CreateMeteredFromPlan(s, cap, trial)
      BY <2>7 DEF CreateMeteredFromPlan, Next, Funding
    <2>3. CASE \E m \in Merchants, l \in LimitChoices : ConfigureUsageLimits(s, m, l)
      BY <2>3 DEF ConfigureUsageLimits
    <2>4. CASE \E a \in UsageAmounts, ref \in References : ChargeUsageWithReference(s, a, ref)
      BY <2>4 DEF ChargeUsageWithReference, Next, Funding
    <2>5. CASE \E a \in UsageAmounts, ref \in References : RefuseOverPeriodCap(s, a, ref)
      BY <2>5 DEF RefuseOverPeriodCap
    <2>6. CASE \E a \in ChargeAmounts : CollectMetered(s, a)
      BY <2>6 DEF CollectMetered, Next, Billing
    <2> QED
      BY <2>1, <2>2, <2>3, <2>4, <2>5, <2>6, <2>7 DEF Meter
  <1> QED
    BY <1>1, <1>2, <1>3 DEF MeteredNext

\* The metered vault is a vault: one collection per interval, typed balances and
\* the state machine hold of it too.
THEOREM MeteredIsVault == MeteredSpec => Spec
  <1>1. MeteredInit => Init
    BY DEF MeteredInit
  <1> QED
    BY <1>1, MeteredStep, PTL DEF MeteredSpec, Spec

-----------------------------------------------------------------------------
(* The owner of the limits.                                                *)

\* Limits, with their domain: the inductive invariant.
OwnedInv == DOMAIN limits = Subs /\ LimitsOwned

\* A step that neither creates a subscription nor writes limits.
LEMMA OwnedStays ==
    ASSUME OwnedInv, NoNewId, UNCHANGED <<limits, inherited>> PROVE OwnedInv'
  <1>1. \A t \in Subs : Exists(t)' => Exists(t)
    BY DEF NoNewId, Exists
  <1> QED
    BY <1>1 DEF OwnedInv, LimitsOwned

\* Every step keeps the limits of existing subscriptions their merchant's, or marks
\* the subscription as one that has inherited them.
LEMMA OwnedStep == TypeOK /\ OwnedInv /\ [MeteredNext]_metered_vars => OwnedInv'
  <1> SUFFICES ASSUME TypeOK, OwnedInv, [MeteredNext]_metered_vars PROVE OwnedInv'
    OBVIOUS
  <1>0. sub \in [Subs -> Subscription]
    BY DEF TypeOK
  <1>1. CASE UNCHANGED metered_vars
    BY <1>1 DEF metered_vars, vars, meter_vars, OwnedInv, LimitsOwned, Exists
  <1>2. CASE Unmetered
    BY <1>0, <1>2, HandlerCreatesNone, AdministrationCreatesNone, OwnedStays
       DEF Unmetered, meter_vars
  <1>3. ASSUME NEW s \in Subs, Meter(s) PROVE OwnedInv'
    <2>1. CASE \E cap \in Caps, t \in Times : CreateMetered(s, cap, t)
      <3>1. /\ limits[s].merchant = MerchantOf[s] /\ UNCHANGED <<limits, inherited>>
            /\ \E r : sub' = [sub EXCEPT ![s] = r]
        BY <2>1 DEF CreateMetered, meter_vars, CreateSubscription, Enter, write_subscription
      <3>2. \A t \in Subs : t # s => sub'[t] = sub[t]
        BY <1>0, <3>1
      <3> QED
        BY <3>1, <3>2 DEF OwnedInv, LimitsOwned, Exists
    <2>6. CASE \E cap \in Caps, trial \in Trials : CreateMeteredFromPlan(s, cap, trial)
      <3>1. /\ limits' = limits /\ inherited' = inherited \cup {s}
            /\ \E r : sub' = [sub EXCEPT ![s] = r]
        BY <2>6 DEF CreateMeteredFromPlan, CreateSubscriptionFromPlan, Enter, write_subscription
      <3>2. \A t \in Subs : t # s => sub'[t] = sub[t]
        BY <1>0, <3>1
      <3> QED
        BY <3>1, <3>2 DEF OwnedInv, LimitsOwned, Exists
    <2>2. CASE \E m \in Merchants, l \in LimitChoices : ConfigureUsageLimits(s, m, l)
      <3>1. PICK m \in Merchants, l \in LimitChoices : ConfigureUsageLimits(s, m, l)
        BY <2>2
      <3>2. /\ limits' = [limits EXCEPT ![s] = [merchant |-> m, limit |-> l]]
            /\ inherited' = inherited \ {s}
            /\ sub' = sub /\ (Exists(s) => m = MerchantOf[s])
        BY <3>1 DEF ConfigureUsageLimits, vars
      <3>3. /\ DOMAIN limits' = Subs /\ limits'[s].merchant = m
            /\ \A t \in Subs : t # s => limits'[t] = limits[t]
        BY <3>2 DEF OwnedInv
      <3> QED
        BY <3>2, <3>3 DEF OwnedInv, LimitsOwned, Exists
    <2>3. CASE \E a \in UsageAmounts, ref \in References : ChargeUsageWithReference(s, a, ref)
      BY <1>0, <2>3, HandlerCreatesNone, OwnedStays DEF ChargeUsageWithReference
    <2>4. CASE \E a \in UsageAmounts, ref \in References : RefuseOverPeriodCap(s, a, ref)
      BY <2>4 DEF RefuseOverPeriodCap, vars, OwnedInv, LimitsOwned, Exists
    <2>5. CASE \E a \in ChargeAmounts : CollectMetered(s, a)
      BY <1>0, <2>5, HandlerCreatesNone, OwnedStays DEF CollectMetered
    <2> QED
      BY <1>3, <2>1, <2>2, <2>3, <2>4, <2>5, <2>6 DEF Meter
  <1> QED
    BY <1>1, <1>2, <1>3 DEF MeteredNext

\* For any number of merchants that configure ids before they are taken: a
\* subscription's limits are its own merchant's from the start if it was created
\* directly, and from the first time they are set if it was created from a plan.
THEOREM LimitsAreOwned == MeteredSpec => []LimitsOwned
  <1>1. MeteredInit => OwnedInv
    BY DEF MeteredInit, Init, OwnedInv, LimitsOwned, Exists, Absent
  <1>2. OwnedInv => LimitsOwned
    BY DEF OwnedInv
  <1> QED
    BY <1>1, <1>2, OwnedStep, MeteredIsVault, TypeCorrect, PTL DEF MeteredSpec

-----------------------------------------------------------------------------
(* Receipts implement the vault.                                           *)

\* A charge with a receipt is a charge of the vault, alone or in a batch.
LEMMA ReceiptedCall ==
    ASSUME NEW s \in Subs, Receipted(s)
    PROVE  [Next]_vars
  <1>1. CASE \E k \in Keys \cup {None}, a \in ChargeAmounts :
                ChargeSubscription(s, a, k) \/ BatchCharge(s, a, k)
    BY <1>1 DEF ChargeSubscription, BatchCharge, Next, Billing
  <1>2. CASE \E k \in Keys \cup {None}, a \in OneOffAmounts : ChargeOneOffStated(s, a, k)
    BY <1>2 DEF ChargeOneOffStated, Next, Funding, Payments
  <1>3. CASE \E k \in Keys \cup {None}, c \in ChargeAmounts, a \in BuyoutAmounts :
                GraceBuyoutStated(s, c, a, k)
    BY <1>3 DEF GraceBuyoutStated, Next, Funding, Payments
  <1>4. CASE \E a \in UsageAmounts : ChargeUsageStated(s, a)
    BY <1>4 DEF ChargeUsageStated, Next, Funding
  <1>5. CASE CompactBillingStatements(s, keep)
    BY <1>5 DEF CompactBillingStatements
  <1> QED
    BY <1>1, <1>2, <1>3, <1>4, <1>5 DEF Receipted

\* Every step with receipts is a step of the vault or leaves its state alone.
LEMMA ReceiptsStep == [ReceiptsNext]_receipted_vars => [Next]_vars
  <1> SUFFICES ASSUME [ReceiptsNext]_receipted_vars PROVE [Next]_vars
    OBVIOUS
  <1>1. CASE UNCHANGED receipted_vars
    BY <1>1 DEF receipted_vars
  <1>2. CASE \E s \in Subs : Receipted(s)
    BY <1>2, ReceiptedCall
  <1>3. CASE \E s \in Subs : Unreceipted(s)
    <2>1. PICK s \in Subs : Unreceipted(s)
      BY <1>3
    <2>2. Billing(s) \/ Control(s) \/ Funding(s)
      BY <2>1 DEF Unreceipted, Billing, Funding, Payments
    <2> QED
      BY <2>2 DEF Next
  <1>4. CASE \E n \in KeepChoices : SetBillingRetention(n)
    BY <1>4 DEF SetBillingRetention
  <1>5. CASE \E t \in TtlChoices : SetIdempotencyTtl(t)
    BY <1>5 DEF SetIdempotencyTtl
  <1>6. CASE Administration
    BY <1>6 DEF Next
  <1> QED
    BY <1>1, <1>2, <1>3, <1>4, <1>5, <1>6 DEF ReceiptsNext

\* The vault with receipts is a vault: typed balances, one collection per
\* interval and the state machine hold under batches, retries and buyouts.
THEOREM ReceiptedIsVault == ReceiptsSpec => Spec
  <1>1. ReceiptsInit => Init
    BY DEF ReceiptsInit
  <1> QED
    BY <1>1, ReceiptsStep, PTL DEF ReceiptsSpec, Spec

\* In particular no resubmitted, batched or bought-out charge is collected within
\* an interval of the last one, whatever keys it carries.
THEOREM ReceiptsSpacing == ReceiptsSpec => ChargeSpacing
  BY ReceiptedIsVault, SpacingCorrect, PTL

-----------------------------------------------------------------------------
(* The books balance.                                                      *)

Prepaid == [t \in Subs |-> sub[t].prepaid]
Owed == SumFunctionOnSet(Prepaid, Subs)
Earnings == SumFunctionOnSet(bal, Accounts)

\* The step adds d to what is owed beyond what it moves into the vault.
Posted(d) == Owed' + Earnings' - vault' = Owed + Earnings - vault + d

\* What is owed is a number, in a typed state.
LEMMA OwedType == ASSUME IInv PROVE Owed \in Int /\ Earnings \in Int /\ vault \in Int
  <1>1. \A t \in Subs : Prepaid[t] \in Int
    BY FieldTypes DEF Prepaid, IInv, TypeOK
  <1>2. IsFiniteSet(Subs) /\ IsFiniteSet(Accounts)
    BY ConfigAssumption, ReceiptsAssumption, FS_AddElement, FS_Singleton, FS_Union DEF Accounts
  <1>3. \A x \in Accounts : bal[x] \in Int
    BY DEF IInv, TypeOK
  <1> QED
    BY <1>1, <1>2, <1>3, SumType DEF Owed, Earnings, IInv, TypeOK

\* Moving the prepaid balance of one subscription moves what is owed as far.
LEMMA PrepaidPosts ==
    ASSUME IInv, IInv', NEW s \in Subs, NEW d \in Int,
           sub'[s].prepaid = sub[s].prepaid + d,
           \A t \in Subs \ {s} : sub'[t].prepaid = sub[t].prepaid
    PROVE  Owed' = Owed + d
  <1>1. \A t \in Subs : Prepaid[t] \in Int /\ Prepaid'[t] \in Int
    BY FieldTypes DEF Prepaid, IInv, TypeOK
  <1>2. \A t \in Subs \ {s} : Prepaid'[t] = Prepaid[t]
    BY DEF Prepaid
  <1>3. Prepaid'[s] = Prepaid[s] + d
    BY DEF Prepaid
  <1>4. IsFiniteSet(Subs)
    BY ConfigAssumption
  <1> DEFINE f == Prepaid
             h == Prepaid'
  <1>5. /\ SumFunctionOnSet(h, Subs) = SumFunctionOnSet(f, Subs) + h[s] - f[s]
        /\ SumFunctionOnSet(f, Subs) \in Int
    <2> HIDE DEF f, h
    <2> SUFFICES /\ \A x \in Subs : f[x] \in Int
                 /\ h[s] \in Int /\ \A x \in Subs \ {s} : h[x] = f[x]
      BY <1>4, SumChange
    <2> QED
      BY <1>1, <1>2 DEF f, h
  <1> QED
    BY <1>1, <1>3, <1>5 DEF Owed

\* One record written.
LEMMA WritePosts ==
    ASSUME IInv, IInv', NEW s \in Subs, NEW r2, write_subscription(s, r2),
           NEW d \in Int, r2.prepaid = get_subscription(s).prepaid + d
    PROVE  Owed' = Owed + d
  <1>1. sub'[s] = r2 /\ \A t \in Subs \ {s} : sub'[t] = sub[t]
    BY DEF write_subscription, IInv, TypeOK
  <1> QED
    BY <1>1, ViewKeeps, PrepaidPosts

\* No prepaid balance moved.
LEMMA QuietPosts ==
    ASSUME IInv, IInv', \A t \in Subs : sub'[t].prepaid = sub[t].prepaid
    PROVE  Owed' = Owed
  <1>1. Prepaid' = Prepaid
    BY DEF Prepaid
  <1> QED
    BY <1>1 DEF Owed

\* Merchant and treasury together earn what is charged, also when they are one.
LEMMA CreditPosts ==
    ASSUME IInv, IInv', NEW s \in Subs, NEW a \in Int, NEW fee \in Int,
           credit_charge_payees(s, a, fee)
    PROVE  Earnings' = Earnings + a
  <1> DEFINE m == MerchantOf[s]
             f == bal
             mid == [x \in Accounts |-> bal[x] + (IF x = m THEN a - fee ELSE 0)]
             h == bal'
  <1>1. m \in Accounts /\ Treasury \in Accounts
    BY ConfigAssumption DEF Accounts
  <1>2. IsFiniteSet(Accounts)
    BY ReceiptsAssumption, FS_Singleton, FS_Union DEF Accounts
  <1>3. /\ \A x \in Accounts : f[x] \in Int /\ mid[x] \in Int /\ h[x] \in Int
        /\ mid[m] = f[m] + (a - fee) /\ \A x \in Accounts \ {m} : mid[x] = f[x]
        /\ h[Treasury] = mid[Treasury] + fee
        /\ \A x \in Accounts \ {Treasury} : h[x] = mid[x]
    BY <1>1 DEF IInv, TypeOK, credit_charge_payees
  <1> HIDE DEF f, mid, h, m
  <1>4. /\ SumFunctionOnSet(mid, Accounts) = SumFunctionOnSet(f, Accounts) + mid[m] - f[m]
        /\ SumFunctionOnSet(f, Accounts) \in Int
    BY <1>1, <1>2, <1>3, SumChange
  <1>5. SumFunctionOnSet(h, Accounts)
          = SumFunctionOnSet(mid, Accounts) + h[Treasury] - mid[Treasury]
    BY <1>1, <1>2, <1>3, SumChange
  <1>6. SumFunctionOnSet(h, Accounts) = SumFunctionOnSet(f, Accounts) + a
    BY <1>1, <1>3, <1>4, <1>5
  <1> QED
    BY <1>6 DEF Earnings, f, h

\* An account that pays out a is owed a less.
LEMMA PayoutPosts ==
    ASSUME IInv, IInv', NEW x \in Accounts, NEW a \in Int, bal' = [bal EXCEPT ![x] = @ - a]
    PROVE  Earnings' = Earnings - a
  <1> DEFINE f == bal
             h == bal'
  <1>1. IsFiniteSet(Accounts)
    BY ReceiptsAssumption, FS_Singleton, FS_Union DEF Accounts
  <1>2. /\ \A y \in Accounts : f[y] \in Int /\ h[y] \in Int
        /\ h[x] = f[x] - a /\ \A y \in Accounts \ {x} : h[y] = f[y]
    BY DEF IInv, TypeOK
  <1> HIDE DEF f, h
  <1>3. /\ SumFunctionOnSet(h, Accounts) = SumFunctionOnSet(f, Accounts) + h[x] - f[x]
        /\ SumFunctionOnSet(f, Accounts) \in Int
    BY <1>1, <1>2, SumChange
  <1>4. SumFunctionOnSet(h, Accounts) = SumFunctionOnSet(f, Accounts) - a
    BY <1>2, <1>3
  <1> QED
    BY <1>4 DEF Earnings, f, h

\* A record written with its prepaid balance as it was read, or without any.
LEMMA KeepPosts ==
    ASSUME IInv, IInv', NEW s \in Subs, NEW r2, write_subscription(s, r2)
    PROVE  /\ r2.prepaid = get_subscription(s).prepaid => Owed' = Owed
           /\ r2.prepaid = 0 => Owed' = Owed - get_subscription(s).prepaid
  <1> DEFINE p == get_subscription(s).prepaid
             d == r2.prepaid - p
  <1>1. p \in Int /\ Owed \in Int
    BY View, FieldTypes, OwedType
  <1>2. ASSUME r2.prepaid \in Int PROVE Owed' = Owed + d
    <2>1. r2.prepaid = p + d /\ d \in Int
      BY <1>1, <1>2
    <2> HIDE DEF d
    <2> QED
      BY <2>1, WritePosts
  <1> QED
    BY <1>1, <1>2

\* charge_one, when it does not collect, at most refunds a scheduled cancellation.
LEMMA DunningPosts ==
    ASSUME IInv, IInv', NEW s \in Subs, Dunning(s)
    PROVE  Posted(0)
  <1> DEFINE r == get_subscription(s)
  <1>1. r \in Subscription /\ r.prepaid \in Nat
    BY View, FieldTypes
  <1>2. Owed \in Int /\ Earnings \in Int /\ vault \in Int
    BY OwedType
  <1>3. CASE ChargeExpire(s) \/ ChargeAtCap(s)
    <2>1. \A st : [r EXCEPT !.status = st].prepaid = r.prepaid
      BY <1>1 DEF Subscription
    <2>2. Owed' = Owed
      BY <1>3, <2>1, KeepPosts DEF ChargeExpire, ChargeAtCap
    <2> QED
      BY <1>2, <1>3, <2>2 DEF Posted, Earnings, ChargeExpire, ChargeAtCap
  <1>4. CASE ChargeScheduledCancellation(s)
    <2>1. [r EXCEPT !.status = "Cancelled", !.prepaid = 0, !.cancelAt = None].prepaid = 0
      BY <1>1 DEF Subscription
    <2>2. Owed' = Owed - r.prepaid
      BY <1>4, <2>1, KeepPosts DEF ChargeScheduledCancellation
    <2> QED
      BY <1>1, <1>2, <1>4, <2>2 DEF Posted, Earnings, ChargeScheduledCancellation, TransferOut
  <1>5. ASSUME NEW a \in ChargeAmounts, ChargeOverCap(s, a) PROVE Posted(0)
    <2>1. [r EXCEPT !.status = "Cancelled"].prepaid = r.prepaid
      BY <1>1 DEF Subscription
    <2>2. Owed' = Owed
      BY <1>5, <2>1, KeepPosts DEF ChargeOverCap
    <2> QED
      BY <1>2, <1>5, <2>2 DEF Posted, Earnings, ChargeOverCap
  <1>6. ASSUME NEW a \in ChargeAmounts, ChargeUnderfunded(s, a) PROVE Posted(0)
    <2>1. Underfunded(r) \in Subscription /\ Underfunded(r).prepaid = r.prepaid
      <3>1. now \in Nat
        BY InputAssumption DEF IInv, TypeOK
      <3> QED
        BY <1>1, <3>1, Optional DEF Underfunded, Subscription, Status
    <2>2. CountFailure(Underfunded(r)).prepaid = r.prepaid
      BY <1>1, <2>1 DEF CountFailure, Subscription
    <2>3. Owed' = Owed
      BY <1>6, <2>2, KeepPosts DEF ChargeUnderfunded
    <2> QED
      BY <1>2, <1>6, <2>3 DEF Posted, Earnings, ChargeUnderfunded
  <1> QED
    BY <1>3, <1>4, <1>5, <1>6 DEF Dunning

\* Cancellation pays out what it takes off; the other controls move nothing.
LEMMA ControlPosts ==
    ASSUME IInv, IInv', NEW s \in Subs, Control(s)
    PROVE  Posted(0)
  <1> DEFINE r == get_subscription(s)
  <1>1. r \in Subscription /\ r.prepaid \in Nat
    BY View, FieldTypes
  <1>2. Owed \in Int /\ Earnings \in Int /\ vault \in Int
    BY OwedType
  <1>3. ASSUME NEW r2, write_subscription(s, r2), r2.prepaid = r.prepaid,
               bal' = bal, vault' = vault
        PROVE  Posted(0)
    <2>2. Owed' = Owed
      BY <1>3, KeepPosts
    <2> QED
      BY <1>2, <1>3, <2>2 DEF Posted, Earnings
  <1>4. ASSUME NEW by \in Users, CancelSubscription(s, by) PROVE Posted(0)
    <2>1. [r EXCEPT !.status = "Cancelled", !.prepaid = 0].prepaid = 0
      BY <1>1 DEF Subscription
    <2>2. Owed' = Owed - r.prepaid
      BY <1>4, <2>1, KeepPosts DEF CancelSubscription
    <2> QED
      BY <1>1, <1>2, <1>4, <2>2 DEF Posted, Earnings, CancelSubscription, TransferOut
  <1>5. ASSUME NEW by \in Users, ResumeSubscription(s, by) PROVE Posted(0)
    <2>1. [r EXCEPT !.status = "Active"].prepaid = r.prepaid
      BY <1>1 DEF Subscription
    <2> QED
      BY <1>3, <1>5, <2>1 DEF ResumeSubscription
  <1>6. CASE PauseSubscription(s) \/ CleanupSubscription(s) \/ UnscheduleCancel(s)
    <2>1. /\ \A st : [r EXCEPT !.status = st].prepaid = r.prepaid
          /\ [r EXCEPT !.cancelAt = None].prepaid = r.prepaid
      BY <1>1 DEF Subscription
    <2> QED
      BY <1>3, <1>6, <2>1 DEF PauseSubscription, CleanupSubscription, UnscheduleCancel
  <1>7. ASSUME NEW t \in Times, ScheduleCancel(s, t) \/ SetExpirationLedger(s, t)
        PROVE  Posted(0)
    <2>1. /\ [r EXCEPT !.cancelAt = t].prepaid = r.prepaid
          /\ [r EXCEPT !.expiresAtLedger = t].prepaid = r.prepaid
      BY <1>1 DEF Subscription
    <2> QED
      BY <1>3, <1>7, <2>1 DEF ScheduleCancel, SetExpirationLedger
  <1>8. ASSUME NEW b \in RenewChoices, SetAutoRenew(s, b) PROVE Posted(0)
    <2>1. \A d : [r EXCEPT !.disabledAt = d].prepaid = r.prepaid
      BY <1>1 DEF Subscription
    <2>2. PICK d : write_subscription(s, [r EXCEPT !.disabledAt = d])
      BY <1>8 DEF SetAutoRenew
    <2> QED
      BY <1>3, <1>8, <2>1, <2>2 DEF SetAutoRenew
  <1>9. ASSUME NEW cap \in Caps, UpdateSubscriptionCap(s, cap) PROVE Posted(0)
    <2>1. [r EXCEPT !.cap = cap].prepaid = r.prepaid
      BY <1>1 DEF Subscription
    <2> QED
      BY <1>3, <1>9, <2>1 DEF UpdateSubscriptionCap
  <1> QED
    BY <1>4, <1>5, <1>6, <1>7, <1>8, <1>9 DEF Control

\* Deposits, refunds and withdrawals move in the vault what they move on the books.
LEMMA TransfersPost ==
    ASSUME IInv, IInv', NEW s \in Subs,
           \/ \E a \in DepositAmounts : DepositFunds(s, a)
           \/ \E a \in BulkAmounts : BulkDepositFunds(s, a)
           \/ \E a \in DelegatedAmounts : DepositFundsOnBehalf(s, a)
           \/ RequestEmergencyWithdraw(s) \/ FinalizeEmergencyWithdraw(s)
           \/ WithdrawSubscriberFunds(s)
           \/ \E a \in RefundAmounts : PartialRefund(s, a)
    PROVE  Posted(0)
  <1> DEFINE r == get_subscription(s)
  <1>1. r \in Subscription /\ r.prepaid \in Nat /\ sub[s] \in Subscription
        /\ sub \in [Subs -> Subscription]
    BY View, FieldTypes DEF IInv, TypeOK
  <1>2. Owed \in Int /\ Earnings \in Int /\ vault \in Int
    BY OwedType
  <1>3. ASSUME NEW a \in Nat, NEW r2, write_subscription(s, r2), TransferIn(a),
               r2.prepaid = r.prepaid + a, bal' = bal
        PROVE  Posted(0)
    <2>1. Owed' = Owed + a
      BY <1>3, WritePosts
    <2> QED
      BY <1>2, <1>3, <2>1 DEF Posted, Earnings, TransferIn
  <1>4. ASSUME NEW a \in Nat, NEW r2, write_subscription(s, r2), TransferOut(a),
               r2.prepaid = r.prepaid - a, bal' = bal
        PROVE  Posted(0)
    <2>1. r2.prepaid = r.prepaid + (-a)
      BY <1>1, <1>4
    <2>2. Owed' = Owed + (-a)
      BY <1>4, <2>1, WritePosts
    <2> QED
      BY <1>2, <1>4, <2>2 DEF Posted, Earnings, TransferOut
  <1>5. ASSUME NEW a \in DepositAmounts \cup BulkAmounts,
               DepositFunds(s, a) \/ BulkDepositFunds(s, a)
        PROVE  Posted(0)
    <2>1. a \in Nat /\ [r EXCEPT !.prepaid = @ + a, !.failures = 0].prepaid = r.prepaid + a
      BY <1>1, InputAssumption DEF Subscription
    <2> QED
      BY <1>3, <1>5, <2>1 DEF DepositFunds, BulkDepositFunds
  <1>6. ASSUME NEW a \in DelegatedAmounts, DepositFundsOnBehalf(s, a) PROVE Posted(0)
    <2>1. a \in Nat /\ \A st, g :
             [r EXCEPT !.prepaid = @ + a, !.status = st, !.graceStart = g].prepaid
               = r.prepaid + a
      BY <1>1, InputAssumption DEF Subscription
    <2>2. PICK st, g : write_subscription(s, [r EXCEPT !.prepaid = @ + a, !.status = st,
                                                       !.graceStart = g])
      BY <1>6 DEF DepositFundsOnBehalf
    <2> QED
      BY <1>3, <1>6, <2>1, <2>2 DEF DepositFundsOnBehalf
  <1>7. CASE RequestEmergencyWithdraw(s)
    <2>1. \A t \in Subs : sub'[t].prepaid = sub[t].prepaid
      BY <1>1, <1>7 DEF RequestEmergencyWithdraw, Subscription
    <2>2. Owed' = Owed
      BY <2>1, QuietPosts
    <2> QED
      BY <1>2, <1>7, <2>2 DEF Posted, Earnings, RequestEmergencyWithdraw
  <1>8. CASE FinalizeEmergencyWithdraw(s)
    <2>1. [r EXCEPT !.prepaid = 0, !.intentAt = None].prepaid = r.prepaid - r.prepaid
      BY <1>1 DEF Subscription
    <2> QED
      BY <1>1, <1>4, <1>8, <2>1 DEF FinalizeEmergencyWithdraw
  <1>9. CASE WithdrawSubscriberFunds(s)
    <2>1. [r EXCEPT !.prepaid = 0].prepaid = r.prepaid - r.prepaid
      BY <1>1 DEF Subscription
    <2> QED
      BY <1>1, <1>4, <1>9, <2>1 DEF WithdrawSubscriberFunds
  <1>10. ASSUME NEW a \in RefundAmounts, PartialRefund(s, a) PROVE Posted(0)
    <2>1. a \in Nat /\ [r EXCEPT !.prepaid = @ - a].prepaid = r.prepaid - a
      BY <1>1, InputAssumption DEF Subscription
    <2> QED
      BY <1>4, <1>10, <2>1 DEF PartialRefund
  <1> QED
    BY <1>5, <1>6, <1>7, <1>8, <1>9, <1>10

\* An interval or usage charge moves prepaid money to the accounts it pays.
LEMMA ChargePosts ==
    ASSUME IInv, IInv', NEW s \in Subs, NEW r2, write_subscription(s, r2),
           NEW a \in Int, NEW fee \in Int, NEW b \in Int,
           r2.prepaid = get_subscription(s).prepaid + b - a,
           credit_charge_payees(s, a, fee), vault' = vault
    PROVE  Posted(b)
  <1>1. r2.prepaid = get_subscription(s).prepaid + (b - a)
    BY View, FieldTypes
  <1>2. Owed' = Owed + (b - a) /\ Earnings' = Earnings + a
    BY <1>1, WritePosts, CreditPosts
  <1> QED
    BY <1>2, OwedType DEF Posted

\* The charges collect what they credit.
LEMMA ChargesPost ==
    ASSUME IInv, IInv', NEW s \in Subs,
           \/ \E a \in ChargeAmounts : ChargeCollect(s, a)
           \/ \E a \in UsageAmounts : ChargeUsage(s, a)
    PROVE  Posted(0)
  <1> DEFINE r == get_subscription(s)
  <1>1. r \in Subscription /\ r.prepaid \in Nat /\ r.charged \in Nat
    BY View, FieldTypes
  <1>2. ASSUME NEW a \in ChargeAmounts, ChargeCollect(s, a) PROVE Posted(0)
    <2>1. a \in Nat \ {0} /\ Fee(a, FeeBps) \in 0..a
      BY InputAssumption, ConfigAssumption, FeeBound
    <2>2. Collected(r, a).prepaid = r.prepaid + 0 - a
      BY <1>1, <2>1 DEF Collected, Subscription
    <2> QED
      BY <1>2, <2>1, <2>2, ChargePosts DEF ChargeCollect
  <1>3. ASSUME NEW a \in UsageAmounts, ChargeUsage(s, a) PROVE Posted(0)
    <2> DEFINE paid == [r EXCEPT !.prepaid = @ - a, !.charged = @ + a]
    <2>00. UsageAllowed(s, a) /\ vault' = vault
      BY <1>3 DEF ChargeUsage
    <2>0. a \in Nat \ {0}
      <3>1. a > 0
        BY <2>00 DEF UsageAllowed
      <3> QED
        BY <3>1, InputAssumption
    <2>1. a \in Nat \ {0} /\ Fee(a, MerchantFeeBps) \in 0..a
      BY <2>0, ConfigAssumption, FeeBound
    <2>2. CASE write_subscription(s, [r EXCEPT !.status = "Cancelled"]) /\ bal' = bal
      <3>1. [r EXCEPT !.status = "Cancelled"].prepaid = r.prepaid
        BY <1>1 DEF Subscription
      <3>2. Owed' = Owed
        BY <2>2, <3>1, KeepPosts
      <3> QED
        BY <2>00, <2>2, <3>2, OwedType DEF Posted, Earnings
    <2>3. ASSUME NEW st, write_subscription(s, [paid EXCEPT !.status = st]),
                 credit_charge_payees(s, a, Fee(a, MerchantFeeBps))
          PROVE  Posted(0)
      <3> DEFINE r2 == [paid EXCEPT !.status = st]
                 fee == Fee(a, MerchantFeeBps)
      <3>1. r2.prepaid = r.prepaid + 0 - a
        BY <1>1, <2>1 DEF Subscription
      <3>2. /\ write_subscription(s, r2) /\ credit_charge_payees(s, a, fee)
            /\ a \in Int /\ fee \in Int /\ 0 \in Int
        BY <2>1, <2>3
      <3> HIDE DEF r2, fee, r
      <3> QED
        BY <2>00, <3>1, <3>2, ChargePosts DEF r
    <2> QED
      BY <1>3, <2>2, <2>3 DEF ChargeUsage
  <1> QED
    BY <1>2, <1>3

\* A one-off charge debits nobody, a buyout credits money that never came in.
LEMMA UnbackedPosts ==
    ASSUME IInv, IInv', NEW s \in Subs
    PROVE  /\ \A a \in OneOffAmounts : ChargeOneOff(s, a) => Posted(a)
           /\ \A c \in ChargeAmounts, a \in BuyoutAmounts :
                 GraceBuyout(s, c, a) => Posted(a + Bps(c, PremiumBps))
  <1> DEFINE r == get_subscription(s)
  <1>1. r \in Subscription /\ r.prepaid \in Nat /\ r.charged \in Nat
    BY View, FieldTypes
  <1>2. ASSUME NEW a \in OneOffAmounts, ChargeOneOff(s, a) PROVE Posted(a)
    <2>1. a \in Nat \ {0} /\ Fee(a, FeeBps) \in 0..a
      BY <1>2, InputAssumption, ConfigAssumption, FeeBound DEF ChargeOneOff
    <2>2. Earnings' = Earnings + a
      BY <1>2, <2>1, CreditPosts DEF ChargeOneOff
    <2>3. Owed' = Owed
      BY <1>2, QuietPosts DEF ChargeOneOff
    <2> QED
      BY <1>2, <2>1, <2>2, <2>3, OwedType DEF Posted, ChargeOneOff
  <1>3. ASSUME NEW c \in ChargeAmounts, NEW a \in BuyoutAmounts, GraceBuyout(s, c, a)
        PROVE  Posted(a + Bps(c, PremiumBps))
    <2> DEFINE p == Bps(c, PremiumBps)
    <2>1. c \in Nat /\ a \in Nat
      BY InputAssumption
    <2>2. p \in Int
      <3>1. c * PremiumBps \in Nat
        BY <2>1, ConfigAssumption
      <3> QED
        BY <3>1 DEF Bps
    <2>3. PICK r2 : /\ write_subscription(s, r2) /\ r2.prepaid = r.prepaid + a - c
      <3>1. [r EXCEPT !.prepaid = @ + a - c, !.charged = @ + c,
               !.last = now, !.status = "Active", !.graceStart = None,
               !.chargedPeriod = period_index(r)].prepaid = r.prepaid + a - c
        BY <1>1 DEF Subscription
      <3> QED
        BY <1>3, <3>1 DEF GraceBuyout
    <2>4. r2.prepaid = r.prepaid + (a + p) - (c + p)
      BY <1>1, <2>1, <2>2, <2>3
    <2>5. credit_charge_payees(s, c + p, 0) /\ vault' = vault
      BY <1>3 DEF GraceBuyout
    <2> HIDE DEF p, r
    <2> QED
      BY <2>1, <2>2, <2>3, <2>4, <2>5, ChargePosts DEF r, p
  <1> QED
    BY <1>2, <1>3

\* Withdrawals and merchant refunds pay what they debit; recovery pays without.
LEMMA AdministrationPosts ==
    ASSUME IInv, IInv', Administration
    PROVE  Posted(Recovered)
  <1>1. Owed \in Int /\ Earnings \in Int /\ vault \in Int /\ vault' \in Int
    BY OwedType DEF IInv, TypeOK
  <1>2. ASSUME NEW x \in Accounts, NEW a \in MerchantAmounts,
               WithdrawMerchantFunds(x, a) \/ MerchantRefund(x, a)
        PROVE  Posted(Recovered)
    <2>1. /\ a \in Nat \ {0} /\ a \in Int /\ bal' = [bal EXCEPT ![x] = @ - a] /\ vault' = vault - a
          /\ sub' = sub
      BY <1>2, InputAssumption DEF WithdrawMerchantFunds, MerchantRefund, TransferOut
    <2>2. Owed' = Owed /\ Earnings' = Earnings - a
      BY <2>1, QuietPosts, PayoutPosts
    <2>3. bal' # bal
      <3>1. bal'[x] = bal[x] - a /\ bal[x] \in Int
        BY <2>1 DEF IInv, TypeOK
      <3> QED
        BY <2>1, <3>1
    <2> QED
      BY <1>1, <2>1, <2>2, <2>3 DEF Posted, Recovered
  <1>3. ASSUME NEW a \in RecoveryAmounts, RecoverStrandedFunds(a) PROVE Posted(Recovered)
    <2>1. sub' = sub /\ bal' = bal
      BY <1>3 DEF RecoverStrandedFunds
    <2>2. Owed' = Owed /\ Earnings' = Earnings
      BY <2>1, QuietPosts DEF Earnings
    <2>3. Recovered = vault - vault'
      BY <2>1 DEF Recovered
    <2> QED
      BY <1>1, <2>2, <2>3 DEF Posted
  <1>4. CASE bal' = bal /\ vault' = vault /\ \A t \in Subs : sub'[t].prepaid = sub[t].prepaid
    <2>1. Owed' = Owed /\ Earnings' = Earnings
      BY <1>4, QuietPosts DEF Earnings
    <2> QED
      BY <1>1, <1>4, <2>1 DEF Posted, Recovered
  <1>5. ASSUME NEW x \in Blockable, RemoveFromBlocklist(x) PROVE Posted(Recovered)
    <2>1. \A t \in Subs : [sub[t] EXCEPT !.status = "Active"].prepaid = sub[t].prepaid
      BY DEF Subscription, IInv, TypeOK
    <2>2. \A t \in Subs : sub'[t].prepaid = sub[t].prepaid
      BY <1>5, <2>1 DEF RemoveFromBlocklist
    <2> QED
      BY <1>4, <1>5, <2>2 DEF RemoveFromBlocklist
  <1>6. CASE EnableEmergencyStop \/ DisableEmergencyStop \/ Tick
    BY <1>4, <1>6 DEF EnableEmergencyStop, DisableEmergencyStop, Tick
  <1>7. ASSUME NEW x \in Blockable, AddToBlocklist(x) PROVE Posted(Recovered)
    BY <1>4, <1>7 DEF AddToBlocklist
  <1>8. ASSUME NEW m \in Pausable, NEW b \in BOOLEAN,
               PauseMerchant(m) \/ UnpauseMerchant(m) \/ UpdateMerchantConfig(m, b)
        PROVE  Posted(Recovered)
    BY <1>4, <1>8 DEF PauseMerchant, UnpauseMerchant, UpdateMerchantConfig
  <1> QED
    BY <1>2, <1>3, <1>5, <1>6, <1>7, <1>8 DEF Administration

\* Creation takes no money.
LEMMA CreatePosts ==
    ASSUME IInv, IInv', AbsentInv, NEW s \in Subs, Created(s)
    PROVE  Posted(0)
  <1>1. PICK cap \in Caps, trial \in {0} \cup Trials, t \in Times \cup {None} :
             Enter(s, cap, trial, t)
    BY DEF Created
  <1> DEFINE r2 == Entered(cap, trial, t)
  <1>2. r2.prepaid = 0
    BY EnteredType
  <1>3. get_subscription(s).prepaid = 0
    <2>1. sub[s] = Absent
      BY <1>1 DEF Enter, AbsentInv
    <2> QED
      BY <2>1, ViewKeeps DEF Absent
  <1>4. write_subscription(s, r2) /\ bal' = bal /\ vault' = vault
    BY <1>1 DEF Enter, Entered
  <1> HIDE DEF r2
  <1>5. Owed' = Owed
    BY <1>2, <1>3, <1>4, KeepPosts
  <1> QED
    BY <1>4, <1>5, OwedType DEF Posted, Earnings

\* The books balance in a typed state whose free ids are fresh.
BooksInv == AbsentInv /\ unbacked \in Int /\ BooksBalance

\* The two sums Liabilities is made of.
LEMMA LiabilitiesAre ==
    IInv => Liabilities = Owed + Earnings /\ Owed \in Int /\ Earnings \in Int
  <1> SUFFICES ASSUME IInv
               PROVE  Liabilities = Owed + Earnings /\ Owed \in Int /\ Earnings \in Int
    OBVIOUS
  <1>1. DOMAIN bal = Accounts
    BY DEF IInv, TypeOK
  <1> QED
    BY <1>1, OwedType DEF Liabilities, Owed, Prepaid, Earnings, SumFunction

\* A step that posts d and records d as unbacked keeps the balance.
LEMMA PostedBalances ==
    ASSUME IInv, IInv', BooksBalance, unbacked \in Int,
           NEW d \in Int, Posted(d), unbacked' = unbacked + d
    PROVE  unbacked' \in Int /\ BooksBalance'
  <1>1. Liabilities = Owed + Earnings /\ Owed \in Int /\ Earnings \in Int
    BY LiabilitiesAre
  <1>2. (Liabilities = Owed + Earnings /\ Owed \in Int /\ Earnings \in Int)'
    BY LiabilitiesAre, PTL
  <1>3. vault \in Int /\ vault' \in Int
    BY DEF IInv, TypeOK
  <1>4. PICK o \in Int, e \in Int, w \in Int : o = Owed' /\ e = Earnings' /\ w = vault'
    BY <1>2, <1>3, Zenon
  <1>5. o + e - w = Owed + Earnings - vault + d
    BY <1>4 DEF Posted
  <1>6. Owed + Earnings = vault + unbacked
    BY <1>1 DEF BooksBalance
  <1>7. o + e = w + (unbacked + d)
    BY <1>1, <1>3, <1>5, <1>6
  <1>8. Liabilities' = o + e
    BY <1>2, <1>4
  <1> QED
    BY <1>4, <1>7, <1>8 DEF BooksBalance

\* What a step posts it records.
Recorded(d) == d \in Int /\ Posted(d) /\ unbacked' = unbacked + d

\* Every step of the vault with receipts records what it posts.
LEMMA RecordedPosts ==
    ASSUME IInv, IInv', AbsentInv, unbacked \in Int, [ReceiptsNext]_receipted_vars
    PROVE  \E d : Recorded(d)
  <1>0. Owed \in Int /\ Earnings \in Int /\ vault \in Int /\ vault' \in Int
    BY OwedType DEF IInv, TypeOK
  <1>1. ASSUME UNCHANGED vars PROVE Posted(0)
    <2>1. Owed' = Owed /\ Earnings' = Earnings
      BY <1>1, QuietPosts DEF vars, Earnings
    <2> QED
      BY <1>0, <1>1, <2>1 DEF Posted, vars
  <1>7. ASSUME Posted(0), unbacked' = unbacked PROVE \E d : Recorded(d)
    <2>1. unbacked' = unbacked + 0
      BY <1>7
    <2> QED
      BY <1>7, <2>1 DEF Recorded
  <1>2. CASE UNCHANGED receipted_vars
    BY <1>1, <1>2, <1>7 DEF receipted_vars, receipt_vars
  <1>3. ASSUME NEW s \in Subs, Unreceipted(s)
        PROVE  Posted(0) /\ unbacked' = unbacked
    BY <1>3, DunningPosts, ControlPosts, Creations, CreatePosts, TransfersPost
       DEF Unreceipted, receipt_vars
  <1>4. ASSUME NEW s \in Subs, Receipted(s)
        PROVE  \E d : Recorded(d)
    <2>0. unbacked \in Int
      OBVIOUS
    <2>1. ASSUME NEW k \in Keys \cup {None}, NEW a \in ChargeAmounts,
                 ChargeSubscription(s, a, k) \/ BatchCharge(s, a, k)
          PROVE  Posted(0) /\ unbacked' = unbacked
      BY <2>1, ChargesPost DEF ChargeSubscription, BatchCharge
    <2>2. ASSUME NEW k \in Keys \cup {None}, NEW a \in OneOffAmounts,
                 ChargeOneOffStated(s, a, k)
          PROVE  \E d : Recorded(d)
      BY <2>2, UnbackedPosts, InputAssumption DEF ChargeOneOffStated, Recorded
    <2>3. ASSUME NEW k \in Keys \cup {None}, NEW c \in ChargeAmounts,
                 NEW a \in BuyoutAmounts, GraceBuyoutStated(s, c, a, k)
          PROVE  \E d : Recorded(d)
      <3> DEFINE p == Bps(c, PremiumBps)
      <3>1. a \in Int /\ p \in Int
        <4>1. c * PremiumBps \in Nat /\ a \in Nat
          BY InputAssumption, ConfigAssumption
        <4> QED
          BY <4>1 DEF Bps
      <3>2. Posted(a + p)
        BY <2>3, UnbackedPosts DEF GraceBuyoutStated
      <3>3. unbacked' = unbacked + a + p
        BY <2>3 DEF GraceBuyoutStated
      <3> HIDE DEF p
      <3>4. unbacked' = unbacked + (a + p) /\ a + p \in Int
        BY <2>0, <3>1, <3>3
      <3> QED
        BY <3>2, <3>4 DEF Recorded
    <2>4. ASSUME NEW a \in UsageAmounts, ChargeUsageStated(s, a)
          PROVE  Posted(0) /\ unbacked' = unbacked
      BY <2>4, ChargesPost DEF ChargeUsageStated
    <2>5. CASE CompactBillingStatements(s, keep)
      BY <1>1, <1>7, <2>5 DEF CompactBillingStatements
    <2> QED
      BY <1>4, <1>7, <2>1, <2>2, <2>3, <2>4, <2>5 DEF Receipted
  <1>5. ASSUME \/ \E n \in KeepChoices : SetBillingRetention(n)
               \/ \E t \in TtlChoices : SetIdempotencyTtl(t)
        PROVE  Posted(0) /\ unbacked' = unbacked
    BY <1>1, <1>5 DEF SetBillingRetention, SetIdempotencyTtl
  <1>6. CASE Administration /\ unbacked' = unbacked + Recovered
    <2>1. Recovered \in Int
      BY <1>0 DEF Recovered
    <2> QED
      BY <1>6, <2>1, AdministrationPosts DEF Recorded
  <1> QED
    BY <1>2, <1>3, <1>4, <1>5, <1>6, <1>7 DEF ReceiptsNext

\* Deposits, charges, fee splits, refunds and withdrawals neither create nor
\* lose money, for any number of subscriptions and merchants: what is owed
\* beyond the vault's tokens is what one-off charges, buyouts and recoveries took.
THEOREM BooksCorrect == ReceiptsSpec => []BooksBalance
  <1>1. IInv /\ ReceiptsInit => BooksInv
    <2> SUFFICES ASSUME IInv, ReceiptsInit PROVE BooksInv
      OBVIOUS
    <2>1. AbsentInv
      BY DEF ReceiptsInit, Init, AbsentInv
    <2>2. \A t \in Subs : Prepaid[t] = 0
      BY DEF ReceiptsInit, Init, Prepaid, Absent
    <2>3. \A x \in Accounts : bal[x] = 0
      BY DEF ReceiptsInit, Init
    <2>4. IsFiniteSet(Subs) /\ IsFiniteSet(Accounts)
      BY ConfigAssumption, ReceiptsAssumption, FS_Singleton, FS_Union DEF Accounts
    <2>5. Owed = 0 /\ Earnings = 0
      BY <2>2, <2>3, <2>4, SumZero DEF Owed, Earnings
    <2>6. vault = 0 /\ unbacked = 0
      BY DEF ReceiptsInit, Init
    <2> QED
      BY <2>1, <2>5, <2>6, LiabilitiesAre DEF BooksInv, BooksBalance
  <1>2. IInv /\ IInv' /\ BooksInv /\ [ReceiptsNext]_receipted_vars => BooksInv'
    <2> SUFFICES ASSUME IInv, IInv', BooksInv, [ReceiptsNext]_receipted_vars PROVE BooksInv'
      OBVIOUS
    <2>1. AbsentInv'
      BY AbsentStep, ReceiptsStep DEF BooksInv
    <2>2. PICK d : Recorded(d)
      BY RecordedPosts DEF BooksInv
    <2>3. unbacked' \in Int /\ BooksBalance'
      BY <2>2, PostedBalances DEF Recorded, BooksInv
    <2> QED
      BY <2>1, <2>3 DEF BooksInv
  <1>3. BooksInv => BooksBalance
    BY DEF BooksInv
  <1> QED
    BY <1>1, <1>2, <1>3, ReceiptedIsVault, Inductive, PTL DEF ReceiptsSpec

-----------------------------------------------------------------------------
(* Live keys are charged once.                                             *)

\* The recursion Retained is defined by, up to the n-th entry of q.
IsKept(q, n, g) ==
    g = [i \in 0..n |-> IF i = 0 THEN <<>>
                        ELSE IF Expired(q[i].at, now, ttl) THEN g[i - 1]
                        ELSE Append(g[i - 1], q[i])]

\* It has a solution for every length.
LEMMA KeptExists ==
    ASSUME NEW q, NEW N \in Nat
    PROVE  \E g : IsKept(q, N, g)
  <1> DEFINE T == {n \in Nat : ~ \E g : IsKept(q, n, g)}
  <1>1. SUFFICES ASSUME T # {} PROVE FALSE
    OBVIOUS
  <1>2. PICK n \in T : \A m \in T : n <= m
    <2>1. T \subseteq Nat
      OBVIOUS
    <2> HIDE DEF T
    <2> QED BY <1>1, <2>1, LeastNatural
  <1>3. n # 0
    <2> DEFINE g == [i \in 0..0 |-> <<>>]
    <2>1. IsKept(q, 0, g)
      BY DEF IsKept
    <2> QED
      BY <1>2, <2>1
  <1>4. PICK g : IsKept(q, n - 1, g)
    <2>1. n - 1 \in Nat /\ ~(n <= n - 1)
      BY <1>3
    <2> QED
      BY <1>2, <2>1
  <1> DEFINE h == [i \in 0..n |-> IF i = n THEN IF Expired(q[n].at, now, ttl) THEN g[n - 1]
                                                ELSE Append(g[n - 1], q[n])
                                  ELSE g[i]]
  <1>5. \A i \in 0..n : h[i] = IF i = 0 THEN <<>>
                               ELSE IF Expired(q[i].at, now, ttl) THEN h[i - 1]
                               ELSE Append(h[i - 1], q[i])
    <2> SUFFICES ASSUME NEW i \in 0..n
                 PROVE  h[i] = IF i = 0 THEN <<>>
                               ELSE IF Expired(q[i].at, now, ttl) THEN h[i - 1]
                               ELSE Append(h[i - 1], q[i])
      OBVIOUS
    <2>1. CASE i = n
      BY <1>3, <2>1
    <2>2. CASE i # n
      <3>1. i \in 0..(n - 1) /\ h[i] = g[i] /\ (i # 0 => h[i - 1] = g[i - 1])
        BY <2>2
      <3>2. g[i] = IF i = 0 THEN <<>>
                   ELSE IF Expired(q[i].at, now, ttl) THEN g[i - 1]
                   ELSE Append(g[i - 1], q[i])
        BY <1>4, <3>1 DEF IsKept
      <3> QED
        BY <3>1, <3>2
    <2> QED
      BY <2>1, <2>2
  <1>6. IsKept(q, n, h)
    BY <1>5 DEF IsKept
  <1> QED
    BY <1>2, <1>6

\* Making room gives up no entry that is alive.
LEMMA RetainedKeeps ==
    ASSUME NEW E, NEW s, idem[s] \in Seq(E)
    PROVE  /\ Retained(s) \in Seq(E)
           /\ \A i \in DOMAIN idem[s] : ~Expired(idem[s][i].at, now, ttl) =>
                 \E j \in DOMAIN Retained(s) : Retained(s)[j] = idem[s][i]
  <1> DEFINE q == idem[s]
             N == Len(q)
             g == CHOOSE f : IsKept(q, N, f)
             Kept(n) == /\ g[n] \in Seq(E)
                        /\ \A i \in 1..n : ~Expired(q[i].at, now, ttl) =>
                              \E j \in DOMAIN g[n] : g[n][j] = q[i]
             T == {n \in 0..N : ~Kept(n)}
  <1>1. IsKept(q, N, g) /\ Retained(s) = g[N]
    <2>1. N \in Nat
      BY LenProperties
    <2>2. \E f : IsKept(q, N, f)
      BY <2>1, KeptExists
    <2>3. IsKept(q, N, g)
      BY <2>2
    <2>4. Retained(s) = g[N]
      BY DEF Retained, IsKept
    <2> QED
      BY <2>3, <2>4
  <1>2. N \in Nat /\ DOMAIN q = 1..N /\ \A i \in 1..N : q[i] \in E
    BY ElementOfSeq, LenProperties
  <1> HIDE DEF g, N, q
  <1>3. ASSUME T # {} PROVE FALSE
    <2>1. PICK n \in T : \A m \in T : n <= m
      <3>1. T \subseteq Nat
        BY <1>2
      <3> HIDE DEF T
      <3> QED BY <1>3, <3>1, LeastNatural
    <2>2. n # 0
      BY <1>1, <2>1 DEF IsKept
    <2>3. n - 1 \in 0..N /\ n - 1 \notin T /\ n \in 1..N
      BY <1>2, <2>1, <2>2
    <2>4. Kept(n - 1)
      BY <2>3
    <2>5. g[n] = IF Expired(q[n].at, now, ttl) THEN g[n - 1] ELSE Append(g[n - 1], q[n])
      BY <1>1, <2>2, <2>3 DEF IsKept
    <2>6. Kept(n)
      <3>1. CASE Expired(q[n].at, now, ttl)
        BY <2>3, <2>4, <2>5, <3>1
      <3>2. CASE ~Expired(q[n].at, now, ttl)
        <4>1. g[n] = Append(g[n - 1], q[n]) /\ q[n] \in E /\ g[n - 1] \in Seq(E)
          BY <1>2, <2>3, <2>4, <2>5, <3>2
        <4>2. /\ g[n] \in Seq(E) /\ DOMAIN g[n] = 1..(Len(g[n - 1]) + 1)
              /\ DOMAIN g[n - 1] = 1..Len(g[n - 1]) /\ Len(g[n - 1]) \in Nat
              /\ g[n][Len(g[n - 1]) + 1] = q[n]
              /\ \A j \in 1..Len(g[n - 1]) : g[n][j] = g[n - 1][j]
          BY <4>1, AppendProperties, LenProperties
        <4>3. ASSUME NEW i \in 1..n, ~Expired(q[i].at, now, ttl)
              PROVE  \E j \in DOMAIN g[n] : g[n][j] = q[i]
          <5>1. CASE i = n
            BY <4>2, <5>1
          <5>2. CASE i # n
            <6>1. PICK j \in DOMAIN g[n - 1] : g[n - 1][j] = q[i]
              BY <2>3, <2>4, <4>3, <5>2
            <6> QED
              BY <4>2, <6>1
          <5> QED
            BY <5>1, <5>2
        <4> QED
          BY <4>2, <4>3
      <3> QED
        BY <3>1, <3>2
    <2> QED
      BY <2>1, <2>6
  <1>4. Kept(N)
    BY <1>2, <1>3
  <1> QED
    BY <1>1, <1>2, <1>4 DEF q

Entry == [key : Domains \X Keys, at : Nat]

\* The buffers hold the entry of every live key, and a live key is unexpired.
KeyTypes ==
    /\ ttl \in Nat \ {0}
    /\ idem \in [Subs -> Seq(Entry)]
    /\ live \in [Subs -> [Domains \X Keys -> OptTime]]
LiveKept ==
    \A s \in Subs, h \in Domains \X Keys : live[s][h] # None =>
        /\ ~Expired(live[s][h], now, ttl)
        /\ \E i \in DOMAIN idem[s] : idem[s][i].key = h /\ idem[s][i].at = live[s][h]
KeyInv == KeyTypes /\ LiveKept /\ KeyChargedOnce

\* Entrypoints of a subscription run at one ledger time.
LEMMA TimeKept ==
    ASSUME NEW s \in Subs, Billing(s) \/ Control(s) \/ Funding(s)
    PROVE  now' = now
  <1>1. CASE Dunning(s)
    BY <1>1 DEF Dunning, ChargeExpire, ChargeAtCap, ChargeScheduledCancellation,
       ChargeOverCap, ChargeUnderfunded
  <1>2. CASE \/ \E a \in ChargeAmounts : ChargeCollect(s, a)
             \/ \E a \in UsageAmounts : ChargeUsage(s, a)
    BY <1>2 DEF ChargeCollect, ChargeUsage
  <1>3. CASE Payments(s)
    BY <1>3 DEF Payments, DepositFunds, BulkDepositFunds, DepositFundsOnBehalf, GraceBuyout,
       ChargeOneOff, RequestEmergencyWithdraw, FinalizeEmergencyWithdraw,
       WithdrawSubscriberFunds, PartialRefund
  <1>4. CASE Control(s)
    BY <1>4 DEF Control, CancelSubscription, ResumeSubscription, ScheduleCancel,
       SetExpirationLedger, UnscheduleCancel, PauseSubscription, CleanupSubscription,
       SetAutoRenew, UpdateSubscriptionCap
  <1>5. CASE Created(s)
    BY <1>5 DEF Created, Enter
  <1> QED
    BY <1>1, <1>2, <1>3, <1>4, <1>5, Creations DEF Billing, Funding

\* An entry pushed on a buffer with room: the live ones stay.
LEMMA PushKeeps ==
    ASSUME KeyTypes, now \in Nat, NEW s \in Subs, NEW h \in Domains \X Keys, push_key(s, h)
    PROVE  /\ idem' \in [Subs -> Seq(Entry)]
           /\ \A t \in Subs \ {s} : idem'[t] = idem[t]
           /\ \A i \in DOMAIN idem[s] : ~Expired(idem[s][i].at, now, ttl) =>
                 \E j \in DOMAIN idem'[s] : idem'[s][j] = idem[s][i]
           /\ \E j \in DOMAIN idem'[s] : idem'[s][j] = [key |-> h, at |-> now]
  <1> DEFINE R == Retained(s)
             e == [key |-> h, at |-> now]
  <1>1. idem[s] \in Seq(Entry) /\ idem \in [Subs -> Seq(Entry)]
    BY DEF KeyTypes
  <1>2. /\ R \in Seq(Entry)
        /\ \A i \in DOMAIN idem[s] : ~Expired(idem[s][i].at, now, ttl) =>
              \E j \in DOMAIN R : R[j] = idem[s][i]
    BY <1>1, RetainedKeeps
  <1>3. e \in Entry
    BY DEF Entry
  <1>4. idem' = [idem EXCEPT ![s] = Append(R, e)]
    BY DEF push_key
  <1> HIDE DEF R, e
  <1>5. idem'[s] = Append(R, e) /\ \A t \in Subs \ {s} : idem'[t] = idem[t]
    BY <1>1, <1>4
  <1>6. /\ Append(R, e) \in Seq(Entry) /\ DOMAIN Append(R, e) = 1..(Len(R) + 1)
        /\ DOMAIN R = 1..Len(R) /\ Len(R) \in Nat
        /\ Append(R, e)[Len(R) + 1] = e
        /\ \A j \in 1..Len(R) : Append(R, e)[j] = R[j]
    BY <1>2, <1>3, AppendProperties, LenProperties
  <1>7. idem' \in [Subs -> Seq(Entry)]
    BY <1>1, <1>4, <1>6
  <1>8. ASSUME NEW i \in DOMAIN idem[s], ~Expired(idem[s][i].at, now, ttl)
        PROVE  \E j \in DOMAIN idem'[s] : idem'[s][j] = idem[s][i]
    <2>1. PICK j \in DOMAIN R : R[j] = idem[s][i]
      BY <1>2, <1>8
    <2> QED
      BY <1>5, <1>6, <2>1
  <1>9. \E j \in DOMAIN idem'[s] : idem'[s][j] = e
    BY <1>5, <1>6
  <1> QED
    BY <1>5, <1>7, <1>8, <1>9 DEF e

\* A buffer that keeps its live entries keeps the live keys covered.
LEMMA BufferKeeps ==
    ASSUME KeyTypes, LiveKept, NEW s \in Subs,
           idem' \in [Subs -> Seq(Entry)], \A t \in Subs \ {s} : idem'[t] = idem[t],
           \A i \in DOMAIN idem[s] : ~Expired(idem[s][i].at, now, ttl) =>
              \E j \in DOMAIN idem'[s] : idem'[s][j] = idem[s][i]
    PROVE  \A t \in Subs, h \in Domains \X Keys : live[t][h] # None =>
              /\ ~Expired(live[t][h], now, ttl)
              /\ \E i \in DOMAIN idem'[t] : idem'[t][i].key = h /\ idem'[t][i].at = live[t][h]
  <1> SUFFICES ASSUME NEW t \in Subs, NEW h \in Domains \X Keys, live[t][h] # None
               PROVE  /\ ~Expired(live[t][h], now, ttl)
                      /\ \E i \in DOMAIN idem'[t] :
                            idem'[t][i].key = h /\ idem'[t][i].at = live[t][h]
    OBVIOUS
  <1>1. /\ ~Expired(live[t][h], now, ttl)
        /\ \E i \in DOMAIN idem[t] : idem[t][i].key = h /\ idem[t][i].at = live[t][h]
    BY DEF LiveKept
  <1>2. PICK i \in DOMAIN idem[t] : idem[t][i].key = h /\ idem[t][i].at = live[t][h]
    BY <1>1
  <1>3. CASE t # s
    <2>1. idem'[t] = idem[t]
      BY <1>3
    <2> QED
      BY <1>1, <2>1
  <1>4. CASE t = s
    <2>1. ~Expired(idem[t][i].at, now, ttl)
      BY <1>1, <1>2
    <2>2. PICK j \in DOMAIN idem'[t] : idem'[t][j] = idem[t][i]
      BY <1>4, <2>1
    <2>3. idem'[t][j].key = h /\ idem'[t][j].at = live[t][h]
      BY <1>2, <2>2
    <2> QED
      BY <1>1, <2>2, <2>3
  <1> QED
    BY <1>3, <1>4

\* Nothing happens to the keys.
LEMMA KeysKeep ==
    ASSUME KeyInv, UNCHANGED <<now, ttl, idem, live, twice>>
    PROVE  KeyInv'
  BY DEF KeyInv, KeyTypes, LiveKept, KeyChargedOnce

\* A charge that records its key finds it dead and leaves it alive.
LEMMA RecordKeeps ==
    ASSUME KeyInv, now \in Nat, now' = now, ttl' = ttl, NEW s \in Subs, NEW d \in Domains,
           NEW k \in Keys \cup {None}, Fresh(s, d, k), RecordKey(s, d, k)
    PROVE  KeyInv'
  <1> DEFINE h == hash_idem_key(d, k)
  <1>1. CASE k = None
    BY <1>1, KeysKeep DEF RecordKey
  <1>2. CASE k # None
    <2>1. h \in Domains \X Keys
      BY <1>2 DEF hash_idem_key
    <2>2. push_key(s, h) /\ NoteUse(s, h)
      BY <1>2 DEF RecordKey
    <2>3. live[s][h] = None
      <3>1. ~check_key(s, h)
        BY <1>2 DEF Fresh
      <3> SUFFICES ASSUME live[s][h] # None PROVE FALSE
        OBVIOUS
      <3>2. /\ ~Expired(live[s][h], now, ttl)
            /\ \E i \in DOMAIN idem[s] : idem[s][i].key = h /\ idem[s][i].at = live[s][h]
        BY <2>1 DEF KeyInv, LiveKept
      <3> QED
        BY <3>1, <3>2 DEF check_key
    <2> HIDE DEF h
    <2>4. KeyTypes /\ LiveKept /\ twice = {}
      BY DEF KeyInv, KeyChargedOnce
    <2>5. /\ idem' \in [Subs -> Seq(Entry)]
          /\ \A t \in Subs \ {s} : idem'[t] = idem[t]
          /\ \A i \in DOMAIN idem[s] : ~Expired(idem[s][i].at, now, ttl) =>
                \E j \in DOMAIN idem'[s] : idem'[s][j] = idem[s][i]
          /\ \E j \in DOMAIN idem'[s] : idem'[s][j] = [key |-> h, at |-> now]
      BY <2>1, <2>2, <2>4, PushKeeps
    <2>6. /\ live' = [live EXCEPT ![s][h] = now]
          /\ twice' = {}
      BY <2>2, <2>3, <2>4 DEF NoteUse
    <2>7. /\ live' \in [Subs -> [Domains \X Keys -> OptTime]]
          /\ live'[s][h] = now
          /\ \A t \in Subs, x \in Domains \X Keys :
                t # s \/ x # h => live'[t][x] = live[t][x]
      <3>1. live \in [Subs -> [Domains \X Keys -> OptTime]] /\ now \in OptTime
        BY <2>4 DEF KeyTypes, OptTime
      <3> QED
        BY <2>1, <2>6, <3>1
    <2>8. ASSUME NEW t \in Subs, NEW x \in Domains \X Keys, live'[t][x] # None
          PROVE  /\ ~Expired(live'[t][x], now, ttl)
                 /\ \E i \in DOMAIN idem'[t] :
                       idem'[t][i].key = x /\ idem'[t][i].at = live'[t][x]
      <3>1. CASE t = s /\ x = h
        <4>1. PICK j \in DOMAIN idem'[s] : idem'[s][j] = [key |-> h, at |-> now]
          BY <2>5
        <4>2. ~Expired(now, now, ttl)
          BY <2>4 DEF Expired, KeyTypes
        <4>3. idem'[s][j].key = h /\ idem'[s][j].at = now
          BY <4>1
        <4>4. live'[t][x] = now
          BY <2>7, <3>1
        <4> QED
          BY <3>1, <4>2, <4>3, <4>4
      <3>2. CASE t # s \/ x # h
        <4>1. live'[t][x] = live[t][x]
          BY <2>7, <3>2
        <4>2. \A u \in Subs, y \in Domains \X Keys : live[u][y] # None =>
                /\ ~Expired(live[u][y], now, ttl)
                /\ \E i \in DOMAIN idem'[u] :
                      idem'[u][i].key = y /\ idem'[u][i].at = live[u][y]
          BY <2>4, <2>5, BufferKeeps
        <4> QED
          BY <2>8, <4>1, <4>2
      <3> QED
        BY <3>1, <3>2
    <2>9. KeyTypes'
      BY <2>4, <2>5, <2>7 DEF KeyTypes
    <2>10. LiveKept'
      BY <2>8 DEF LiveKept
    <2> QED
      BY <2>6, <2>9, <2>10 DEF KeyInv, KeyChargedOnce
  <1> QED
    BY <1>1, <1>2

\* The clock and the configured lifetime let keys die, nothing else.
LEMMA LifetimeKeeps ==
    ASSUME KeyInv, NEW T, now' = now \/ T = ttl, ttl' = T, T \in Nat \ {0},
           live' = StillLive(now', T), UNCHANGED <<idem, twice>>
    PROVE  KeyInv'
  <1>1. \A s \in Subs, h \in Domains \X Keys :
           live'[s][h] = IF live[s][h] # None /\ Expired(live[s][h], now', T)
                           THEN None ELSE live[s][h]
    BY DEF StillLive
  <1>2. live' \in [Subs -> [Domains \X Keys -> OptTime]]
    BY Optional DEF StillLive, KeyInv, KeyTypes
  <1>3. LiveKept'
    BY <1>1 DEF LiveKept, KeyInv
  <1> QED
    BY <1>2, <1>3 DEF KeyInv, KeyTypes, KeyChargedOnce

\* Every step keeps the invariant.
LEMMA KeyStep ==
    ASSUME KeyInv, now \in Nat, [ReceiptsNext]_receipted_vars
    PROVE  KeyInv'
  <1>1. CASE UNCHANGED receipted_vars
    BY <1>1, KeysKeep DEF receipted_vars, receipt_vars, vars
  <1>2. ASSUME NEW s \in Subs, Unreceipted(s) PROVE KeyInv'
    <2>1. Billing(s) \/ Control(s) \/ Funding(s)
      BY <1>2 DEF Unreceipted, Billing, Funding, Payments
    <2> QED
      BY <1>2, <2>1, TimeKept, KeysKeep DEF Unreceipted, receipt_vars
  <1>3. ASSUME NEW s \in Subs, Receipted(s) PROVE KeyInv'
    <2>1. ASSUME NEW k \in Keys \cup {None}, NEW a \in ChargeAmounts,
                 ChargeSubscription(s, a, k) \/ BatchCharge(s, a, k)
          PROVE  KeyInv'
      <3>1. now' = now
        BY <2>1, TimeKept DEF ChargeSubscription, BatchCharge, Billing
      <3>2. /\ Fresh(s, "CHARGE_INTERVAL", k) /\ ttl' = ttl
            /\ RecordKey(s, "CHARGE_INTERVAL", k) \/ UNCHANGED <<idem, live, twice>>
        BY <2>1 DEF ChargeSubscription, BatchCharge
      <3> QED
        BY <3>1, <3>2, RecordKeeps, KeysKeep DEF Domains
    <2>2. ASSUME NEW k \in Keys \cup {None}, NEW a \in OneOffAmounts,
                 ChargeOneOffStated(s, a, k)
          PROVE  KeyInv'
      <3>1. now' = now
        BY <2>2, TimeKept DEF ChargeOneOffStated, Funding, Payments
      <3>2. /\ Fresh(s, "CHARGE_ONEOFF", k) /\ ttl' = ttl
            /\ RecordKey(s, "CHARGE_ONEOFF", k)
        BY <2>2 DEF ChargeOneOffStated
      <3> QED
        BY <3>1, <3>2, RecordKeeps DEF Domains
    <2>3. ASSUME NEW k \in Keys \cup {None}, NEW c \in ChargeAmounts,
                 NEW a \in BuyoutAmounts, GraceBuyoutStated(s, c, a, k)
          PROVE  KeyInv'
      <3> DEFINE h == hash_idem_key("CHARGE_INTERVAL", k)
      <3>1. now' = now
        BY <2>3, TimeKept DEF GraceBuyoutStated, Funding, Payments
      <3>2. UNCHANGED <<ttl, live, twice>> /\ (idem' = idem \/ (k # None /\ push_key(s, h)))
        BY <2>3 DEF GraceBuyoutStated
      <3>3. CASE k # None /\ push_key(s, h)
        <4>1. h \in Domains \X Keys
          BY <3>3 DEF hash_idem_key, Domains
        <4> HIDE DEF h
        <4>2. KeyTypes /\ LiveKept
          BY DEF KeyInv
        <4>3. /\ idem' \in [Subs -> Seq(Entry)]
              /\ \A t \in Subs \ {s} : idem'[t] = idem[t]
              /\ \A i \in DOMAIN idem[s] : ~Expired(idem[s][i].at, now, ttl) =>
                    \E j \in DOMAIN idem'[s] : idem'[s][j] = idem[s][i]
          BY <3>3, <4>1, <4>2, PushKeeps
        <4>4. LiveKept'
          BY <3>1, <3>2, <4>2, <4>3, BufferKeeps DEF LiveKept
        <4> QED
          BY <3>2, <4>2, <4>3, <4>4 DEF KeyInv, KeyTypes, KeyChargedOnce
      <3> QED
        BY <3>1, <3>2, <3>3, KeysKeep
    <2>4. ASSUME NEW a \in UsageAmounts, ChargeUsageStated(s, a) PROVE KeyInv'
      <3>1. now' = now
        BY <2>4, TimeKept DEF ChargeUsageStated, Funding
      <3> QED
        BY <2>4, <3>1, KeysKeep DEF ChargeUsageStated
    <2>5. CASE CompactBillingStatements(s, keep)
      BY <2>5, KeysKeep DEF CompactBillingStatements, vars
    <2> QED
      BY <1>3, <2>1, <2>2, <2>3, <2>4, <2>5 DEF Receipted
  <1>4. ASSUME NEW n \in KeepChoices, SetBillingRetention(n) PROVE KeyInv'
    BY <1>4, KeysKeep DEF SetBillingRetention, vars
  <1>5. ASSUME NEW t \in TtlChoices, SetIdempotencyTtl(t) PROVE KeyInv'
    <2>1. /\ t \in Nat \ {0} /\ ttl' = t /\ now' = now /\ live' = StillLive(now', t)
          /\ UNCHANGED <<idem, twice>>
      BY <1>5, ReceiptsAssumption DEF SetIdempotencyTtl, vars
    <2> QED
      BY <2>1, LifetimeKeeps
  <1>6. CASE /\ Administration
             /\ live' = StillLive(now', ttl)
             /\ UNCHANGED <<idem, ttl, twice>>
    <2>1. ttl \in Nat \ {0}
      BY DEF KeyInv, KeyTypes
    <2> QED
      BY <1>6, <2>1, LifetimeKeeps
  <1> QED
    BY <1>1, <1>2, <1>3, <1>4, <1>5, <1>6 DEF ReceiptsNext

\* As long as a recorded key has not outlived any lifetime configured since, no
\* charge is made under it again: not by a resubmission, not in a batch, not
\* after a buyout, a full buffer or a change of the lifetime.
THEOREM KeysCorrect == ReceiptsSpec => []KeyChargedOnce
  <1>1. ReceiptsInit => KeyInv
    <2> SUFFICES ASSUME ReceiptsInit PROVE KeyInv
      OBVIOUS
    <2>1. /\ idem \in [Subs -> Seq(Entry)] /\ ttl \in Nat \ {0}
          /\ live \in [Subs -> [Domains \X Keys -> OptTime]]
          /\ \A s \in Subs, h \in Domains \X Keys : live[s][h] = None
          /\ twice = {}
      BY ReceiptsAssumption, Optional, EmptySeq DEF ReceiptsInit
    <2> QED
      BY <2>1 DEF KeyInv, KeyTypes, LiveKept, KeyChargedOnce
  <1>2. IInv /\ KeyInv /\ [ReceiptsNext]_receipted_vars => KeyInv'
    BY KeyStep, InputAssumption DEF IInv, TypeOK
  <1>3. KeyInv => KeyChargedOnce
    BY DEF KeyInv
  <1> QED
    BY <1>1, <1>2, <1>3, ReceiptedIsVault, Inductive, PTL DEF ReceiptsSpec

-----------------------------------------------------------------------------
(* Statements add up.                                                      *)

Row == [kind : Kinds, amount : Nat]
Part(e, K) == IF e.kind \in K THEN e.amount ELSE 0

\* The recursion Total is defined by, up to the n-th statement of q.
IsTotal(q, K, n, g) ==
    g = [i \in 0..n |-> IF i = 0 THEN 0 ELSE g[i - 1] + Part(q[i], K)]

\* The first n members of u are those of q after its first m.
Lies(u, n, q, m) == \A j \in 1..n : u[j] = q[m + j]
AllRows(q, L) == \A i \in 1..L : q[i] \in Row

\* It has a solution for every length.
LEMMA TotalExists ==
    ASSUME NEW q, NEW K, NEW N \in Nat
    PROVE  \E g : IsTotal(q, K, N, g)
  <1> DEFINE T == {n \in Nat : ~ \E g : IsTotal(q, K, n, g)}
  <1>1. SUFFICES ASSUME T # {} PROVE FALSE
    OBVIOUS
  <1>2. PICK n \in T : \A m \in T : n <= m
    <2>1. T \subseteq Nat
      OBVIOUS
    <2> HIDE DEF T
    <2> QED BY <1>1, <2>1, LeastNatural
  <1>3. n # 0
    <2> DEFINE g == [i \in 0..0 |-> 0]
    <2>1. IsTotal(q, K, 0, g)
      BY DEF IsTotal
    <2> QED
      BY <1>2, <2>1
  <1>4. PICK g : IsTotal(q, K, n - 1, g)
    <2>1. n - 1 \in Nat /\ ~(n <= n - 1)
      BY <1>3
    <2> QED
      BY <1>2, <2>1
  <1> DEFINE h == [i \in 0..n |-> IF i = n THEN g[n - 1] + Part(q[n], K) ELSE g[i]]
  <1>5. \A i \in 0..n : h[i] = IF i = 0 THEN 0 ELSE h[i - 1] + Part(q[i], K)
    <2> SUFFICES ASSUME NEW i \in 0..n
                 PROVE  h[i] = IF i = 0 THEN 0 ELSE h[i - 1] + Part(q[i], K)
      OBVIOUS
    <2>1. CASE i = n
      BY <1>3, <2>1
    <2>2. CASE i # n
      <3>1. i \in 0..(n - 1) /\ h[i] = g[i] /\ (i # 0 => h[i - 1] = g[i - 1])
        BY <2>2
      <3>2. g[i] = IF i = 0 THEN 0 ELSE g[i - 1] + Part(q[i], K)
        BY <1>4, <3>1 DEF IsTotal
      <3> QED
        BY <3>1, <3>2
    <2> QED
      BY <2>1, <2>2
  <1>6. IsTotal(q, K, n, h)
    BY <1>5 DEF IsTotal
  <1> QED
    BY <1>2, <1>6

\* Total is what the recursion ends with.
LEMMA TotalIs ==
    ASSUME NEW q, NEW K, Len(q) \in Nat
    PROVE  \E g : IsTotal(q, K, Len(q), g) /\ Total(q, K) = g[Len(q)]
  <1> DEFINE g == CHOOSE f : IsTotal(q, K, Len(q), f)
  <1>1. IsTotal(q, K, Len(q), g)
    BY TotalExists
  <1>2. Total(q, K) = g[Len(q)]
    BY DEF Total, IsTotal, Part
  <1> QED
    BY <1>1, <1>2

\* Statements found in a longer list contribute there what they do alone.
LEMMA TotalShift ==
    ASSUME NEW K, NEW L \in Nat, NEW m \in Nat, NEW n \in Nat, m + n <= L, NEW q, NEW u,
           NEW g, NEW h, IsTotal(q, K, L, g), IsTotal(u, K, n, h),
           Lies(u, n, q, m), AllRows(q, L)
    PROVE  g[m] \in Int /\ h[n] \in Int /\ g[m + n] = g[m] + h[n]
  <1>1. \A i \in 0..L : g[i] \in Int
    <2> DEFINE T == {i \in 0..L : g[i] \notin Int}
    <2>1. SUFFICES ASSUME T # {} PROVE FALSE
      OBVIOUS
    <2>2. PICK i \in T : \A j \in T : i <= j
      <3>1. T \subseteq Nat
        OBVIOUS
      <3> HIDE DEF T
      <3> QED BY <2>1, <3>1, LeastNatural
    <2>3. i # 0
      BY <2>2 DEF IsTotal
    <2>4. i - 1 \in 0..L /\ i - 1 \notin T /\ i \in 1..L
      BY <2>2, <2>3
    <2>5. g[i] = g[i - 1] + Part(q[i], K) /\ g[i - 1] \in Int
      BY <2>3, <2>4 DEF IsTotal
    <2>6. Part(q[i], K) \in Int
      BY <2>4 DEF Part, Row, AllRows
    <2> QED
      BY <2>2, <2>5, <2>6
  <1> DEFINE Fits(j) == h[j] \in Int /\ g[m + j] = g[m] + h[j]
             T == {j \in 0..n : ~Fits(j)}
  <1>2. ASSUME T # {} PROVE FALSE
    <2>1. PICK j \in T : \A i \in T : j <= i
      <3>1. T \subseteq Nat
        OBVIOUS
      <3> HIDE DEF T
      <3> QED BY <1>2, <3>1, LeastNatural
    <2>2. j # 0
      <3>1. h[0] = 0 /\ m + 0 = m /\ g[m] \in Int
        BY <1>1 DEF IsTotal
      <3> QED
        BY <2>1, <3>1
    <2>3. j \in 1..n /\ j - 1 \in 0..n /\ j - 1 \notin T
      BY <2>1, <2>2
    <2>4. Fits(j - 1)
      BY <2>3
    <2>5. m + j \in 1..L /\ m + j # 0 /\ (m + j) - 1 = m + (j - 1) /\ m \in 0..L
      BY <2>3
    <2>6. g[m + j] = g[m + (j - 1)] + Part(q[m + j], K)
      BY <2>5 DEF IsTotal
    <2>7. h[j] = h[j - 1] + Part(u[j], K)
      BY <2>3 DEF IsTotal
    <2>8. Part(q[m + j], K) \in Int /\ u[j] = q[m + j] /\ g[m] \in Int
      BY <1>1, <2>3, <2>5 DEF Part, Row, AllRows, Lies
    <2>9. Fits(j)
      BY <2>4, <2>6, <2>7, <2>8
    <2> QED
      BY <2>1, <2>9
  <1>3. Fits(n)
    BY <1>2
  <1>4. m \in 0..L
    OBVIOUS
  <1> QED
    BY <1>1, <1>3, <1>4

\* So do the first statements.
LEMMA TotalPrefix ==
    ASSUME NEW K, NEW L \in Nat, NEW n \in Nat, n <= L, NEW q, NEW u,
           NEW g, NEW h, IsTotal(q, K, L, g), IsTotal(u, K, n, h),
           Lies(u, n, q, 0), AllRows(q, L)
    PROVE  h[n] \in Int /\ g[n] = h[n]
  <1>1. 0 \in Nat /\ 0 + n <= L /\ 0 + n = n /\ g[0] = 0
    BY DEF IsTotal
  <1>2. h[n] \in Int /\ g[0 + n] = g[0] + h[n]
    BY <1>1, TotalShift
  <1> QED
    BY <1>1, <1>2

\* One more statement adds its amount, if its kind counts.
LEMMA TotalAppend ==
    ASSUME NEW K, NEW q \in Seq(Row), NEW e \in Row
    PROVE  /\ Total(q, K) \in Int
           /\ Total(Append(q, e), K) = Total(q, K) + Part(e, K)
  <1> DEFINE n == Len(q)
             v == Append(q, e)
  <1>1. /\ n \in Nat /\ Len(v) = n + 1 /\ v[n + 1] = e /\ \A j \in 1..n : v[j] = q[j]
        /\ \A i \in 1..(n + 1) : v[i] \in Row
    BY AppendProperties, LenProperties, ElementOfSeq
  <1> HIDE DEF n, v
  <1>2. PICK h : IsTotal(q, K, n, h) /\ Total(q, K) = h[n]
    BY <1>1, TotalIs DEF n
  <1>3. PICK g : IsTotal(v, K, n + 1, g) /\ Total(v, K) = g[n + 1]
    BY <1>1, TotalIs
  <1>4. h[n] \in Int /\ g[n] = h[n]
    <2>1. n + 1 \in Nat /\ n <= n + 1 /\ Lies(q, n, v, 0) /\ AllRows(v, n + 1)
      BY <1>1 DEF Lies, AllRows
    <2> QED
      BY <1>1, <1>2, <1>3, <2>1, TotalPrefix
  <1>5. g[n + 1] = g[n] + Part(v[n + 1], K)
    BY <1>1, <1>3 DEF IsTotal
  <1> QED
    BY <1>1, <1>2, <1>3, <1>4, <1>5 DEF v

\* Cutting a list in two loses nothing.
LEMMA TotalSplit ==
    ASSUME NEW K, NEW q \in Seq(Row), NEW n \in 0..Len(q)
    PROVE  /\ Total(SubSeq(q, 1, n), K) \in Int
           /\ Total(SubSeq(q, n + 1, Len(q)), K) \in Int
           /\ Total(q, K) = Total(SubSeq(q, 1, n), K) + Total(SubSeq(q, n + 1, Len(q)), K)
  <1> DEFINE L == Len(q)
             a == SubSeq(q, 1, n)
             b == SubSeq(q, n + 1, L)
  <1>1. L \in Nat /\ n \in Nat /\ n <= L /\ \A i \in 1..L : q[i] \in Row
    BY LenProperties, ElementOfSeq
  <1>2. /\ a \in Seq(Row) /\ Len(a) = n /\ \A j \in 1..n : a[j] = q[j]
        /\ b \in Seq(Row) /\ Len(b) = L - n /\ \A j \in 1..(L - n) : b[j] = q[n + j]
    <2>1. \A i \in 1..n : q[i] \in Row
      BY <1>1
    <2>2. \A i \in (n + 1)..L : q[i] \in Row
      BY <1>1
    <2>3. Len(a) = n /\ \A j \in 1..n : a[j] = q[1 + j - 1]
      BY <1>1, SubSeqProperties
    <2>4. Len(b) = L - n /\ \A j \in 1..(L - n) : b[j] = q[(n + 1) + j - 1]
      BY <1>1, SubSeqProperties
    <2>5. a \in Seq(Row) /\ b \in Seq(Row)
      BY <2>1, <2>2, SubSeqProperties
    <2>6. \A j \in 1..n : a[j] = q[j]
      BY <1>1, <2>3
    <2>7. \A j \in 1..(L - n) : b[j] = q[n + j]
      BY <1>1, <2>4
    <2> QED
      BY <2>3, <2>4, <2>5, <2>6, <2>7
  <1> HIDE DEF L, a, b
  <1>3. PICK g : IsTotal(q, K, L, g) /\ Total(q, K) = g[L]
    BY <1>1, TotalIs DEF L
  <1>4. PICK h : IsTotal(a, K, n, h) /\ Total(a, K) = h[n]
    BY <1>1, <1>2, TotalIs
  <1>5. PICK d \in Nat : d = L - n
    BY <1>1
  <1>6. PICK k : IsTotal(b, K, d, k) /\ Total(b, K) = k[d]
    BY <1>2, <1>5, TotalIs
  <1>7. h[n] \in Int /\ g[n] = h[n]
    <2>1. Lies(a, n, q, 0) /\ AllRows(q, L)
      BY <1>1, <1>2 DEF Lies, AllRows
    <2> QED
      BY <1>1, <1>3, <1>4, <2>1, TotalPrefix
  <1>8. k[d] \in Int /\ g[n] \in Int /\ g[n + d] = g[n] + k[d]
    <2>1. n + d <= L /\ Lies(b, d, q, n) /\ AllRows(q, L)
      BY <1>1, <1>2, <1>5 DEF Lies, AllRows
    <2> QED
      BY <1>1, <1>3, <1>6, <2>1, TotalShift
  <1>9. n + d = L
    BY <1>1, <1>5
  <1> QED
    BY <1>3, <1>4, <1>6, <1>7, <1>8, <1>9 DEF L, a, b

\* Two kinds together total what they do apart.
LEMMA TotalKinds ==
    ASSUME NEW q \in Seq(Row), NEW x, NEW y, x # y
    PROVE  /\ Total(q, {x}) \in Int /\ Total(q, {y}) \in Int
           /\ Total(q, {x, y}) = Total(q, {x}) + Total(q, {y})
  <1> DEFINE L == Len(q)
  <1>1. L \in Nat /\ \A i \in 1..L : q[i] \in Row
    BY LenProperties, ElementOfSeq
  <1> HIDE DEF L
  <1>2. PICK g : IsTotal(q, {x, y}, L, g) /\ Total(q, {x, y}) = g[L]
    BY <1>1, TotalIs DEF L
  <1>3. PICK h : IsTotal(q, {x}, L, h) /\ Total(q, {x}) = h[L]
    BY <1>1, TotalIs DEF L
  <1>4. PICK k : IsTotal(q, {y}, L, k) /\ Total(q, {y}) = k[L]
    BY <1>1, TotalIs DEF L
  <1> DEFINE Fits(j) == h[j] \in Int /\ k[j] \in Int /\ g[j] = h[j] + k[j]
             T == {j \in 0..L : ~Fits(j)}
  <1>5. ASSUME T # {} PROVE FALSE
    <2>1. PICK j \in T : \A i \in T : j <= i
      <3>1. T \subseteq Nat
        BY <1>1
      <3> HIDE DEF T
      <3> QED BY <1>5, <3>1, LeastNatural
    <2>2. j # 0
      <3>1. g[0] = 0 /\ h[0] = 0 /\ k[0] = 0
        BY <1>1, <1>2, <1>3, <1>4 DEF IsTotal
      <3> QED
        BY <2>1, <3>1
    <2>3. j \in 1..L /\ j - 1 \in 0..L /\ j - 1 \notin T
      BY <1>1, <2>1, <2>2
    <2>4. Fits(j - 1)
      BY <2>3
    <2>5. /\ g[j] = g[j - 1] + Part(q[j], {x, y})
          /\ h[j] = h[j - 1] + Part(q[j], {x})
          /\ k[j] = k[j - 1] + Part(q[j], {y})
      BY <1>1, <1>2, <1>3, <1>4, <2>1, <2>2 DEF IsTotal
    <2>6. /\ Part(q[j], {x}) \in Int /\ Part(q[j], {y}) \in Int
          /\ Part(q[j], {x, y}) = Part(q[j], {x}) + Part(q[j], {y})
      <3>1. q[j].amount \in Int
        BY <1>1, <2>3 DEF Row
      <3> QED
        BY <3>1 DEF Part
    <2>7. Fits(j)
      BY <2>4, <2>5, <2>6
    <2> QED
      BY <2>1, <2>7
  <1>6. Fits(L)
    BY <1>1, <1>5
  <1> QED
    BY <1>2, <1>3, <1>4, <1>6

\* What a subscription's statements and its aggregate add up to.
Charged == {"Interval", "Usage"}
Aggregate == [count : Nat, totals : [Kinds -> Int]]
Accounted(q, p) == Total(q, Charged) + p.totals["Interval"] + p.totals["Usage"]

\* A charge's statement adds its amount, a one-off statement nothing.
LEMMA AccountedAppend ==
    ASSUME NEW q \in Seq(Row), NEW p \in Aggregate, NEW e \in Row
    PROVE  /\ e.kind \in Charged => Accounted(Append(q, e), p) = Accounted(q, p) + e.amount
           /\ e.kind \notin Charged => Accounted(Append(q, e), p) = Accounted(q, p)
  <1>1. /\ Total(q, Charged) \in Int
        /\ Total(Append(q, e), Charged) = Total(q, Charged) + Part(e, Charged)
    BY TotalAppend
  <1>2. p.totals["Interval"] \in Int /\ p.totals["Usage"] \in Int /\ e.amount \in Int
    BY DEF Aggregate, Kinds, Row
  <1>3. CASE e.kind \in Charged
    BY <1>1, <1>2, <1>3 DEF Accounted, Part
  <1>4. CASE e.kind \notin Charged
    BY <1>1, <1>2, <1>4 DEF Accounted, Part
  <1> QED
    BY <1>3, <1>4

\* Compaction moves what it cuts off into the aggregate.
LEMMA AccountedCompact ==
    ASSUME NEW q \in Seq(Row), NEW p \in Aggregate, NEW n \in 0..Len(q)
    PROVE  LET a == SubSeq(q, 1, n)
               b == SubSeq(q, n + 1, Len(q))
           IN  /\ b \in Seq(Row) /\ FoldInto(p, a) \in Aggregate
               /\ Accounted(b, FoldInto(p, a)) = Accounted(q, p)
  <1> DEFINE a == SubSeq(q, 1, n)
             b == SubSeq(q, n + 1, Len(q))
             f == FoldInto(p, a)
  <1>1. /\ a \in Seq(Row) /\ b \in Seq(Row) /\ Len(a) \in Nat
    <2>1. Len(q) \in Nat /\ \A i \in 1..Len(q) : q[i] \in Row
      BY LenProperties, ElementOfSeq
    <2>2. \A i \in 1..n : q[i] \in Row
      BY <2>1
    <2>3. \A i \in (n + 1)..Len(q) : q[i] \in Row
      BY <2>1
    <2> QED
      BY <2>1, <2>2, <2>3, SubSeqProperties, LenProperties
  <1>2. /\ Total(a, Charged) \in Int /\ Total(b, Charged) \in Int
        /\ Total(q, Charged) = Total(a, Charged) + Total(b, Charged)
    BY TotalSplit
  <1>3. /\ Total(a, {"Interval"}) \in Int /\ Total(a, {"Usage"}) \in Int
        /\ Total(a, Charged) = Total(a, {"Interval"}) + Total(a, {"Usage"})
    <2> HIDE DEF a
    <2> QED
      BY <1>1, TotalKinds DEF Charged
  <1>4. Total(a, {"OneOff"}) \in Int
    <2> HIDE DEF a
    <2>1. "OneOff" # "Usage"
      OBVIOUS
    <2> QED
      BY <1>1, <2>1, TotalKinds
  <1> HIDE DEF a, b
  <1>5. /\ f.count = p.count + Len(a)
        /\ f.totals["Interval"] = p.totals["Interval"] + Total(a, {"Interval"})
        /\ f.totals["Usage"] = p.totals["Usage"] + Total(a, {"Usage"})
        /\ f \in Aggregate
    <2>1. /\ p.count \in Nat /\ p.count + Len(a) \in Nat
          /\ \A k \in Kinds : p.totals[k] \in Int
      BY <1>1 DEF Aggregate
    <2>2. \A k \in Kinds : Total(a, {k}) \in Int
      BY <1>3, <1>4 DEF Kinds
    <2>3. [k \in Kinds |-> p.totals[k] + Total(a, {k})] \in [Kinds -> Int]
      BY <2>1, <2>2
    <2>4. /\ f.count = p.count + Len(a)
          /\ f.totals = [k \in Kinds |-> p.totals[k] + Total(a, {k})]
      BY DEF FoldInto
    <2>5. f \in Aggregate
      BY <2>1, <2>3 DEF FoldInto, Aggregate
    <2> HIDE DEF f
    <2>6. "Interval" \in Kinds /\ "Usage" \in Kinds
      BY DEF Kinds
    <2> QED
      BY <2>4, <2>5, <2>6
  <1> HIDE DEF f
  <1>6. p.totals["Interval"] \in Int /\ p.totals["Usage"] \in Int
    BY DEF Aggregate, Kinds
  <1>7. Accounted(b, f) = Accounted(q, p)
    <2>1. PICK i \in Int, u \in Int, x \in Int, y \in Int, z \in Int :
              /\ i = p.totals["Interval"] /\ u = p.totals["Usage"]
              /\ x = Total(a, {"Interval"}) /\ y = Total(a, {"Usage"}) /\ z = Total(b, Charged)
      BY <1>2, <1>3, <1>6, Zenon
    <2>2. Accounted(b, f) = z + (i + x) + (u + y)
      BY <1>5, <2>1 DEF Accounted
    <2>3. Accounted(q, p) = (x + y) + z + i + u
      BY <1>2, <1>3, <2>1 DEF Accounted
    <2> QED
      BY <2>2, <2>3
  <1> QED
    BY <1>1, <1>5, <1>7 DEF a, b, f

\* The inductive invariant: types, and every subscription is accounted for.
StatementTypes ==
    rows \in [Subs -> Seq(Row)] /\ pruned \in [Subs -> Aggregate] /\ keep \in Nat
StatementInv ==
    StatementTypes /\ \A s \in Subs : sub[s].charged = Accounted(rows[s], pruned[s])

\* The invariant says what StatementsReconcile says.
LEMMA StatementInvIs == StatementInv => StatementsReconcile
  <1> SUFFICES ASSUME StatementInv, NEW s \in Subs
               PROVE  sub[s].charged = Stated(s, {"Interval", "Usage"})
    BY DEF StatementsReconcile
  <1>1. Stated(s, {"Interval", "Usage"}) = Accounted(rows[s], pruned[s])
    BY DEF Stated, Accounted, Charged
  <1> QED
    BY <1>1 DEF StatementInv

\* Nothing is charged and nothing is written.
LEMMA StatementsKeep ==
    ASSUME StatementInv, Uncharged, UNCHANGED <<rows, pruned>>, keep' \in Nat
    PROVE  StatementInv'
  BY DEF StatementInv, StatementTypes, Uncharged

\* A statement is written with the charge it is about.
LEMMA StatementWritten ==
    ASSUME StatementInv, NEW s \in Subs, NEW kind \in Kinds, NEW a \in Nat,
           append_statement(s, kind, a), UNCHANGED <<pruned, keep>>,
           \A t \in Subs \ {s} : sub'[t].charged = sub[t].charged,
           kind \in Charged => sub'[s].charged = sub[s].charged + a,
           kind \notin Charged => sub'[s].charged = sub[s].charged
    PROVE  StatementInv'
  <1> DEFINE e == [kind |-> kind, amount |-> a]
  <1>1. e \in Row /\ e.kind = kind /\ e.amount = a
    BY DEF Row
  <1>2. rows \in [Subs -> Seq(Row)] /\ rows' = [rows EXCEPT ![s] = Append(@, e)]
    BY DEF StatementInv, StatementTypes, append_statement
  <1> HIDE DEF e
  <1>3. rows'[s] = Append(rows[s], e) /\ \A t \in Subs \ {s} : rows'[t] = rows[t]
    BY <1>2
  <1>4. rows[s] \in Seq(Row) /\ pruned[s] \in Aggregate
        /\ sub[s].charged = Accounted(rows[s], pruned[s])
    BY DEF StatementInv, StatementTypes
  <1>5. /\ kind \in Charged =>
              Accounted(Append(rows[s], e), pruned[s]) = Accounted(rows[s], pruned[s]) + a
        /\ kind \notin Charged =>
              Accounted(Append(rows[s], e), pruned[s]) = Accounted(rows[s], pruned[s])
    BY <1>1, <1>4, AccountedAppend
  <1>6. sub'[s].charged = Accounted(rows'[s], pruned[s])
    BY <1>3, <1>4, <1>5
  <1>7. \A t \in Subs : sub'[t].charged = Accounted(rows'[t], pruned'[t])
    BY <1>3, <1>6 DEF StatementInv
  <1>8. Append(rows[s], e) \in Seq(Row)
    BY <1>1, <1>4, AppendProperties
  <1>9. rows' \in [Subs -> Seq(Row)]
    BY <1>2, <1>8
  <1> QED
    BY <1>7, <1>9 DEF StatementInv, StatementTypes

\* A compaction changes what a subscription keeps and not what it adds up to.
LEMMA StatementsCompacted ==
    ASSUME StatementInv, NEW s \in Subs, CompactBillingStatements(s, keep)
    PROVE  StatementInv'
  <1> DEFINE n == Len(rows[s]) - keep
             q == SubSeq(rows[s], n + 1, Len(rows[s]))
             p == FoldInto(pruned[s], SubSeq(rows[s], 1, n))
  <1>1. /\ rows \in [Subs -> Seq(Row)] /\ pruned \in [Subs -> Aggregate] /\ keep \in Nat
        /\ rows[s] \in Seq(Row) /\ pruned[s] \in Aggregate
        /\ sub[s].charged = Accounted(rows[s], pruned[s])
    BY DEF StatementInv, StatementTypes
  <1>2. /\ n > 0 /\ rows' = [rows EXCEPT ![s] = q] /\ pruned' = [pruned EXCEPT ![s] = p]
        /\ sub' = sub /\ keep' = keep
    BY DEF CompactBillingStatements, vars
  <1>3. n \in 0..Len(rows[s])
    BY <1>1, <1>2, LenProperties
  <1>4. q \in Seq(Row) /\ p \in Aggregate /\ Accounted(q, p) = Accounted(rows[s], pruned[s])
    <2> HIDE DEF n
    <2> QED
      BY <1>1, <1>3, AccountedCompact
  <1> HIDE DEF p, q, n
  <1>5. /\ rows' \in [Subs -> Seq(Row)] /\ pruned' \in [Subs -> Aggregate]
        /\ rows'[s] = q /\ pruned'[s] = p
        /\ \A t \in Subs \ {s} : rows'[t] = rows[t] /\ pruned'[t] = pruned[t]
    BY <1>1, <1>2, <1>4
  <1>6. \A t \in Subs : sub'[t].charged = Accounted(rows'[t], pruned'[t])
    BY <1>1, <1>2, <1>4, <1>5 DEF StatementInv
  <1> QED
    BY <1>1, <1>2, <1>5, <1>6 DEF StatementInv, StatementTypes

\* Interval and usage charges and buyouts add the amount to `charged`.
LEMMA ChargesAdd ==
    ASSUME IInv, NEW s \in Subs
    PROVE  /\ \A a \in ChargeAmounts : ChargeCollect(s, a) =>
                 /\ sub'[s].charged = sub[s].charged + a
                 /\ \A t \in Subs \ {s} : sub'[t].charged = sub[t].charged
           /\ \A a \in UsageAmounts : ChargeUsage(s, a) =>
                 /\ \A t \in Subs \ {s} : sub'[t].charged = sub[t].charged
                 /\ sub'[s].charged = IF lifetime_cap_allows(sub[s], a)
                                        THEN sub[s].charged + a ELSE sub[s].charged
           /\ \A c \in ChargeAmounts, a \in BuyoutAmounts : GraceBuyout(s, c, a) =>
                 /\ sub'[s].charged = sub[s].charged + c
                 /\ \A t \in Subs \ {s} : sub'[t].charged = sub[t].charged
  <1> DEFINE r == get_subscription(s)
  <1>1. /\ r \in Subscription /\ r.charged \in Nat /\ r.charged = sub[s].charged
        /\ sub \in [Subs -> Subscription]
    BY View, FieldTypes, ViewKeeps DEF IInv, TypeOK
  <1>2. r.cap = sub[s].cap
    BY View DEF get_subscription, Subscription
  <1>3. ASSUME NEW r2, write_subscription(s, r2)
        PROVE  sub'[s].charged = r2.charged
    BY <1>1, <1>3 DEF write_subscription
  <1>4. ASSUME NEW a \in ChargeAmounts, ChargeCollect(s, a)
        PROVE  /\ sub'[s].charged = sub[s].charged + a
               /\ \A t \in Subs \ {s} : sub'[t].charged = sub[t].charged
    <2>1. Collected(r, a).charged = r.charged + a
      <3>1. \A st, d, g : [[r EXCEPT !.prepaid = @ - a, !.charged = @ + a, !.last = now,
                          !.failures = 0, !.chargedPeriod = d,
                          !.closedPeriod = d, !.graceStart = g]
                             EXCEPT !.status = st].charged = r.charged + a
        BY <1>1 DEF Subscription
      <3> QED
        BY <3>1 DEF Collected
    <2>2. write_subscription(s, Collected(r, a))
      BY <1>4 DEF ChargeCollect
    <2> QED
      BY <1>1, <1>3, <2>1, <2>2, OthersUncharged
  <1>5. ASSUME NEW a \in UsageAmounts, ChargeUsage(s, a)
        PROVE  /\ \A t \in Subs \ {s} : sub'[t].charged = sub[t].charged
               /\ sub'[s].charged = IF lifetime_cap_allows(sub[s], a)
                                      THEN sub[s].charged + a ELSE sub[s].charged
    <2>1. lifetime_cap_allows(sub[s], a) <=> lifetime_cap_allows(r, a)
      BY <1>1, <1>2 DEF lifetime_cap_allows
    <2>2. CASE lifetime_cap_allows(r, a)
      <3>1. PICK r2 : write_subscription(s, r2) /\ r2.charged = r.charged + a
        <4>1. \A st : [[r EXCEPT !.prepaid = @ - a, !.charged = @ + a]
                          EXCEPT !.status = st].charged = r.charged + a
          BY <1>1 DEF Subscription
        <4> QED
          BY <1>5, <2>2, <4>1 DEF ChargeUsage
      <3> QED
        BY <1>1, <1>3, <2>1, <2>2, <3>1, OthersUncharged
    <2>3. CASE ~lifetime_cap_allows(r, a)
      <3>1. PICK r2 : write_subscription(s, r2) /\ r2.charged = r.charged
        <4>1. [r EXCEPT !.status = "Cancelled"].charged = r.charged
          BY <1>1 DEF Subscription
        <4> QED
          BY <1>5, <2>3, <4>1 DEF ChargeUsage
      <3> QED
        BY <1>1, <1>3, <2>1, <2>3, <3>1, OthersUncharged
    <2> QED
      BY <2>2, <2>3
  <1>6. ASSUME NEW c \in ChargeAmounts, NEW a \in BuyoutAmounts, GraceBuyout(s, c, a)
        PROVE  /\ sub'[s].charged = sub[s].charged + c
               /\ \A t \in Subs \ {s} : sub'[t].charged = sub[t].charged
    <2>1. \A d : [r EXCEPT !.prepaid = @ + a - c, !.charged = @ + c,
               !.last = now, !.status = "Active", !.graceStart = None,
               !.chargedPeriod = d].charged = r.charged + c
      BY <1>1 DEF Subscription
    <2>2. PICK r2 : write_subscription(s, r2) /\ r2.charged = r.charged + c
      BY <1>6, <2>1 DEF GraceBuyout
    <2> QED
      BY <1>1, <1>3, <2>2, OthersUncharged
  <1> QED
    BY <1>4, <1>5, <1>6

\* Creation takes an id nothing was charged under.
LEMMA CreateUncharged ==
    ASSUME IInv, AbsentInv, NEW s \in Subs, Created(s)
    PROVE  Uncharged
  <1>1. PICK cap \in Caps, trial \in {0} \cup Trials, t \in Times \cup {None} :
             Enter(s, cap, trial, t)
    BY DEF Created
  <1>2. Entered(cap, trial, t).charged = 0
    BY EnteredType
  <1>3. get_subscription(s).charged = 0
    <2>1. sub[s] = Absent
      BY <1>1 DEF Enter, AbsentInv
    <2> QED
      BY <2>1, ViewKeeps DEF Absent
  <1>4. write_subscription(s, Entered(cap, trial, t))
    BY <1>1 DEF Enter, Entered
  <1> QED
    BY <1>2, <1>3, <1>4, WriteUncharged

\* Every step of a subscription keeps what it was charged and stated equal.
LEMMA ReceiptedStates ==
    ASSUME IInv, StatementInv, NEW s \in Subs, Receipted(s)
    PROVE  StatementInv'
  <1>0. ASSUME NEW k \in Keys \cup {None}, NEW a \in ChargeAmounts,
               ChargeSubscription(s, a, k) \/ BatchCharge(s, a, k)
        PROVE  StatementInv'
    <2>1. /\ a \in Nat /\ "Interval" \in Kinds /\ "Interval" \in Charged
      BY InputAssumption DEF Kinds, Charged
    <2>2. ChargeCollect(s, a) /\ append_statement(s, "Interval", a)
          /\ UNCHANGED <<pruned, keep>>
      BY <1>0 DEF ChargeSubscription, BatchCharge
    <2>3. /\ sub'[s].charged = sub[s].charged + a
          /\ \A t \in Subs \ {s} : sub'[t].charged = sub[t].charged
      BY <2>2, ChargesAdd
    <2> QED
      BY <2>1, <2>2, <2>3, StatementWritten
  <1>1. ASSUME NEW k \in Keys \cup {None}, NEW a \in OneOffAmounts,
               ChargeOneOffStated(s, a, k)
        PROVE  StatementInv'
    <2>1. /\ a \in Nat /\ "OneOff" \in Kinds /\ "OneOff" \notin Charged
      BY InputAssumption DEF Kinds, Charged
    <2>2. ChargeOneOff(s, a) /\ append_statement(s, "OneOff", a)
          /\ UNCHANGED <<pruned, keep>>
      BY <1>1 DEF ChargeOneOffStated
    <2>3. \A t \in Subs : sub'[t].charged = sub[t].charged
      BY <2>2 DEF ChargeOneOff
    <2> QED
      BY <2>1, <2>2, <2>3, StatementWritten
  <1>2. ASSUME NEW k \in Keys \cup {None}, NEW c \in ChargeAmounts,
               NEW a \in BuyoutAmounts, GraceBuyoutStated(s, c, a, k)
        PROVE  StatementInv'
    <2>1. /\ c \in Nat /\ "Interval" \in Kinds /\ "Interval" \in Charged
      BY InputAssumption DEF Kinds, Charged
    <2>2. GraceBuyout(s, c, a) /\ append_statement(s, "Interval", c)
          /\ UNCHANGED <<pruned, keep>>
      BY <1>2 DEF GraceBuyoutStated
    <2>3. /\ sub'[s].charged = sub[s].charged + c
          /\ \A t \in Subs \ {s} : sub'[t].charged = sub[t].charged
      BY <2>2, ChargesAdd
    <2> QED
      BY <2>1, <2>2, <2>3, StatementWritten
  <1>3. ASSUME NEW a \in UsageAmounts, ChargeUsageStated(s, a) PROVE StatementInv'
    <2>1. /\ a \in Nat /\ "Usage" \in Kinds /\ "Usage" \in Charged
      BY InputAssumption DEF Kinds, Charged
    <2>2. /\ ChargeUsage(s, a) /\ UNCHANGED <<pruned, keep>>
          /\ IF lifetime_cap_allows(sub[s], a) THEN append_statement(s, "Usage", a)
                                               ELSE UNCHANGED rows
      BY <1>3 DEF ChargeUsageStated
    <2>3. /\ \A t \in Subs \ {s} : sub'[t].charged = sub[t].charged
          /\ sub'[s].charged = IF lifetime_cap_allows(sub[s], a)
                                 THEN sub[s].charged + a ELSE sub[s].charged
      BY <2>2, ChargesAdd
    <2>4. CASE lifetime_cap_allows(sub[s], a)
      BY <2>1, <2>2, <2>3, <2>4, StatementWritten
    <2>5. CASE ~lifetime_cap_allows(sub[s], a)
      <3>1. Uncharged /\ keep' \in Nat
        BY <2>2, <2>3, <2>5 DEF Uncharged, StatementInv, StatementTypes
      <3> QED
        BY <2>2, <2>5, <3>1, StatementsKeep
    <2> QED
      BY <2>4, <2>5
  <1>4. CASE CompactBillingStatements(s, keep)
    BY <1>4, StatementsCompacted
  <1> QED
    BY <1>0, <1>1, <1>2, <1>3, <1>4 DEF Receipted

\* What writes no statement charges nothing.
LEMMA UnreceiptedUncharged ==
    ASSUME IInv, AbsentInv, NEW s \in Subs, Unreceipted(s)
    PROVE  Uncharged
  BY DunningUncharged, ControlUncharged, Creations, CreateUncharged, TransfersMoney
  DEF Unreceipted, MoneyOut, Unearned

\* Every call keeps statements and charges in step.
LEMMA StatementStep ==
    ASSUME IInv, AbsentInv, StatementInv, [ReceiptsNext]_receipted_vars
    PROVE  StatementInv'
  <1>1. CASE UNCHANGED receipted_vars
    BY <1>1 DEF receipted_vars, vars, receipt_vars, StatementInv, StatementTypes
  <1>2. CASE \E s \in Subs : Receipted(s)
    BY <1>2, ReceiptedStates
  <1>3. ASSUME NEW s \in Subs, Unreceipted(s) PROVE StatementInv'
    <2>1. UNCHANGED <<rows, pruned>> /\ keep' \in Nat
      BY <1>3 DEF Unreceipted, receipt_vars, StatementInv, StatementTypes
    <2> QED
      BY <1>3, <2>1, UnreceiptedUncharged, StatementsKeep
  <1>4. ASSUME NEW n \in KeepChoices, SetBillingRetention(n) PROVE StatementInv'
    <2>1. UNCHANGED <<rows, pruned, sub>> /\ keep' \in Nat
      BY <1>4, ReceiptsAssumption DEF SetBillingRetention, vars
    <2> QED
      BY <2>1 DEF StatementInv, StatementTypes
  <1>5. ASSUME NEW t \in TtlChoices, SetIdempotencyTtl(t) PROVE StatementInv'
    BY <1>5 DEF SetIdempotencyTtl, vars, StatementInv, StatementTypes
  <1>6. CASE Administration /\ UNCHANGED <<rows, pruned, keep>>
    <2>1. Uncharged
      BY <1>6, AdministrationMoney DEF MoneyOut
    <2> QED
      BY <1>6, <2>1, StatementsKeep DEF StatementInv, StatementTypes
  <1> QED
    BY <1>1, <1>2, <1>3, <1>4, <1>5, <1>6 DEF ReceiptsNext

\* A subscription's statements, kept and compacted, add up to what it was charged.
THEOREM StatementsCorrect == ReceiptsSpec => []StatementsReconcile
  <1>1. ReceiptsInit => StatementInv /\ AbsentInv
    <2> SUFFICES ASSUME ReceiptsInit PROVE StatementInv /\ AbsentInv
      OBVIOUS
    <2>1. /\ rows \in [Subs -> Seq(Row)] /\ pruned \in [Subs -> Aggregate] /\ keep \in Nat
      <3>1. << >> \in Seq(Row)
        BY EmptySeq
      <3> QED
        BY <3>1 DEF ReceiptsInit, Aggregate
    <2>2. \A s \in Subs : sub[s] = Absent /\ rows[s] = << >>
             /\ pruned[s].totals["Interval"] = 0 /\ pruned[s].totals["Usage"] = 0
      BY DEF ReceiptsInit, Init, Kinds
    <2>3. Total(<< >>, Charged) = 0
      <3>1. Len(<< >>) = 0
        OBVIOUS
      <3>2. PICK g : IsTotal(<< >>, Charged, 0, g) /\ Total(<< >>, Charged) = g[0]
        BY <3>1, TotalIs
      <3> QED
        BY <3>2 DEF IsTotal
    <2> QED
      BY <2>1, <2>2, <2>3 DEF StatementInv, StatementTypes, Accounted, Absent, AbsentInv
  <1>2. IInv /\ AbsentInv /\ StatementInv /\ [ReceiptsNext]_receipted_vars => StatementInv'
    BY StatementStep
  <1>3. IInv /\ AbsentInv /\ [Next]_vars => AbsentInv'
    BY AbsentStep
  <1> QED
    BY <1>1, <1>2, <1>3, StatementInvIs, ReceiptsStep, ReceiptedIsVault, Inductive, PTL
    DEF ReceiptsSpec

-----------------------------------------------------------------------------
(* Usage stays within its limits.                                          *)

\* The calls that fall into a stretch of time.
Within(c, lo, hi) == {i \in DOMAIN c : lo <= c[i] /\ c[i] < hi}

\* Calls are finitely many, and a longer stretch sees no fewer.
LEMMA WithinSize ==
    ASSUME NEW c \in Seq(Nat), NEW A, A \subseteq DOMAIN c, NEW B, B \subseteq A
    PROVE  /\ IsFiniteSet(A) /\ Cardinality(A) \in Nat
           /\ Cardinality(B) \in Nat /\ Cardinality(B) <= Cardinality(A)
  <1>1. Len(c) \in Nat /\ DOMAIN c = 1..Len(c)
    BY LenProperties
  <1>2. IsFiniteSet(DOMAIN c)
    BY <1>1, FS_Interval
  <1> QED
    BY <1>2, FS_Subset, FS_CardinalityType

\* One more call counts where it falls.
LEMMA WithinAppend ==
    ASSUME NEW c \in Seq(Nat), NEW x \in Nat, NEW lo \in Int, NEW hi \in Int
    PROVE  Cardinality(Within(Append(c, x), lo, hi))
             = Cardinality(Within(c, lo, hi)) + (IF lo <= x /\ x < hi THEN 1 ELSE 0)
  <1> DEFINE n == Len(c)
             d == Append(c, x)
             A == Within(c, lo, hi)
  <1>1. n \in Nat /\ DOMAIN c = 1..n
    BY LenProperties
  <1>2. /\ DOMAIN d = 1..(n + 1) /\ d[n + 1] = x /\ \A i \in 1..n : d[i] = c[i]
    BY AppendProperties, LenProperties
  <1>3. IsFiniteSet(A) /\ Cardinality(A) \in Nat /\ (n + 1) \notin A
    <2>1. A \subseteq DOMAIN c /\ A \subseteq A
      BY DEF Within
    <2> HIDE DEF A
    <2> QED
      BY <1>1, <2>1, WithinSize
  <1> HIDE DEF n, d
  <1>4. Within(d, lo, hi) = IF lo <= x /\ x < hi THEN A \cup {n + 1} ELSE A
    <2>1. (n + 1) \in 1..(n + 1) /\ 1..(n + 1) = (1..n) \cup {n + 1}
      BY <1>1
    <2> QED
      BY <1>1, <1>2, <2>1 DEF Within
  <1> HIDE DEF A
  <1>5. CASE lo <= x /\ x < hi
    <2>1. Cardinality(A \cup {n + 1}) = Cardinality(A) + 1
      BY <1>3, FS_AddElement
    <2> QED
      BY <1>4, <1>5, <2>1 DEF A, d
  <1>6. CASE ~(lo <= x /\ x < hi)
    BY <1>3, <1>4, <1>6 DEF A, d
  <1> QED
    BY <1>5, <1>6

\* The calls c under limit l, when the current window began at ws and has
\* counted n: the current window, the stretch before it and any other stretch.
Rated(l, c, ws, n) ==
    /\ \A i \in DOMAIN c : c[i] < ws + l.window
    /\ Cardinality(Within(c, ws, ws + l.window)) <= n
    /\ Cardinality(Within(c, ws, ws + l.window)) <= l.maxCalls
    /\ Cardinality(Within(c, ws - l.window, ws)) <= l.maxCalls
    /\ \A t \in Nat : Cardinality(Within(c, t, t + l.window)) <= 2 * l.maxCalls

\* Without calls any window fits.
LEMMA RatedEmpty ==
    ASSUME NEW l \in Limit, l.maxCalls # None, NEW ws, NEW n \in Nat
    PROVE  Rated(l, << >>, ws, n)
  <1>1. \A lo, hi : Within(<< >>, lo, hi) = {}
    BY DEF Within
  <1>2. Cardinality({}) = 0 /\ l.maxCalls \in Nat
    BY FS_EmptySet DEF Limit, OptTime
  <1>3. \A lo, hi : Cardinality(Within(<< >>, lo, hi)) = 0
    BY <1>1, <1>2
  <1>4. 0 <= l.maxCalls /\ 0 <= 2 * l.maxCalls /\ 0 <= n
    BY <1>2
  <1>5. \A i \in DOMAIN << >> : << >>[i] < ws + l.window
    OBVIOUS
  <1> QED
    BY <1>3, <1>4, <1>5, Zenon DEF Rated

\* A window begun when the previous one has run out has seen no call yet.
LEMMA RatedRolls ==
    ASSUME NEW l \in Limit, l.maxCalls # None, l.window > 0, NEW c \in Seq(Nat),
           NEW ws \in Nat, NEW n \in Nat, Rated(l, c, ws, n),
           NEW x \in Nat, x >= ws + l.window
    PROVE  Rated(l, c, x, 0)
  <1> DEFINE w == l.window
  <1>1. w \in Nat /\ l.maxCalls \in Nat /\ \A i \in DOMAIN c : c[i] \in Nat
    BY ElementOfSeq, LenProperties DEF Limit, OptTime
  <1>2. \A i \in DOMAIN c : c[i] < ws + w
    BY DEF Rated
  <1>3. \A i \in DOMAIN c : c[i] < x + w
    BY <1>1, <1>2
  <1>4. Cardinality(Within(c, x, x + w)) = 0
    <2>1. Within(c, x, x + w) = {}
      BY <1>1, <1>2 DEF Within
    <2> QED
      BY <2>1, FS_EmptySet
  <1>5. Cardinality(Within(c, x - w, x)) <= l.maxCalls
    <2>1. /\ Within(c, ws, ws + w) \subseteq DOMAIN c
          /\ Within(c, x - w, x) \subseteq Within(c, ws, ws + w)
      BY <1>1, <1>2 DEF Within
    <2>2. /\ Cardinality(Within(c, ws, ws + w)) \in Nat
          /\ Cardinality(Within(c, x - w, x)) \in Nat
          /\ Cardinality(Within(c, x - w, x)) <= Cardinality(Within(c, ws, ws + w))
      BY <2>1, WithinSize
    <2>3. Cardinality(Within(c, ws, ws + w)) <= l.maxCalls
      BY DEF Rated
    <2> QED
      BY <1>1, <2>2, <2>3
  <1>6. \A t \in Nat : Cardinality(Within(c, t, t + w)) <= 2 * l.maxCalls
    BY DEF Rated
  <1>7. 0 <= 0 /\ 0 <= l.maxCalls
    BY <1>1
  <1> QED
    BY <1>3, <1>4, <1>5, <1>6, <1>7, Zenon DEF Rated

\* A call in the current window, which has not reached its limit yet.
LEMMA RatedCalls ==
    ASSUME NEW l \in Limit, l.maxCalls # None, l.window > 0, NEW c \in Seq(Nat),
           NEW ws \in Nat, NEW n \in Nat, Rated(l, c, ws, n), n < l.maxCalls,
           NEW x \in Nat, ws <= x, x < ws + l.window
    PROVE  Rated(l, Append(c, x), ws, n + 1)
  <1> DEFINE w == l.window
             m == l.maxCalls
             d == Append(c, x)
             In(lo, hi) == Cardinality(Within(c, lo, hi))
             Out(lo, hi) == Cardinality(Within(d, lo, hi))
  <1>1. w \in Nat /\ m \in Nat /\ \A i \in DOMAIN c : c[i] \in Nat
    BY ElementOfSeq, LenProperties DEF Limit, OptTime
  <1>2. \A lo \in Int, hi \in Int :
           /\ Out(lo, hi) = In(lo, hi) + (IF lo <= x /\ x < hi THEN 1 ELSE 0)
           /\ In(lo, hi) \in Nat
    <2> SUFFICES ASSUME NEW lo \in Int, NEW hi \in Int
                 PROVE  /\ Out(lo, hi) = In(lo, hi) + (IF lo <= x /\ x < hi THEN 1 ELSE 0)
                        /\ In(lo, hi) \in Nat
      OBVIOUS
    <2>1. Within(c, lo, hi) \subseteq DOMAIN c
      BY DEF Within
    <2> QED
      BY <2>1, WithinSize, WithinAppend
  <1>3. /\ \A i \in DOMAIN c : c[i] < ws + w
        /\ In(ws, ws + w) <= n /\ In(ws, ws + w) <= m /\ In(ws - w, ws) <= m
        /\ \A t \in Nat : In(t, t + w) <= 2 * m
    BY DEF Rated
  <1>4. \A t \in Nat : t + w > x => In(t, t + w) <= In(ws - w, ws) + In(ws, ws + w)
    <2> SUFFICES ASSUME NEW t \in Nat, t + w > x
                 PROVE  In(t, t + w) <= In(ws - w, ws) + In(ws, ws + w)
      OBVIOUS
    <2> DEFINE A == Within(c, ws - w, ws)
               B == Within(c, ws, ws + w)
               C == Within(c, t, t + w)
    <2>1. A \cup B \subseteq DOMAIN c /\ A \subseteq A \cup B /\ B \subseteq A \cup B
      BY DEF Within
    <2>2. C \subseteq A \cup B
      BY <1>1, <1>3 DEF Within
    <2> HIDE DEF A, B, C
    <2>3. /\ IsFiniteSet(A \cup B) /\ Cardinality(C) \in Nat
          /\ Cardinality(C) <= Cardinality(A \cup B)
      BY <2>1, <2>2, WithinSize
    <2>4. IsFiniteSet(A) /\ IsFiniteSet(B)
      BY <2>1, <2>3, FS_Subset
    <2>5. Cardinality(A \cup B) <= Cardinality(A) + Cardinality(B)
      <3>1. /\ Cardinality(A \cup B)
                 = Cardinality(A) + Cardinality(B) - Cardinality(A \cap B)
            /\ Cardinality(A \cap B) \in Nat /\ Cardinality(A) \in Nat
            /\ Cardinality(B) \in Nat
        BY <2>4, FS_Union, FS_Intersection, FS_CardinalityType
      <3> QED
        BY <3>1
    <2>6. Cardinality(A) \in Nat /\ Cardinality(B) \in Nat /\ Cardinality(A \cup B) \in Nat
      BY <2>3, <2>4, FS_CardinalityType
    <2> QED
      BY <2>3, <2>5, <2>6 DEF A, B, C
  <1> HIDE DEF In, Out, m, w
  <1>5. \A i \in DOMAIN d : d[i] < ws + w
    <2>1. Len(c) \in Nat /\ DOMAIN c = 1..Len(c)
      BY LenProperties
    <2>2. DOMAIN d = 1..(Len(c) + 1) /\ d[Len(c) + 1] = x /\ \A i \in 1..Len(c) : d[i] = c[i]
      BY AppendProperties, LenProperties
    <2>3. x < ws + w
      BY DEF w
    <2> HIDE DEF d
    <2> QED
      BY <1>3, <2>1, <2>2, <2>3
  <1>6. ws + w \in Int /\ ws - w \in Int /\ x < ws + w /\ n < m /\ ~(x < ws)
    BY <1>1 DEF w, m
  <1>7. Out(ws, ws + w) <= n + 1 /\ Out(ws, ws + w) <= m
    <2>1. Out(ws, ws + w) = In(ws, ws + w) + 1 /\ In(ws, ws + w) \in Nat
      BY <1>2, <1>6
    <2>2. PICK k \in Nat : k = In(ws, ws + w)
      BY <2>1
    <2>3. k <= n /\ k + 1 <= m
      BY <1>1, <1>3, <1>6, <2>2
    <2> QED
      BY <2>1, <2>2, <2>3
  <1>8. Out(ws - w, ws) <= m
    <2>1. Out(ws - w, ws) = In(ws - w, ws) + 0 /\ In(ws - w, ws) \in Nat
      BY <1>2, <1>6
    <2> QED
      BY <1>1, <1>3, <2>1
  <1>9. ASSUME NEW t \in Nat PROVE Out(t, t + w) <= 2 * m
    <2>1. t + w \in Int /\ t \in Int
      BY <1>1
    <2>2. /\ Out(t, t + w) = In(t, t + w) + (IF t <= x /\ x < t + w THEN 1 ELSE 0)
          /\ In(t, t + w) \in Nat
      BY <1>2, <2>1
    <2>3. In(ws - w, ws) \in Nat /\ In(ws, ws + w) \in Nat
      BY <1>2, <1>6
    <2>4. PICK i \in Nat, j \in Nat, k \in Nat :
            i = In(t, t + w) /\ j = In(ws - w, ws) /\ k = In(ws, ws + w)
      BY <2>2, <2>3, Zenon
    <2>5. j <= m /\ k <= n /\ i <= 2 * m
      BY <1>3, <2>4
    <2>6. CASE t <= x /\ x < t + w
      <3>1. i <= j + k
        BY <1>4, <2>1, <2>4, <2>6
      <3>2. i + 1 <= 2 * m
        BY <1>1, <1>6, <2>5, <3>1
      <3> QED
        BY <2>2, <2>4, <2>6, <3>2
    <2>7. CASE ~(t <= x /\ x < t + w)
      BY <2>2, <2>4, <2>5, <2>7
    <2> QED
      BY <2>6, <2>7
  <1> QED
    BY <1>5, <1>7, <1>8, <1>9 DEF Rated, In, Out, w, m, d

\* What a subscription's usage state says about the calls made: never ahead of
\* the clock; nothing called before it is first written; the units of the last
\* capped period are among its own; and the calls fit its window.
MeterOf(s) ==
    LET l == limits[s].limit IN
    /\ usage[s].windowStart <= now /\ usage[s].period <= period_index(sub[s])
    /\ ~Exists(s) => usage[s].period = None
    /\ usage[s].period = None => calls[s] = << >> /\ capped[s].units = 0
    /\ capped[s].units > 0 => capped[s].period <= usage[s].period
    /\ capped[s].period = usage[s].period => capped[s].units <= usage[s].units
    /\ l.maxCalls # None /\ l.window > 0 =>
          Rated(l, calls[s], usage[s].windowStart, usage[s].count)
MeterInv == MeteringTypeOK /\ \A s \in Subs : MeterOf(s)

\* Division keeps an order.
LEMMA DivGrows ==
    ASSUME NEW x \in Nat, NEW y \in Nat, x <= y, NEW d \in Nat \ {0}
    PROVE  /\ x \div d \in Nat /\ x \div d <= y \div d
           /\ y \div d <= y
  <1> DEFINE a == x \div d
             b == y \div d
             e == x % d
             f == y % d
  <1>1. /\ a \in Nat /\ b \in Nat /\ e \in 0..(d - 1) /\ f \in 0..(d - 1)
        /\ x = d * a + e /\ y = d * b + f
    OBVIOUS
  <1> HIDE DEF a, b, e, f
  <1>2. a <= b
    <2>1. SUFFICES ASSUME a >= b + 1 PROVE FALSE
      BY <1>1
    <2>2. d * a >= d * (b + 1)
      BY <1>1, <2>1
    <2>3. d * (b + 1) = d * b + d
      BY <1>1
    <2> QED
      BY <1>1, <2>2, <2>3
  <1>3. b <= y
    <2>1. d * b >= b
      BY <1>1
    <2> QED
      BY <1>1, <2>1
  <1> QED
    BY <1>1, <1>2, <1>3 DEF a, b

\* The current billing period is one of the periods.
LEMMA PeriodOf ==
    ASSUME IInv, NEW s \in Subs
    PROVE  period_index(sub[s]) \in Nat /\ period_index(sub[s]) \in Periods /\ now \in Nat
  <1>1. /\ sub[s].start \in Nat /\ now \in 0..MaxTime /\ MaxTime \in Nat
        /\ sub[s].start <= now /\ Interval \in Nat \ {0}
    <2>1. InCalendar(sub[s], now) /\ sub[s] \in Subscription /\ now \in 0..MaxTime
      BY DEF IInv, TypeOK, BillingCalendar
    <2> QED
      BY <2>1, FieldTypes, InputAssumption, ConfigAssumption DEF InCalendar
  <1>2. now - sub[s].start \in Nat /\ now - sub[s].start <= now
    BY <1>1
  <1>3. /\ (now - sub[s].start) \div Interval \in Nat
        /\ (now - sub[s].start) \div Interval <= now - sub[s].start
    BY <1>1, <1>2, DivGrows
  <1> QED
    BY <1>1, <1>2, <1>3 DEF period_index, Periods

\* Every subscription is in a billing period.
PeriodsTyped == \A s \in Subs : period_index(sub[s]) \in Nat

\* That is a consequence of the types.
LEMMA PeriodType == IInv => PeriodsTyped
  BY PeriodOf DEF PeriodsTyped

\* A subscription's billing period only grows.
LEMMA PeriodGrows ==
    ASSUME IInv, IInv', SubStep, NEW s \in Subs, Exists(s)
    PROVE  period_index(sub[s]) <= period_index(sub[s])'
  <1>1. sub'[s].start = sub[s].start /\ now' >= now
    BY DEF SubStep
  <1>2. /\ sub[s].start \in Nat /\ now \in Nat /\ now' \in Nat /\ sub[s].start <= now
        /\ Interval \in Nat \ {0}
    <2>1. InCalendar(sub[s], now) /\ sub[s] \in Subscription /\ now \in Nat /\ now' \in Nat
      BY InputAssumption DEF IInv, TypeOK, BillingCalendar
    <2> QED
      BY <2>1, FieldTypes, ConfigAssumption DEF InCalendar
  <1>3. PICK y \in Nat : y = now'
    BY <1>2, Zenon
  <1>4. /\ now - sub[s].start \in Nat /\ y - sub[s].start \in Nat
        /\ now - sub[s].start <= y - sub[s].start
    BY <1>1, <1>2, <1>3
  <1>5. (now - sub[s].start) \div Interval <= (y - sub[s].start) \div Interval
    BY <1>2, <1>4, DivGrows
  <1> QED
    BY <1>1, <1>3, <1>5 DEF period_index

\* An id that is taken stays taken.
LEMMA ExistsStays ==
    ASSUME SubStep, NEW t \in Subs, Exists(t)
    PROVE  Exists(t)'
  <1>1. SUFFICES ASSUME ~Exists(t)' PROVE FALSE
    OBVIOUS
  <1>2. Observed!Allowed(EffectiveStatus(sub[t]), EffectiveStatus(sub[t])')
    BY DEF SubStep
  <1>3. EffectiveStatus(sub[t]) # "Absent" /\ EffectiveStatus(sub[t])' = "Absent"
    BY <1>1 DEF Exists, EffectiveStatus
  <1> QED
    BY <1>2, <1>3, NoReturn

\* The types of one subscription's keys.
LEMMA MeterTypes ==
    ASSUME MeteringTypeOK, NEW s \in Subs
    PROVE  /\ limits[s].limit \in Limit /\ limits[s].limit.maxCalls \in OptTime
           /\ limits[s].limit.window \in Nat /\ limits[s].limit.cap \in OptTime
           /\ usage[s] \in UsageState /\ usage[s].windowStart \in Nat
           /\ usage[s].count \in Nat /\ usage[s].units \in Nat /\ usage[s].period \in OptTime
           /\ capped[s] \in [period : Nat, units : Nat] /\ capped[s].period \in Nat
           /\ capped[s].units \in Nat /\ calls[s] \in Seq(Nat)
  BY DEF MeteringTypeOK, UsageLimits, UsageState, Limit

\* Time passes and other subscriptions are metered.
LEMMA MeterKeeps ==
    ASSUME IInv, IInv', SubStep, MeteringTypeOK, NEW s \in Subs, MeterOf(s),
           limits'[s] = limits[s], usage'[s] = usage[s], capped'[s] = capped[s],
           calls'[s] = calls[s]
    PROVE  MeterOf(s)'
  <1>1. /\ usage[s].windowStart \in Nat /\ usage[s].period \in OptTime
        /\ now \in Nat /\ now' \in Nat /\ now <= now' /\ period_index(sub[s]) \in Nat
    BY MeterTypes, PeriodOf, InputAssumption DEF SubStep, IInv, TypeOK
  <1>2. period_index(sub[s])' \in Nat
    <2>1. PeriodsTyped'
      BY PeriodType, PTL
    <2> QED
      BY <2>1 DEF PeriodsTyped
  <1>3. usage[s].windowStart <= now'
    <2>1. PICK y \in Nat : y = now'
      BY <1>1, Zenon
    <2>2. usage[s].windowStart <= now /\ now <= y
      BY <1>1, <2>1 DEF MeterOf
    <2> QED
      BY <1>1, <2>1, <2>2
  <1>4. usage[s].period <= period_index(sub[s])'
    <2>1. PICK y \in Nat : y = period_index(sub[s])'
      BY <1>2, Zenon
    <2>2. CASE usage[s].period = None
      BY <2>1, <2>2 DEF None
    <2>3. CASE usage[s].period # None
      <3>1. Exists(s) /\ usage[s].period <= period_index(sub[s])
        BY <2>3 DEF MeterOf
      <3>2. period_index(sub[s]) <= y
        BY <2>1, <3>1, PeriodGrows
      <3> QED
        BY <1>1, <2>1, <3>1, <3>2 DEF OptTime, None
    <2> QED
      BY <2>2, <2>3
  <1>5. ~Exists(s)' => usage[s].period = None
    BY ExistsStays DEF MeterOf
  <1> QED
    BY <1>3, <1>4, <1>5 DEF MeterOf

\* A call finds a state rolled to its window and, under a cap, to its period.
CappedFits(k, st) ==
    /\ k.units > 0 => k.period <= st.period
    /\ k.period = st.period => k.units <= st.units
Windowed(l, c, st) ==
    l.maxCalls # None /\ l.window > 0 => Rated(l, c, st.windowStart, st.count)

\* The state a usage call is checked against, after its window and period have rolled.
LEMMA RolledFacts ==
    ASSUME IInv, MeteringTypeOK, NEW s \in Subs, MeterOf(s)
    PROVE  LET l == limits[s].limit
               p == period_index(sub[s])
               st == Rolled(s)
           IN  /\ st \in UsageState /\ st.windowStart <= now
               /\ st.period # None /\ st.period <= p
               /\ CappedFits(capped[s], st)
               /\ Windowed(l, calls[s], st)
               /\ l.maxCalls # None /\ l.window > 0 => now < st.windowStart + l.window
               /\ l.cap # None => st.period = p
  <1> DEFINE l == limits[s].limit
             p == period_index(sub[s])
             u == UsageStateOf(s)
             w == RollWindow(l, u)
             st == RollPeriod(l, w, p)
  <1>1. /\ p \in Nat /\ now \in Nat /\ l \in Limit /\ l.maxCalls \in OptTime
        /\ l.window \in Nat /\ l.cap \in OptTime /\ usage[s] \in UsageState
        /\ usage[s].period \in OptTime /\ usage[s].windowStart \in Nat
        /\ capped[s].period \in Nat /\ capped[s].units \in Nat /\ calls[s] \in Seq(Nat)
    BY PeriodOf, MeterTypes
  <1>2. /\ u \in UsageState /\ u.windowStart <= now /\ u.period # None /\ u.period <= p
        /\ CappedFits(capped[s], u) /\ Windowed(l, calls[s], u)
    <2>1. CASE usage[s].period # None
      BY <2>1 DEF UsageStateOf, MeterOf, CappedFits, Windowed, MeteringTypeOK
    <2>2. CASE usage[s].period = None
      <3>1. u = [NoUsage EXCEPT !.windowStart = now, !.period = p]
        BY <2>2 DEF UsageStateOf
      <3>2. u = [last |-> 0, windowStart |-> now, count |-> 0, units |-> 0, period |-> p]
        BY <3>1 DEF NoUsage
      <3> HIDE DEF u, p, l
      <3>3. /\ u \in UsageState /\ u.windowStart = now /\ u.period = p /\ u.count = 0
            /\ u.units = 0
        BY <1>1, <3>2 DEF UsageState, OptTime
      <3>4. capped[s].units = 0 /\ calls[s] = << >>
        BY <2>2 DEF MeterOf
      <3>5. Windowed(l, calls[s], u)
        BY <1>1, <3>3, <3>4, RatedEmpty DEF Windowed
      <3>6. CappedFits(capped[s], u)
        BY <1>1, <3>3, <3>4 DEF CappedFits
      <3> QED
        BY <1>1, <3>3, <3>5, <3>6 DEF None
    <2> QED
      BY <2>1, <2>2
  <1> HIDE DEF u
  <1>3. u.windowStart \in Nat /\ u.count \in Nat /\ u.units \in Nat /\ u.period \in Nat
    BY <1>2 DEF UsageState, OptTime
  <1>4. /\ w \in UsageState /\ w.windowStart <= now /\ w.period = u.period
        /\ w.units = u.units /\ Windowed(l, calls[s], w)
        /\ l.maxCalls # None /\ l.window > 0 => now < w.windowStart + l.window
    <2>1. CASE l.maxCalls # None /\ now >= u.windowStart + l.window
      <3>1. w = [u EXCEPT !.windowStart = now, !.count = 0]
        BY <2>1 DEF RollWindow
      <3> HIDE DEF w, l, st, p
      <3>2. /\ w \in UsageState /\ w.windowStart = now /\ w.count = 0
            /\ w.period = u.period /\ w.units = u.units
        BY <1>1, <1>2, <3>1 DEF UsageState
      <3>3. ASSUME l.window > 0 PROVE Rated(l, calls[s], now, 0)
        <4>1. Rated(l, calls[s], u.windowStart, u.count)
          BY <1>2, <2>1, <3>3 DEF Windowed
        <4> QED
          BY <1>1, <1>3, <2>1, <3>3, <4>1, RatedRolls
      <3>4. Windowed(l, calls[s], w)
        BY <3>2, <3>3 DEF Windowed
      <3> QED
        BY <1>1, <3>2, <3>4
    <2>2. CASE ~(l.maxCalls # None /\ now >= u.windowStart + l.window)
      <3>1. w = u
        BY <2>2 DEF RollWindow
      <3> HIDE DEF w, l
      <3> QED
        BY <1>1, <1>2, <1>3, <2>2, <3>1
    <2> QED
      BY <2>1, <2>2
  <1> HIDE DEF w
  <1>5. /\ st \in UsageState /\ st.windowStart = w.windowStart /\ st.count = w.count
        /\ st.period # None /\ st.period <= p /\ CappedFits(capped[s], st)
        /\ l.cap # None => st.period = p
    <2>1. CASE l.cap # None /\ p > w.period
      <3>1. st = [w EXCEPT !.period = p, !.units = 0]
        BY <2>1 DEF RollPeriod
      <3> HIDE DEF p, l, st
      <3>2. /\ st \in UsageState /\ st.windowStart = w.windowStart /\ st.count = w.count
            /\ st.period = p /\ st.units = 0
        BY <1>1, <1>4, <3>1 DEF UsageState, OptTime
      <3>3. capped[s].units > 0 => capped[s].period <= u.period
        BY <1>2 DEF CappedFits
      <3>4. CappedFits(capped[s], st)
        BY <1>1, <1>3, <1>4, <2>1, <3>2, <3>3 DEF CappedFits
      <3> QED
        BY <1>1, <3>2, <3>4 DEF None
    <2>2. CASE ~(l.cap # None /\ p > w.period)
      <3>1. st = w
        BY <2>2 DEF RollPeriod
      <3> HIDE DEF p, l, st
      <3>2. CappedFits(capped[s], st)
        BY <1>2, <1>4, <3>1 DEF CappedFits
      <3> QED
        BY <1>1, <1>2, <1>3, <1>4, <2>2, <3>1, <3>2
    <2> QED
      BY <2>1, <2>2
  <1>6. Rolled(s) = st
    BY DEF Rolled, w, u
  <1> HIDE DEF st, p, l
  <1>7. Windowed(l, calls[s], st)
    BY <1>4, <1>5 DEF Windowed
  <1> QED
    BY <1>4, <1>5, <1>6, <1>7 DEF l, p

\* A refused call leaves the rolled state; a charge counts against it.
LEMMA RefuseMeters ==
    ASSUME IInv, MeteringTypeOK, NEW s \in Subs, MeterOf(s), NEW a, NEW ref,
           RefuseOverPeriodCap(s, a, ref)
    PROVE  MeteringTypeOK' /\ MeterOf(s)'
  <1> DEFINE st == Rolled(s)
             l == limits[s].limit
  <1>1. /\ st \in UsageState /\ st.windowStart <= now
        /\ st.period # None /\ st.period <= period_index(sub[s])
        /\ CappedFits(capped[s], st) /\ Windowed(l, calls[s], st)
    BY RolledFacts
  <1>2. /\ usage' = [usage EXCEPT ![s] = st] /\ UNCHANGED <<vars, limits, refs, snapshot>>
        /\ UNCHANGED <<capped, calls, inherited>> /\ Exists(s)
    BY DEF RefuseOverPeriodCap, UsageAllowed, ChargeAllowed
  <1> HIDE DEF st
  <1>3. usage' \in [Subs -> UsageState] /\ usage'[s] = st
    BY <1>1, <1>2 DEF MeteringTypeOK
  <1>4. sub' = sub /\ now' = now
    BY <1>2 DEF vars
  <1>5. MeteringTypeOK'
    BY <1>2, <1>3 DEF MeteringTypeOK
  <1>6. period_index(sub[s])' = period_index(sub[s]) /\ Exists(s)'
    BY <1>2, <1>4 DEF period_index, Exists
  <1> QED
    BY <1>1, <1>2, <1>3, <1>4, <1>5, <1>6 DEF MeterOf, CappedFits, Windowed

\* What a charge that goes through adds under a cap was within it.
LEMMA CappedGrows ==
    ASSUME IInv, MeteringTypeOK, NEW s \in Subs, MeterOf(s), NEW a \in Nat, CapAllows(s, a)
    PROVE  LET k == CountCapped(s, a)[s]
               st == Rolled(s)
           IN  /\ k \in [period : Nat, units : Nat]
               /\ CountCapped(s, a) \in [Subs -> [period : Nat, units : Nat]]
               /\ \A t \in Subs \ {s} : CountCapped(s, a)[t] = capped[t]
               /\ CappedFits(k, RecordUsage(st, a))
               /\ limits[s].limit.cap # None => k.units <= limits[s].limit.cap
  <1> DEFINE l == limits[s].limit
             p == period_index(sub[s])
             st == Rolled(s)
             u == RecordUsage(st, a)
             b == IF capped[s].period = p THEN capped[s].units ELSE 0
             C == CountCapped(s, a)
  <1>1. /\ st \in UsageState /\ st.period # None /\ st.period <= p
        /\ CappedFits(capped[s], st) /\ (l.cap # None => st.period = p)
    BY RolledFacts
  <1>2. /\ p \in Nat /\ l.cap \in OptTime /\ capped[s] \in [period : Nat, units : Nat]
        /\ capped[s].period \in Nat /\ capped[s].units \in Nat
        /\ capped \in [Subs -> [period : Nat, units : Nat]]
    BY PeriodOf, MeterTypes DEF MeteringTypeOK
  <1>3. l.cap # None => st.units + a <= l.cap
    BY DEF CapAllows
  <1>4. C = IF l.cap = None THEN capped
            ELSE [capped EXCEPT ![s] = [period |-> p, units |-> b + a]]
    BY DEF CountCapped
  <1> HIDE DEF l, p, C, st
  <1>5. st.period \in Nat /\ st.units \in Nat
    BY <1>1 DEF UsageState, OptTime
  <1>6. u.period = st.period /\ u.units = st.units + a
    BY <1>1 DEF RecordUsage, UsageState
  <1> HIDE DEF u
  <1>7. CASE l.cap = None
    <2>1. C = capped
      BY <1>4, <1>7
    <2>2. CappedFits(capped[s], u)
      BY <1>1, <1>2, <1>5, <1>6 DEF CappedFits
    <2> QED
      BY <1>2, <1>7, <2>1, <2>2 DEF C, u, st, l
  <1>8. CASE l.cap # None
    <2>1. b \in Nat /\ b <= st.units
      BY <1>1, <1>2, <1>5, <1>8 DEF CappedFits
    <2> HIDE DEF b
    <2>2. C = [capped EXCEPT ![s] = [period |-> p, units |-> b + a]]
      BY <1>4, <1>8
    <2>3. /\ C[s] = [period |-> p, units |-> b + a]
          /\ C \in [Subs -> [period : Nat, units : Nat]]
          /\ \A t \in Subs \ {s} : C[t] = capped[t]
      BY <1>2, <2>1, <2>2
    <2>4. C[s].period = p /\ C[s].units = b + a /\ C[s] \in [period : Nat, units : Nat]
      BY <1>2, <2>1, <2>3
    <2>5. /\ C[s].units <= st.units + a /\ C[s].units <= l.cap
      BY <1>2, <1>3, <1>5, <1>8, <2>1, <2>4 DEF OptTime, None
    <2>6. CappedFits(C[s], u)
      BY <1>1, <1>2, <1>6, <1>8, <2>4, <2>5 DEF CappedFits
    <2> QED
      BY <2>3, <2>4, <2>5, <2>6 DEF C, u, st, l
  <1> QED
    BY <1>7, <1>8

\* One more call, in a window that has room for it.
LEMMA CallFits ==
    ASSUME IInv, MeteringTypeOK, NEW s \in Subs, MeterOf(s), NEW a \in Nat, RateAllows(s)
    PROVE  /\ Windowed(limits[s].limit, Append(calls[s], now), RecordUsage(Rolled(s), a))
           /\ Windowed(limits[s].limit, calls[s], RecordUsage(Rolled(s), a))
  <1> DEFINE l == limits[s].limit
             st == Rolled(s)
             u == RecordUsage(st, a)
  <1>1. /\ st \in UsageState /\ st.windowStart <= now /\ Windowed(l, calls[s], st)
        /\ (l.maxCalls # None /\ l.window > 0 => now < st.windowStart + l.window)
    BY RolledFacts
  <1>2. l \in Limit /\ l.maxCalls \in OptTime /\ l.window \in Nat /\ calls[s] \in Seq(Nat)
        /\ now \in Nat
    BY MeterTypes, PeriodOf
  <1>3. l.maxCalls # None => st.count < l.maxCalls
    BY DEF RateAllows
  <1> HIDE DEF l, st
  <1>4. st.windowStart \in Nat /\ st.count \in Nat
    BY <1>1 DEF UsageState
  <1>5. u.windowStart = st.windowStart /\ u.count = st.count + 1
    BY <1>1 DEF RecordUsage, UsageState
  <1> HIDE DEF u
  <1>6. ASSUME l.maxCalls # None, l.window > 0
        PROVE  Rated(l, Append(calls[s], now), st.windowStart, st.count + 1)
    <2>1. Rated(l, calls[s], st.windowStart, st.count)
      BY <1>1, <1>6 DEF Windowed
    <2> QED
      BY <1>1, <1>2, <1>3, <1>4, <1>6, <2>1, RatedCalls
  <1>7. ASSUME l.maxCalls # None, l.window > 0
        PROVE  Rated(l, calls[s], st.windowStart, st.count + 1)
    <2>1. Rated(l, calls[s], st.windowStart, st.count)
      BY <1>1, <1>7 DEF Windowed
    <2>2. Cardinality(Within(calls[s], st.windowStart, st.windowStart + l.window))
            <= st.count + 1
      <3> DEFINE A == Within(calls[s], st.windowStart, st.windowStart + l.window)
      <3>1. A \subseteq DOMAIN calls[s] /\ A \subseteq A
        BY DEF Within
      <3>2. Cardinality(A) <= st.count
        BY <2>1 DEF Rated
      <3> HIDE DEF A
      <3>3. Cardinality(A) \in Nat
        BY <1>2, <3>1, WithinSize
      <3>4. Cardinality(A) <= st.count + 1
        BY <1>4, <3>2, <3>3
      <3> QED
        BY <3>4 DEF A
    <2> QED
      BY <2>1, <2>2 DEF Rated
  <1> QED
    BY <1>5, <1>6, <1>7 DEF Windowed, u, st, l

\* A usage charge under limits is counted, under its reference, in its snapshot and
\* its cap.
LEMMA LimitedMeters ==
    ASSUME IInv, SubStep, MeteringTypeOK, NEW s \in Subs, MeterOf(s),
           NEW a \in UsageAmounts, NEW ref \in References,
           ChargeUsageWithReference(s, a, ref), Limited(s)
    PROVE  /\ MeteringTypeOK' /\ MeterOf(s)'
           /\ \A t \in Subs \ {s} : /\ limits'[t] = limits[t] /\ usage'[t] = usage[t]
                                    /\ capped'[t] = capped[t] /\ calls'[t] = calls[t]
                                    /\ refs'[t] = refs[t]
           /\ refs'[s] # refs[s] /\ limits[s].limit.cap # None
                => capped'[s].units <= limits[s].limit.cap
  <1> DEFINE u == RecordUsage(Rolled(s), a)
             p == period_index(sub[s])
             l == limits[s].limit
             K == CountCapped(s, a)
  <1>1. /\ Rolled(s) \in UsageState /\ Rolled(s).windowStart <= now
        /\ Rolled(s).period # None /\ Rolled(s).period <= p
        /\ CappedFits(capped[s], Rolled(s))
    BY RolledFacts
  <1>2. a \in Nat /\ now \in Nat /\ p \in Nat /\ p \in Periods
    BY InputAssumption, PeriodOf
  <1>3. /\ u \in UsageState /\ u.windowStart <= now /\ u.period # None /\ u.period <= p
        /\ u.period = Rolled(s).period /\ u.units = Rolled(s).units + a
    <2>1. PICK st \in UsageState : st = Rolled(s)
      BY <1>1
    <2>2. st.count + 1 \in Nat /\ st.units + a \in Nat
      BY <1>2 DEF UsageState
    <2>3. u = [st EXCEPT !.last = now, !.count = @ + 1, !.units = @ + a]
      BY <2>1 DEF RecordUsage
    <2>4. /\ u \in UsageState /\ u.windowStart = st.windowStart /\ u.period = st.period
          /\ u.units = st.units + a
      <3> HIDE DEF u
      <3> QED
        BY <1>2, <2>2, <2>3 DEF UsageState
    <2> HIDE DEF u
    <2> QED
      BY <1>1, <2>1, <2>4
  <1>4. BurstAllows(s) /\ RateAllows(s) /\ CapAllows(s, a) /\ ChargeUsage(s, a)
    BY DEF ChargeUsageWithReference
  <1>5. Windowed(l, Append(calls[s], now), u) /\ Windowed(l, calls[s], u)
    BY <1>2, <1>4, CallFits
  <1>6. /\ K[s] \in [period : Nat, units : Nat] /\ K \in [Subs -> [period : Nat, units : Nat]]
        /\ \A t \in Subs \ {s} : K[t] = capped[t]
        /\ CappedFits(K[s], u) /\ (l.cap # None => K[s].units <= l.cap)
    BY <1>2, <1>4, CappedGrows
  <1>7. CappedFits(capped[s], u)
    <2>1. Rolled(s).units \in Nat /\ capped[s].units \in Nat
      BY <1>1, MeterTypes DEF UsageState
    <2> QED
      BY <1>1, <1>2, <1>3, <2>1 DEF CappedFits
  <1>8. /\ usage' = [usage EXCEPT ![s] = u] /\ UNCHANGED <<limits, inherited>>
        /\ \/ /\ refs' = [refs EXCEPT ![s] = @ \cup {ref}]
              /\ write_period_snapshot(s, p, a, a)
              /\ capped' = K /\ calls' = [calls EXCEPT ![s] = Append(@, now)]
           \/ UNCHANGED <<refs, snapshot, capped, calls>>
    BY DEF ChargeUsageWithReference
  <1>9. now' = now /\ Exists(s) /\ Exists(s)' /\ sub'[s].start = sub[s].start
    <2>1. Exists(s) /\ now' = now
      BY <1>4 DEF ChargeUsage, UsageAllowed, ChargeAllowed
    <2> QED
      BY <2>1, ExistsStays DEF SubStep
  <1>10. period_index(sub[s])' = p
    BY <1>9 DEF period_index
  <1> HIDE DEF u, p, l, K
  <1>11. /\ usage' \in [Subs -> UsageState] /\ usage'[s] = u
         /\ \A t \in Subs \ {s} : usage'[t] = usage[t]
    BY <1>3, <1>8 DEF MeteringTypeOK
  <1>12. CASE /\ refs' = [refs EXCEPT ![s] = @ \cup {ref}]
              /\ write_period_snapshot(s, p, a, a)
              /\ capped' = K /\ calls' = [calls EXCEPT ![s] = Append(@, now)]
    <2>1. /\ refs' \in [Subs -> SUBSET References]
          /\ \A t \in Subs \ {s} : refs'[t] = refs[t]
      BY <1>12 DEF MeteringTypeOK
    <2>2. /\ calls' \in [Subs -> Seq(Nat)] /\ calls'[s] = Append(calls[s], now)
          /\ \A t \in Subs \ {s} : calls'[t] = calls[t]
      <3>1. calls \in [Subs -> Seq(Nat)] /\ Append(calls[s], now) \in Seq(Nat)
        BY <1>2, MeterTypes, AppendProperties DEF MeteringTypeOK
      <3> QED
        BY <1>12, <3>1
    <2>3. snapshot' \in [Subs -> [Periods -> [total : Nat, units : Nat]]]
      BY <1>2, <1>12 DEF MeteringTypeOK, write_period_snapshot
    <2>4. MeteringTypeOK'
      BY <1>6, <1>8, <1>11, <1>12, <2>1, <2>2, <2>3 DEF MeteringTypeOK
    <2>5. MeterOf(s)'
      BY <1>3, <1>5, <1>6, <1>8, <1>9, <1>10, <1>11, <1>12, <2>2
      DEF MeterOf, CappedFits, Windowed, l
    <2> QED
      BY <1>6, <1>8, <1>11, <1>12, <2>1, <2>2, <2>4, <2>5 DEF l
  <1>13. CASE UNCHANGED <<refs, snapshot, capped, calls>>
    <2>1. MeteringTypeOK'
      BY <1>8, <1>11, <1>13 DEF MeteringTypeOK
    <2>2. MeterOf(s)'
      BY <1>3, <1>5, <1>7, <1>8, <1>9, <1>10, <1>11, <1>13
      DEF MeterOf, CappedFits, Windowed, l
    <2> QED
      BY <1>8, <1>11, <1>13, <2>1, <2>2
  <1> QED
    BY <1>8, <1>12, <1>13

\* Without limits it is counted nowhere but in its snapshot.
LEMMA UnlimitedMeters ==
    ASSUME IInv, IInv', SubStep, MeteringTypeOK, NEW s \in Subs, MeterOf(s),
           NEW a \in UsageAmounts, NEW ref \in References,
           ChargeUsageWithReference(s, a, ref), ~Limited(s)
    PROVE  /\ MeteringTypeOK' /\ MeterOf(s)'
           /\ \A t \in Subs \ {s} : refs'[t] = refs[t]
           /\ UNCHANGED <<limits, usage, capped, calls>>
           /\ limits[s].limit.cap = None
  <1>1. a \in Nat /\ period_index(sub[s]) \in Periods
    BY InputAssumption, PeriodOf
  <1>2. limits[s].limit.cap = None
    BY DEF Limited, NoLimits
  <1>3. UNCHANGED <<limits, usage, capped, calls, inherited>>
    BY <1>2 DEF ChargeUsageWithReference, CountCapped
  <1>4. \/ /\ refs' = [refs EXCEPT ![s] = @ \cup {ref}]
           /\ write_period_snapshot(s, period_index(sub[s]), a, a)
        \/ UNCHANGED <<refs, snapshot>>
    BY DEF ChargeUsageWithReference
  <1>5. /\ refs' \in [Subs -> SUBSET References]
        /\ \A t \in Subs \ {s} : refs'[t] = refs[t]
    BY <1>4 DEF MeteringTypeOK
  <1>6. snapshot' \in [Subs -> [Periods -> [total : Nat, units : Nat]]]
    <2> DEFINE p == period_index(sub[s])
    <2> HIDE DEF p
    <2>1. p \in Periods /\ snapshot \in [Subs -> [Periods -> [total : Nat, units : Nat]]]
      BY <1>1 DEF MeteringTypeOK, p
    <2>2. CASE write_period_snapshot(s, p, a, a)
      BY <1>1, <2>1, <2>2 DEF write_period_snapshot
    <2>3. CASE snapshot' = snapshot
      BY <2>1, <2>3
    <2> QED
      BY <1>4, <2>2, <2>3 DEF p
  <1>7. MeteringTypeOK'
    BY <1>3, <1>5, <1>6 DEF MeteringTypeOK
  <1>8. MeterOf(s)'
    BY <1>3, MeterKeeps
  <1> QED
    BY <1>2, <1>3, <1>5, <1>7, <1>8

\* New limits forget the calls made under the old ones, and nothing else.
LEMMA ConfigureMeters ==
    ASSUME IInv, MeteringTypeOK, NEW s \in Subs, MeterOf(s),
           NEW m \in Merchants, NEW l \in LimitChoices, ConfigureUsageLimits(s, m, l)
    PROVE  MeteringTypeOK' /\ MeterOf(s)'
  <1> DEFINE e == [merchant |-> m, limit |-> l]
  <1>1. l \in Limit /\ e \in UsageLimits /\ e.limit = l
    BY MeteringAssumption DEF UsageLimits
  <1>2. limits' = [limits EXCEPT ![s] = e] /\ calls' = [calls EXCEPT ![s] = << >>]
        /\ UNCHANGED <<vars, usage, refs, snapshot, capped>> /\ inherited' \subseteq inherited
    BY DEF ConfigureUsageLimits
  <1> HIDE DEF e
  <1>3. /\ limits' \in [Subs -> UsageLimits] /\ calls' \in [Subs -> Seq(Nat)]
        /\ limits'[s] = e /\ calls'[s] = << >>
    BY <1>1, <1>2, EmptySeq DEF MeteringTypeOK
  <1>4. MeteringTypeOK'
    BY <1>2, <1>3 DEF MeteringTypeOK
  <1>5. now' = now /\ sub' = sub
    BY <1>2 DEF vars
  <1>6. period_index(sub[s])' = period_index(sub[s]) /\ (Exists(s)' <=> Exists(s))
    BY <1>5 DEF period_index, Exists
  <1>7. l.maxCalls # None => Rated(l, << >>, usage[s].windowStart, usage[s].count)
    BY <1>1, MeterTypes, RatedEmpty
  <1> QED
    BY <1>1, <1>2, <1>3, <1>4, <1>5, <1>6, <1>7 DEF MeterOf

\* An interval charge adds to the snapshot of its period.
LEMMA CollectTypes ==
    ASSUME IInv, MeteringTypeOK, NEW s \in Subs, NEW a \in ChargeAmounts, CollectMetered(s, a)
    PROVE  MeteringTypeOK'
  <1>1. a \in Nat /\ period_index(sub[s]) \in Periods
    BY InputAssumption, PeriodOf
  <1>2. snapshot' \in [Subs -> [Periods -> [total : Nat, units : Nat]]]
    BY <1>1 DEF MeteringTypeOK, CollectMetered, write_period_snapshot
  <1> QED
    BY <1>2 DEF MeteringTypeOK, CollectMetered

\* What a step may not do to a cap.
UnderCap ==
    \A s \in Subs : refs'[s] # refs[s] /\ limits[s].limit.cap # None
        => capped'[s].units <= limits[s].limit.cap

\* Every call keeps the invariant and the caps.
LEMMA MeterStep ==
    ASSUME IInv, IInv', MeterInv, [MeteredNext]_metered_vars
    PROVE  MeterInv' /\ UnderCap
  <1>1. SubStep /\ MeteringTypeOK /\ \A s \in Subs : MeterOf(s)
    BY MeteredStep, Preserved DEF MeterInv
  <1>2. ASSUME UNCHANGED <<limits, usage, capped, calls>>
        PROVE  \A s \in Subs : MeterOf(s)'
    BY <1>1, <1>2, MeterKeeps
  <1>3. ASSUME UNCHANGED meter_vars PROVE MeterInv' /\ UnderCap
    <2>1. MeteringTypeOK'
      BY <1>1, <1>3 DEF meter_vars, MeteringTypeOK
    <2>2. \A s \in Subs : MeterOf(s)'
      BY <1>2, <1>3 DEF meter_vars
    <2> QED
      BY <1>3, <2>1, <2>2 DEF MeterInv, UnderCap, meter_vars
  <1>4. ASSUME NEW s \in Subs, MeteringTypeOK', MeterOf(s)',
               \A t \in Subs \ {s} : /\ limits'[t] = limits[t] /\ usage'[t] = usage[t]
                                     /\ capped'[t] = capped[t] /\ calls'[t] = calls[t]
        PROVE  MeterInv'
    BY <1>1, <1>4, MeterKeeps DEF MeterInv
  <1>5. ASSUME NEW s \in Subs, Meter(s) PROVE MeterInv' /\ UnderCap
    <2>1. ASSUME NEW cap \in Caps, NEW t \in Times, CreateMetered(s, cap, t)
          PROVE  MeterInv' /\ UnderCap
      BY <1>3, <2>1 DEF CreateMetered
    <2>6. ASSUME NEW cap \in Caps, NEW trial \in Trials, CreateMeteredFromPlan(s, cap, trial)
          PROVE  MeterInv' /\ UnderCap
      <3>1. /\ UNCHANGED <<limits, usage, refs, snapshot, capped, calls>>
            /\ inherited' = inherited \cup {s}
        BY <2>6 DEF CreateMeteredFromPlan
      <3>2. MeteringTypeOK'
        BY <1>1, <3>1 DEF MeteringTypeOK
      <3> QED
        BY <1>2, <3>1, <3>2 DEF MeterInv, UnderCap
    <2>2. ASSUME NEW m \in Merchants, NEW l \in LimitChoices, ConfigureUsageLimits(s, m, l)
          PROVE  MeterInv' /\ UnderCap
      <3>1. MeteringTypeOK' /\ MeterOf(s)'
        BY <1>1, <2>2, ConfigureMeters
      <3>2. /\ UNCHANGED <<usage, capped, refs>>
            /\ limits' = [limits EXCEPT ![s] = [merchant |-> m, limit |-> l]]
            /\ calls' = [calls EXCEPT ![s] = << >>]
        BY <2>2 DEF ConfigureUsageLimits
      <3>3. \A t \in Subs \ {s} : limits'[t] = limits[t] /\ calls'[t] = calls[t]
        BY <1>1, <3>2 DEF MeteringTypeOK
      <3> QED
        BY <1>4, <3>1, <3>2, <3>3 DEF UnderCap
    <2>3. ASSUME NEW a \in UsageAmounts, NEW ref \in References,
                 ChargeUsageWithReference(s, a, ref)
          PROVE  MeterInv' /\ UnderCap
      <3>1. /\ MeteringTypeOK' /\ MeterOf(s)'
            /\ \A t \in Subs \ {s} : /\ limits'[t] = limits[t] /\ usage'[t] = usage[t]
                                     /\ capped'[t] = capped[t] /\ calls'[t] = calls[t]
                                     /\ refs'[t] = refs[t]
            /\ refs'[s] # refs[s] /\ limits[s].limit.cap # None
                 => capped'[s].units <= limits[s].limit.cap
        BY <1>1, <2>3, LimitedMeters, UnlimitedMeters
      <3> QED
        BY <1>4, <3>1 DEF UnderCap
    <2>4. ASSUME NEW a \in UsageAmounts, NEW ref \in References,
                 RefuseOverPeriodCap(s, a, ref)
          PROVE  MeterInv' /\ UnderCap
      <3>1. MeteringTypeOK' /\ MeterOf(s)'
        BY <1>1, <2>4, RefuseMeters
      <3>2. /\ UNCHANGED <<limits, capped, calls, refs>>
            /\ usage' = [usage EXCEPT ![s] = Rolled(s)]
        BY <2>4 DEF RefuseOverPeriodCap
      <3>3. \A t \in Subs \ {s} : usage'[t] = usage[t]
        BY <1>1, <3>2 DEF MeteringTypeOK
      <3> QED
        BY <1>4, <3>1, <3>2, <3>3 DEF UnderCap
    <2>5. ASSUME NEW a \in ChargeAmounts, CollectMetered(s, a)
          PROVE  MeterInv' /\ UnderCap
      <3>1. MeteringTypeOK' /\ UNCHANGED <<limits, usage, capped, calls, refs>>
        BY <1>1, <2>5, CollectTypes DEF CollectMetered
      <3> QED
        BY <1>2, <3>1 DEF MeterInv, UnderCap
    <2> QED
      BY <1>5, <2>1, <2>2, <2>3, <2>4, <2>5, <2>6 DEF Meter
  <1>6. CASE Unmetered
    BY <1>3, <1>6 DEF Unmetered
  <1>7. CASE UNCHANGED metered_vars
    BY <1>3, <1>7 DEF metered_vars
  <1> QED
    BY <1>5, <1>6, <1>7 DEF MeteredNext

\* Nobody has limits or has used anything at first.
LEMMA MeteredInitially == MeteredInit => MeterInv
  <1> SUFFICES ASSUME MeteredInit PROVE MeterInv
    OBVIOUS
  <1>1. IInv
    BY Initially DEF MeteredInit
  <1>2. NoLimits \in UsageLimits /\ NoUsage \in UsageState /\ NoLimits.limit.maxCalls = None
        /\ NoUsage.windowStart = 0 /\ NoUsage.period = None
    BY Optional DEF NoLimits, NoUsage, UsageLimits, UsageState, Limit
  <1>3. << >> \in Seq(Nat)
    BY EmptySeq
  <1>4. MeteringTypeOK
    BY <1>2, <1>3 DEF MeteredInit, MeteringTypeOK
  <1>5. ASSUME NEW s \in Subs PROVE MeterOf(s)
    <2>1. /\ limits[s] = NoLimits /\ usage[s] = NoUsage /\ calls[s] = << >>
          /\ capped[s].period = 0 /\ capped[s].units = 0 /\ now = 0
      BY DEF MeteredInit, Init
    <2>2. period_index(sub[s]) \in Nat
      BY <1>1, PeriodOf
    <2> HIDE DEF NoUsage
    <2>3. usage[s].period <= period_index(sub[s]) /\ usage[s].windowStart <= now
          /\ capped[s].period # usage[s].period
      BY <1>2, <2>1, <2>2 DEF None
    <2> QED
      BY <1>2, <2>1, <2>3 DEF MeterOf
  <1> QED
    BY <1>4, <1>5 DEF MeterInv

\* The invariant holds throughout.
LEMMA MeteringInductive == MeteredSpec => [](IInv /\ MeterInv)
  <1>1. IInv /\ IInv' /\ MeterInv /\ [MeteredNext]_metered_vars => MeterInv'
    BY MeterStep
  <1> QED
    BY <1>1, MeteredInitially, MeteredIsVault, Inductive, PTL DEF MeteredSpec

\* The metering keys keep their types.
THEOREM MeteringTyped == MeteredSpec => []MeteringTypeOK
  BY MeteringInductive, PTL DEF MeterInv

\* Whatever the merchant configures between calls, and however calls are refused
\* and periods roll, the units charged in one billing period under a cap stay
\* within the cap in force.
THEOREM UsageCapCorrect == MeteredSpec => UsageCapHolds
  <1>1. IInv /\ IInv' /\ MeterInv /\ [MeteredNext]_metered_vars => [UnderCap]_metered_vars
    BY MeterStep
  <1> QED
    BY <1>1, MeteringInductive, PTL DEF MeteredSpec, UsageCapHolds, UnderCap

\* No stretch of time as long as the window sees more than twice the calls
\* allowed in one.
THEOREM RateCorrect == MeteredSpec => []RateBounded
  <1>1. IInv /\ MeterInv => RateBounded
    <2> SUFFICES ASSUME MeterInv, NEW s \in Subs, limits[s].limit.maxCalls # None,
                        NEW t \in 0..MaxTime
                 PROVE  Cardinality({i \in DOMAIN calls[s] : t <= calls[s][i] /\
                            calls[s][i] < t + limits[s].limit.window})
                          <= 2 * limits[s].limit.maxCalls
      BY DEF RateBounded
    <2> DEFINE l == limits[s].limit
    <2>1. /\ t \in Nat /\ l.window \in Nat /\ l.maxCalls \in Nat
          /\ calls[s] \in Seq(Nat) /\ MeterOf(s)
      BY InputAssumption, MeterTypes DEF MeterInv, OptTime
    <2>2. CASE l.window > 0
      <3>1. Rated(l, calls[s], usage[s].windowStart, usage[s].count)
        BY <2>1, <2>2 DEF MeterOf
      <3> QED
        BY <2>1, <3>1 DEF Rated, Within
    <2>3. CASE l.window = 0
      <3>1. \A i \in DOMAIN calls[s] : calls[s][i] \in Nat
        BY <2>1, ElementOfSeq, LenProperties
      <3>2. {i \in DOMAIN calls[s] : t <= calls[s][i] /\ calls[s][i] < t + l.window} = {}
        BY <2>1, <2>3, <3>1
      <3>3. Cardinality({}) <= 2 * l.maxCalls
        BY <2>1, FS_EmptySet
      <3> QED
        BY <3>2, <3>3, Zenon
    <2> QED
      BY <2>1, <2>2, <2>3
  <1> QED
    BY <1>1, MeteringInductive, PTL

-----------------------------------------------------------------------------
(* Snapshots add up.                                                       *)

Snapshot == [total : Nat, units : Nat]
Totals(f) == [p \in Periods |-> f[p].total]
Settled(f) == SumFunctionOnSet(Totals(f), Periods)
UsageWithin(f) == \A p \in Periods : f[p].units <= f[p].total

\* What write_period_snapshot makes of one subscription's snapshots.
Written(f, p, a, u) == [f EXCEPT ![p] = [total |-> @.total + a, units |-> @.units + u]]

\* A charge written to the snapshot of one period.
LEMMA SnapshotAdds ==
    ASSUME NEW f \in [Periods -> Snapshot], UsageWithin(f), NEW p \in Periods,
           NEW a \in Nat, NEW u \in Nat, u <= a
    PROVE  /\ Settled(Written(f, p, a, u)) = Settled(f) + a
           /\ UsageWithin(Written(f, p, a, u))
  <1> DEFINE h == Written(f, p, a, u)
  <1>1. \A x \in Periods : f[x].total \in Nat /\ f[x].units \in Nat
    BY DEF Snapshot
  <1>2. /\ h[p].total = f[p].total + a /\ h[p].units = f[p].units + u
        /\ \A x \in Periods \ {p} : h[x] = f[x]
    BY <1>1 DEF Written
  <1> HIDE DEF h
  <1>3. IsFiniteSet(Periods)
    BY InputAssumption, FS_Interval DEF Periods
  <1>4. /\ \A x \in Periods : Totals(f)[x] \in Int
        /\ Totals(h)[p] \in Int /\ Totals(h)[p] = Totals(f)[p] + a
        /\ \A x \in Periods \ {p} : Totals(h)[x] = Totals(f)[x]
    BY <1>1, <1>2 DEF Totals
  <1> DEFINE A == Totals(f)
             B == Totals(h)
  <1> HIDE DEF A, B
  <1>5. /\ SumFunctionOnSet(B, Periods) = SumFunctionOnSet(A, Periods) + B[p] - A[p]
        /\ SumFunctionOnSet(A, Periods) \in Int
    <2>1. /\ \A x \in Periods : A[x] \in Int
          /\ B[p] \in Int /\ \A x \in Periods \ {p} : B[x] = A[x]
      BY <1>4 DEF A, B
    <2> QED
      BY <1>3, <2>1, SumChange
  <1>6. SumFunctionOnSet(B, Periods) = SumFunctionOnSet(A, Periods) + a
    <2>1. A[p] \in Int /\ B[p] = A[p] + a
      BY <1>4 DEF A, B
    <2> QED
      BY <1>5, <2>1
  <1>7. UsageWithin(h)
    <2>1. f[p].units <= f[p].total
      BY DEF UsageWithin
    <2>2. h[p].units <= h[p].total
      BY <1>1, <1>2, <2>1
    <2> QED
      BY <1>2, <2>2 DEF UsageWithin
  <1> QED
    BY <1>5, <1>6, <1>7 DEF Settled, A, B, h

\* SnapshotsReconcile, in these terms: inductive once the types are known.
SnapshotInv == \A s \in Subs : sub[s].charged = Settled(snapshot[s]) /\ UsageWithin(snapshot[s])

\* The invariant implies SnapshotsReconcile.
LEMMA SnapshotInvIs == SnapshotInv => SnapshotsReconcile
  <1> SUFFICES ASSUME SnapshotInv, NEW s \in Subs
               PROVE  /\ sub[s].charged = SumFunction([p \in Periods |-> snapshot[s][p].total])
                      /\ \A p \in Periods : snapshot[s][p].units <= snapshot[s][p].total
    BY DEF SnapshotsReconcile
  <1>1. SumFunction([p \in Periods |-> snapshot[s][p].total]) = Settled(snapshot[s])
    BY DEF SumFunction, Settled, Totals
  <1> QED
    BY <1>1 DEF SnapshotInv, UsageWithin

\* A charge that is added to its period's snapshot.
LEMMA SnapshotWritten ==
    ASSUME MeteringTypeOK, SnapshotInv, NEW s \in Subs, NEW p \in Periods,
           NEW a \in Nat, NEW u \in Nat, u <= a, write_period_snapshot(s, p, a, u),
           sub'[s].charged = sub[s].charged + a,
           \A t \in Subs \ {s} : sub'[t].charged = sub[t].charged
    PROVE  SnapshotInv'
  <1> DEFINE f == snapshot[s]
             h == Written(f, p, a, u)
  <1>1. /\ snapshot'[s] = h /\ \A t \in Subs \ {s} : snapshot'[t] = snapshot[t]
        /\ f \in [Periods -> Snapshot]
    BY DEF MeteringTypeOK, write_period_snapshot, Snapshot, Written
  <1>2. UsageWithin(f) /\ sub[s].charged = Settled(f)
    BY DEF SnapshotInv
  <1> HIDE DEF f
  <1>3. Settled(h) = Settled(f) + a /\ UsageWithin(h)
    BY <1>1, <1>2, SnapshotAdds
  <1> HIDE DEF h
  <1>4. sub'[s].charged = Settled(snapshot'[s]) /\ UsageWithin(snapshot'[s])
    BY <1>1, <1>2, <1>3
  <1>5. \A t \in Subs : sub'[t].charged = Settled(snapshot'[t]) /\ UsageWithin(snapshot'[t])
    BY <1>1, <1>4 DEF SnapshotInv
  <1> QED
    BY <1>5 DEF SnapshotInv, Settled, Totals, UsageWithin, Periods

\* Nothing is charged.
LEMMA SnapshotKeeps ==
    ASSUME SnapshotInv, Uncharged, snapshot' = snapshot
    PROVE  SnapshotInv'
  BY DEF SnapshotInv, Uncharged, Settled, Totals, UsageWithin, Periods

NoBuyout == \A s \in Subs : ~BoughtOut(s)

\* Every call but a grace buyout keeps snapshots and charges in step.
LEMMA SnapshotStep ==
    ASSUME IInv, AbsentInv, MeteringTypeOK, SnapshotInv,
           [MeteredNext]_metered_vars, [NoBuyout]_vars
    PROVE  SnapshotInv'
  <1>1. CASE sub' = sub /\ snapshot' = snapshot
    BY <1>1, SnapshotKeeps DEF Uncharged
  <1>2. CASE Unmetered
    <2>1. snapshot' = snapshot
      BY <1>2 DEF Unmetered, meter_vars
    <2>2. ASSUME NEW s \in Subs, Payments(s) PROVE Uncharged
      <3>1. ASSUME NEW c \in ChargeAmounts, NEW a \in BuyoutAmounts, GraceBuyout(s, c, a)
            PROVE  Uncharged
        <4>1. UNCHANGED vars
          BY <3>1 DEF NoBuyout, BoughtOut
        <4> QED
          BY <4>1 DEF vars, Uncharged
      <3>2. ASSUME NEW a \in OneOffAmounts, ChargeOneOff(s, a) PROVE Uncharged
        BY <3>2 DEF ChargeOneOff, Uncharged
      <3> QED
        BY <2>2, <3>1, <3>2, TransfersMoney DEF Payments, MoneyOut, Unearned
    <2>3. Uncharged
      BY <1>2, <2>2, AdministrationMoney, DunningUncharged, ControlUncharged
      DEF Unmetered, MoneyOut
    <2> QED
      BY <2>1, <2>3, SnapshotKeeps
  <1>3. ASSUME NEW s \in Subs, Meter(s) PROVE SnapshotInv'
    <2>1. period_index(sub[s]) \in Periods
      BY PeriodOf
    <2>2. ASSUME NEW cap \in Caps, NEW t \in Times, CreateMetered(s, cap, t)
          PROVE  SnapshotInv'
      BY <2>2, Creations, CreateUncharged, SnapshotKeeps DEF CreateMetered, meter_vars
    <2>7. ASSUME NEW cap \in Caps, NEW trial \in Trials, CreateMeteredFromPlan(s, cap, trial)
          PROVE  SnapshotInv'
      BY <2>7, Creations, CreateUncharged, SnapshotKeeps DEF CreateMeteredFromPlan
    <2>3. ASSUME NEW m \in Merchants, NEW l \in LimitChoices, ConfigureUsageLimits(s, m, l)
          PROVE  SnapshotInv'
      BY <1>1, <2>3 DEF ConfigureUsageLimits, vars
    <2>4. ASSUME NEW a \in UsageAmounts, NEW ref \in References,
                 ChargeUsageWithReference(s, a, ref)
          PROVE  SnapshotInv'
      <3>1. /\ a \in Nat /\ a <= a
            /\ \A t \in Subs \ {s} : sub'[t].charged = sub[t].charged
            /\ sub'[s].charged = IF lifetime_cap_allows(sub[s], a)
                                   THEN sub[s].charged + a ELSE sub[s].charged
        BY <2>4, InputAssumption, ChargesAdd DEF ChargeUsageWithReference
      <3>2. CASE lifetime_cap_allows(sub[s], a)
        BY <2>1, <2>4, <3>1, <3>2, SnapshotWritten DEF ChargeUsageWithReference
      <3>3. CASE ~lifetime_cap_allows(sub[s], a)
        <4>1. Uncharged /\ snapshot' = snapshot
          BY <2>4, <3>1, <3>3 DEF ChargeUsageWithReference, Uncharged
        <4> QED
          BY <4>1, SnapshotKeeps
      <3> QED
        BY <3>2, <3>3
    <2>5. ASSUME NEW a \in UsageAmounts, NEW ref \in References,
                 RefuseOverPeriodCap(s, a, ref)
          PROVE  SnapshotInv'
      BY <1>1, <2>5 DEF RefuseOverPeriodCap, vars
    <2>6. ASSUME NEW a \in ChargeAmounts, CollectMetered(s, a) PROVE SnapshotInv'
      <3>1. /\ a \in Nat /\ 0 \in Nat /\ 0 <= a
            /\ sub'[s].charged = sub[s].charged + a
            /\ \A t \in Subs \ {s} : sub'[t].charged = sub[t].charged
        BY <2>6, InputAssumption, ChargesAdd DEF CollectMetered
      <3> QED
        BY <2>1, <2>6, <3>1, SnapshotWritten DEF CollectMetered
    <2> QED
      BY <1>3, <2>2, <2>3, <2>4, <2>5, <2>6, <2>7 DEF Meter
  <1>4. CASE UNCHANGED metered_vars
    BY <1>1, <1>4 DEF metered_vars, vars, meter_vars
  <1> QED
    BY <1>2, <1>3, <1>4 DEF MeteredNext

\* As long as no grace buyout is made, the snapshots of a subscription's billing
\* periods add up to what it was charged, and hold its usage.
THEOREM SnapshotsCorrect ==
    MeteredSpec /\ [][NoBuyout]_vars => []SnapshotsReconcile
  <1>1. MeteredInit => SnapshotInv /\ AbsentInv
    <2> SUFFICES ASSUME MeteredInit PROVE SnapshotInv /\ AbsentInv
      OBVIOUS
    <2>1. \A s \in Subs : sub[s] = Absent
      BY DEF MeteredInit, Init
    <2>2. ASSUME NEW s \in Subs PROVE 0 = Settled(snapshot[s]) /\ UsageWithin(snapshot[s])
      <3>1. \A p \in Periods : snapshot[s][p].total = 0 /\ snapshot[s][p].units = 0
        BY DEF MeteredInit
      <3>2. \A p \in Periods : Totals(snapshot[s])[p] = 0
        BY <3>1 DEF Totals
      <3>3. IsFiniteSet(Periods)
        BY InputAssumption, FS_Interval DEF Periods
      <3>4. Settled(snapshot[s]) = 0
        BY <3>2, <3>3, SumZero DEF Settled
      <3> QED
        BY <3>1, <3>4 DEF UsageWithin
    <2> QED
      BY <2>1, <2>2 DEF SnapshotInv, AbsentInv, Absent
  <1>2. IInv /\ AbsentInv /\ MeteringTypeOK /\ SnapshotInv
          /\ [MeteredNext]_metered_vars /\ [NoBuyout]_vars => SnapshotInv'
    BY SnapshotStep
  <1>3. IInv /\ AbsentInv /\ [Next]_vars => AbsentInv'
    BY AbsentStep
  <1> QED
    BY <1>1, <1>2, <1>3, SnapshotInvIs, MeteredStep, MeteredIsVault, MeteringTyped,
       Inductive, PTL DEF MeteredSpec
=============================================================================
