----------------------------- MODULE PlansProofs -----------------------------
(***************************************************************************)
(* Proofs about Plans: for every set of subscriptions, merchants, offers   *)
(* and limits, running subscriptions keep to the terms of the version they *)
(* are linked to, none is charged past its lifetime cap, and the creation  *)
(* rate and the credit limit hold.                                         *)
(***************************************************************************)
EXTENDS Plans, Sums

Positive == Nat \ {0}
Cap == Nat \cup {None}

\* A plan in the catalogue.
Plan == [merchant : Merchants, amount : Positive, interval : Positive, cap : Cap,
         trial : Nat, key : Nat, version : Nat, disabled : BOOLEAN, maxActive : Nat]

\* Without grace periods and expiry these are the statuses a record gets to.
Reached == {"Active", "Paused", "InsufficientBalance", "Cancelled"}

\* A subscription record; the interval is divided by.
Row == [owner : Subscribers \cup {"none"}, merchant : Merchants \cup {"none"},
        status : Reached \cup {"Absent"}, amount : Nat, interval : Positive, start : Nat,
        last : Nat, period : Int, prepaid : Nat, cap : Cap, charged : Nat, plan : Nat]

Types ==
    /\ now \in Nat
    /\ plan \in Seq(Plan)
    /\ capDefault \in [Merchants \cup {"global"} -> Cap]
    /\ sub \in [Subs -> Row]

\* TermsFollowPlan for one record; the version it is linked to exists.
Linked(r) == r.plan # 0 =>
    /\ r.plan <= Len(plan)
    /\ r.amount = plan[r.plan].amount /\ r.interval = plan[r.plan].interval
    /\ r.merchant = plan[r.plan].merchant

WithinCap(r) == r.cap # None => r.charged <= r.cap

\* A family of versions is named by its first plan, and has one merchant.
Family(p) ==
    /\ plan[p].key \in DOMAIN plan
    /\ plan[p].merchant = plan[plan[p].key].merchant

\* The inductive invariant. A migration compares families, not merchants.
PlanInv ==
    /\ Types
    /\ \A p \in DOMAIN plan : Family(p)
    /\ \A s \in Subs : Linked(sub[s]) /\ WithinCap(sub[s])

-----------------------------------------------------------------------------
(* Records and plans.                                                      *)

\* Offers and the templates made of them are typed.
LEMMA OfferFields ==
    ASSUME NEW o \in Offer
    PROVE  o.amount \in Positive /\ o.interval \in Positive /\ o.cap \in Cap /\ o.trial \in Nat
  BY DEF Offer, Positive, Cap

\* A template made of an offer is a plan, with or without a trial.
LEMMA TemplateType ==
    ASSUME NEW m \in Merchants, NEW o \in Offer, NEW t \in Nat, NEW key \in Nat, NEW v \in Nat
    PROVE  /\ PlanTemplate(m, [o EXCEPT !.trial = t], key, v) \in Plan
           /\ PlanTemplate(m, o, key, v) \in Plan
<1>1. /\ o.amount \in Positive /\ o.interval \in Positive
      /\ o.cap \in Cap /\ o.trial \in Nat /\ FALSE \in BOOLEAN /\ 0 \in Nat
  BY OfferFields
<1>2. /\ [o EXCEPT !.trial = t].amount = o.amount /\ [o EXCEPT !.trial = t].interval = o.interval
      /\ [o EXCEPT !.trial = t].cap = o.cap /\ [o EXCEPT !.trial = t].trial = t
  BY DEF Offer
<1>3. PlanTemplate(m, o, key, v) \in Plan
  BY <1>1 DEF PlanTemplate, Plan
<1>4. PlanTemplate(m, [o EXCEPT !.trial = t], key, v) \in Plan
  BY <1>1, <1>2 DEF PlanTemplate, Plan
<1> QED
  BY <1>3, <1>4

\* Plans in the catalogue are typed.
LEMMA PlanFields ==
    ASSUME Types, NEW p \in DOMAIN plan
    PROVE  /\ plan[p] \in Plan /\ p \in Nat \ {0} /\ p <= Len(plan)
           /\ plan[p].merchant \in Merchants /\ plan[p].amount \in Positive
           /\ plan[p].interval \in Positive /\ plan[p].cap \in Cap /\ plan[p].trial \in Nat
           /\ plan[p].key \in Nat /\ plan[p].version \in Nat
<1>1. plan[p] \in Plan /\ p \in Nat \ {0} /\ p <= Len(plan)
  BY DEF Types
<1> QED
  BY <1>1 DEF Plan

\* Subscription records are typed.
LEMMA RowFields ==
    ASSUME Types, NEW s \in Subs
    PROVE  /\ sub[s] \in Row
           /\ sub[s].amount \in Nat /\ sub[s].interval \in Positive /\ sub[s].start \in Nat
           /\ sub[s].last \in Nat /\ sub[s].period \in Int /\ sub[s].prepaid \in Nat
           /\ sub[s].cap \in Cap /\ sub[s].charged \in Nat /\ sub[s].plan \in Nat
           /\ sub[s].status \in Reached \cup {"Absent"}
<1>1. sub[s] \in Row
  BY DEF Types
<1> QED
  BY <1>1 DEF Row

-----------------------------------------------------------------------------
(* The two ways a step can go: it writes one record, or it changes the     *)
(* catalogue without changing the terms of a plan.                         *)

\* A step that writes one record, linked to its plan and within its cap.
LEMMA RowStep ==
    ASSUME PlanInv, NEW s \in Subs, NEW r \in Row, Linked(r), WithinCap(r),
           sub' = [sub EXCEPT ![s] = r], UNCHANGED <<now, plan, capDefault>>
    PROVE  PlanInv'
<1>1. Types'
  BY DEF PlanInv, Types
<1>2. ASSUME NEW t \in Subs PROVE Linked(sub[t])' /\ WithinCap(sub[t])'
  <2>1. sub'[t] = IF t = s THEN r ELSE sub[t]
    BY DEF PlanInv, Types
  <2>2. CASE t = s
    BY <2>1, <2>2 DEF Linked, WithinCap
  <2>3. CASE t # s
    BY <2>1, <2>3 DEF PlanInv, Linked, WithinCap
  <2> QED
    BY <2>2, <2>3
<1>3. \A p \in DOMAIN plan' : Family(p)'
  BY DEF PlanInv, Family
<1> QED
  BY <1>1, <1>2, <1>3 DEF PlanInv

\* A record that keeps terms, charges and cap stands as it did.
LEMMA SameTerms ==
    ASSUME PlanInv, NEW s \in Subs, NEW r \in Row,
           r.plan = sub[s].plan, r.amount = sub[s].amount, r.interval = sub[s].interval,
           r.merchant = sub[s].merchant
    PROVE  Linked(r)
  BY DEF PlanInv, Linked

\* A step that changes the catalogue and keeps the terms of every plan in it.
LEMMA CatalogueStep ==
    ASSUME PlanInv, plan' \in Seq(Plan), Len(plan) <= Len(plan'),
           \A p \in DOMAIN plan : /\ plan'[p].amount = plan[p].amount
                                  /\ plan'[p].interval = plan[p].interval
                                  /\ plan'[p].merchant = plan[p].merchant,
           \A p \in DOMAIN plan' : Family(p)',
           UNCHANGED <<now, sub, capDefault>>
    PROVE  PlanInv'
<1>1. Types'
  BY DEF PlanInv, Types
<1>2. ASSUME NEW t \in Subs PROVE Linked(sub[t])' /\ WithinCap(sub[t])'
  <2>1. Linked(sub[t]) /\ WithinCap(sub[t]) /\ sub'[t] = sub[t] /\ sub[t].plan \in Nat
    BY RowFields DEF PlanInv
  <2>2. WithinCap(sub[t])'
    BY <2>1 DEF WithinCap
  <2>3. ASSUME sub[t].plan # 0
        PROVE  sub[t].plan \in DOMAIN plan /\ sub[t].plan <= Len(plan')
    BY <2>1, <2>3 DEF Linked, PlanInv, Types
  <2>4. Linked(sub[t])'
    BY <2>1, <2>3 DEF Linked
  <2> QED
    BY <2>2, <2>4
<1> QED
  BY <1>1, <1>2 DEF PlanInv

\* A published plan is added behind the others.
LEMMA PublishStep ==
    ASSUME PlanInv, NEW t \in Plan, plan' = Append(plan, t), UNCHANGED <<now, sub, capDefault>>,
           \/ t.key = next_plan_id
           \/ t.key \in DOMAIN plan /\ t.merchant = plan[t.key].merchant
    PROVE  PlanInv'
<1>1. plan \in Seq(Plan) /\ DOMAIN plan = 1..Len(plan) /\ Len(plan) \in Nat
  BY DEF PlanInv, Types
<1>2. /\ plan' \in Seq(Plan) /\ Len(plan') = Len(plan) + 1 /\ DOMAIN plan' = 1..(Len(plan) + 1)
      /\ plan'[Len(plan) + 1] = t
      /\ \A p \in DOMAIN plan : plan'[p] = plan[p]
  BY <1>1
<1>3. ASSUME NEW p \in DOMAIN plan' PROVE Family(p)'
  <2>1. CASE p = Len(plan) + 1
    BY <1>1, <1>2, <2>1 DEF Family, next_plan_id
  <2>2. CASE p # Len(plan) + 1
    <3>1. p \in DOMAIN plan
      BY <1>1, <1>2, <2>2
    <3>2. Family(p)
      BY <3>1 DEF PlanInv
    <3> QED
      BY <1>1, <1>2, <3>1, <3>2 DEF Family
  <2> QED
    BY <2>1, <2>2
<1> QED
  BY <1>1, <1>2, <1>3, CatalogueStep

\* Deprecation and concurrency limits leave the terms alone.
LEMMA FlagStep ==
    ASSUME PlanInv, NEW p \in DOMAIN plan, NEW t \in Plan, plan' = [plan EXCEPT ![p] = t],
           t.amount = plan[p].amount, t.interval = plan[p].interval,
           t.merchant = plan[p].merchant, t.key = plan[p].key, UNCHANGED <<now, sub, capDefault>>
    PROVE  PlanInv'
<1>1. plan' \in Seq(Plan) /\ Len(plan) <= Len(plan')
      /\ DOMAIN plan' = DOMAIN plan
      /\ \A q \in DOMAIN plan : plan'[q] = IF q = p THEN t ELSE plan[q]
  BY DEF PlanInv, Types
<1>2. \A q \in DOMAIN plan : plan'[q].key = plan[q].key /\ plan'[q].merchant = plan[q].merchant
  BY <1>1
<1>3. ASSUME NEW q \in DOMAIN plan' PROVE Family(q)'
  <2>1. q \in DOMAIN plan /\ Family(q)
    BY <1>1 DEF PlanInv
  <2> QED
    BY <1>1, <1>2, <2>1 DEF Family
<1> QED
  BY <1>1, <1>3, CatalogueStep

-----------------------------------------------------------------------------
(* One lemma per kind of action.                                           *)

\* There are no plans and no subscriptions at first.
LEMMA PlanInit == Init => PlanInv
<1> SUFFICES ASSUME Init PROVE PlanInv
  OBVIOUS
<1>1. Absent \in Row
  BY DEF Absent, Row, Positive, Cap, None
<1>2. Types
  BY <1>1 DEF Init, Types, Cap
<1>3. \A s \in Subs : Linked(sub[s]) /\ WithinCap(sub[s])
  BY DEF Init, Linked, WithinCap, Absent
<1>4. \A p \in DOMAIN plan : Family(p)
  BY DEF Init
<1> QED
  BY <1>2, <1>3, <1>4 DEF PlanInv

\* The cap a subscription is created with is typed.
LEMMA ResolvedCap ==
    ASSUME Types, NEW m \in Merchants, NEW cap \in Cap
    PROVE  resolve_cap(m, cap) \in Cap
<1>1. capDefault[m] \in Cap /\ capDefault["global"] \in Cap
  BY DEF Types
<1> QED
  BY <1>1 DEF resolve_cap

\* A new record has the terms it is entered with and no charges.
LEMMA EnterStep ==
    ASSUME PlanInv, NEW s \in Subs, NEW u \in Subscribers, NEW m \in Merchants,
           NEW o, o.amount \in Nat, o.interval \in Positive, o.trial \in Nat,
           NEW cap \in Cap, NEW p \in Nat, Enter(s, u, m, o, cap, p),
           p # 0 => /\ p <= Len(plan) /\ plan[p].merchant = m
                    /\ plan[p].amount = o.amount /\ plan[p].interval = o.interval
    PROVE  PlanInv'
<1> DEFINE r == [Absent EXCEPT !.owner = u, !.merchant = m, !.status = "Active",
                   !.amount = o.amount, !.interval = o.interval, !.start = now,
                   !.last = now + o.trial, !.cap = cap, !.plan = p]
<1>1. now \in Nat /\ now + o.trial \in Nat
  BY DEF PlanInv, Types
<1>2. Absent \in Row /\ "Active" \in Reached \cup {"Absent"}
  BY DEF Absent, Row, Reached, Positive, Cap, None
<1>3. r \in Row
  BY <1>1, <1>2 DEF Row
<1>4. /\ r.merchant = m /\ r.amount = o.amount /\ r.interval = o.interval
      /\ r.cap = cap /\ r.charged = Absent.charged /\ r.plan = p /\ Absent.charged = 0
  BY <1>2 DEF Row, Absent
<1>5. sub' = [sub EXCEPT ![s] = r] /\ UNCHANGED <<now, plan, capDefault>>
  BY DEF Enter, config_vars
<1> HIDE DEF r
<1>6. Linked(r) /\ WithinCap(r)
  BY <1>4 DEF Linked, WithinCap, Cap
<1> QED
  BY <1>3, <1>5, <1>6, RowStep

\* create_subscription.
LEMMA CreateStep ==
    ASSUME PlanInv, NEW s \in Subs, NEW u \in Subscribers, NEW m \in Merchants,
           NEW o \in DirectTerms, CreateSubscription(s, u, m, o)
    PROVE  PlanInv'
<1> DEFINE untried == [o EXCEPT !.trial = 0]
           cap == resolve_cap(m, o.cap)
<1>1. o \in Offer
  BY PlansAssumption
<1>2. untried.amount = o.amount /\ untried.interval = o.interval /\ untried.trial = 0
  BY <1>1 DEF Offer
<1>3. o.amount \in Nat /\ o.interval \in Positive /\ o.cap \in Cap
  BY <1>1, OfferFields DEF Positive
<1>4. cap \in Cap
  BY <1>3, ResolvedCap DEF PlanInv
<1>5. Enter(s, u, m, untried, cap, 0)
  BY DEF CreateSubscription
<1> HIDE DEF untried, cap
<1>6. untried.amount \in Nat /\ untried.interval \in Positive /\ untried.trial \in Nat
  BY <1>2, <1>3
<1> QED
  BY <1>4, <1>5, <1>6, EnterStep

\* create_subscription_from_plan.
LEMMA CreateFromPlanStep ==
    ASSUME PlanInv, NEW s \in Subs, NEW u \in Subscribers, NEW p \in DOMAIN plan,
           CreateSubscriptionFromPlan(s, u, p)
    PROVE  PlanInv'
<1>1. /\ p \in Nat /\ p <= Len(plan) /\ plan[p].merchant \in Merchants
      /\ plan[p].amount \in Nat /\ plan[p].interval \in Positive
      /\ plan[p].cap \in Cap /\ plan[p].trial \in Nat
  BY PlanFields DEF PlanInv, Positive
<1>2. resolve_cap(plan[p].merchant, plan[p].cap) \in Cap
  BY <1>1, ResolvedCap DEF PlanInv
<1>3. Enter(s, u, plan[p].merchant, plan[p], resolve_cap(plan[p].merchant, plan[p].cap), p)
  BY DEF CreateSubscriptionFromPlan
<1> QED
  BY <1>1, <1>2, <1>3, EnterStep

\* Versions of one family have one merchant, so the merchant stays right.
LEMMA MigrateStep ==
    ASSUME PlanInv, NEW s \in Subs, NEW p \in DOMAIN plan, MigrateSubscriptionToPlan(s, p)
    PROVE  PlanInv'
<1> DEFINE r == [sub[s] EXCEPT !.cap = plan[p].cap, !.amount = plan[p].amount,
                               !.interval = plan[p].interval, !.plan = p]
<1>1. /\ p \in Nat \ {0} /\ p <= Len(plan) /\ plan[p].merchant \in Merchants
      /\ plan[p].amount \in Positive /\ plan[p].interval \in Positive /\ plan[p].cap \in Cap
  BY PlanFields DEF PlanInv
<1>2. sub[s] \in Row /\ sub[s].plan \in Nat
  BY RowFields DEF PlanInv
<1>3. r \in Row
  BY <1>1, <1>2 DEF Row, Positive
<1>4. /\ r.plan = p /\ r.amount = plan[p].amount /\ r.interval = plan[p].interval
      /\ r.cap = plan[p].cap /\ r.merchant = sub[s].merchant /\ r.charged = sub[s].charged
  BY <1>2 DEF Row
<1>5. /\ sub[s].plan # 0 /\ plan[p].key = plan[sub[s].plan].key
      /\ plan[p].cap # None => sub[s].charged <= plan[p].cap
      /\ sub' = [sub EXCEPT ![s] = r] /\ UNCHANGED <<now, plan, capDefault>>
  BY DEF MigrateSubscriptionToPlan, config_vars
<1>6. /\ sub[s].plan \in DOMAIN plan /\ sub[s].merchant = plan[sub[s].plan].merchant
      /\ Family(p) /\ Family(sub[s].plan)
  <2>1. sub[s].plan \in 1..Len(plan) /\ sub[s].merchant = plan[sub[s].plan].merchant
    BY <1>2, <1>5 DEF PlanInv, Linked, Types
  <2> QED
    BY <2>1 DEF PlanInv, Types
<1> HIDE DEF r
<1>7. plan[p].merchant = sub[s].merchant
  BY <1>5, <1>6 DEF Family
<1>8. Linked(r) /\ WithinCap(r)
  BY <1>1, <1>4, <1>5, <1>7 DEF Linked, WithinCap
<1> QED
  BY <1>3, <1>5, <1>8, RowStep

\* The calls of a merchant on its plans.
LEMMA CatalogueSteps ==
    ASSUME PlanInv, NEW m \in Merchants, Catalogue(m)
    PROVE  PlanInv'
<1>1. next_plan_id \in Nat /\ 0 \in Nat /\ 1 \in Nat /\ \A o \in Offers : o \in Offer
  BY PlansAssumption DEF next_plan_id, PlanInv, Types
<1>2. ASSUME NEW o \in Offers, CreatePlanTemplate(m, o) \/ RegisterPlan(m, o) PROVE PlanInv'
  <2> DEFINE t == PlanTemplate(m, [o EXCEPT !.trial = 0], next_plan_id, 1)
             t2 == PlanTemplate(m, o, next_plan_id, 1)
  <2>1. t \in Plan /\ t2 \in Plan
    BY <1>1, TemplateType
  <2>2. t.key = next_plan_id /\ t2.key = next_plan_id
    BY DEF PlanTemplate
  <2>3. (plan' = Append(plan, t) \/ plan' = Append(plan, t2)) /\ UNCHANGED <<now, sub, capDefault>>
    BY <1>2 DEF CreatePlanTemplate, RegisterPlan, config_vars
  <2> HIDE DEF t, t2
  <2> QED
    BY <2>1, <2>2, <2>3, PublishStep
<1>3. ASSUME NEW p \in DOMAIN plan, NEW o \in Offers, UpdatePlanTemplate(m, p, o) PROVE PlanInv'
  <2> DEFINE t == PlanTemplate(m, [o EXCEPT !.trial = plan[p].trial],
                               plan[p].key, plan[p].version + 1)
  <2>1. plan[p].trial \in Nat /\ plan[p].key \in Nat /\ plan[p].version + 1 \in Nat /\ Family(p)
    BY PlanFields DEF PlanInv
  <2>2. t \in Plan
    BY <1>1, <2>1, TemplateType
  <2>3. t.key = plan[p].key /\ t.merchant = m
    BY DEF PlanTemplate
  <2>4. plan[p].merchant = m /\ plan' = Append(plan, t) /\ UNCHANGED <<now, sub, capDefault>>
    BY <1>3 DEF UpdatePlanTemplate, config_vars
  <2> HIDE DEF t
  <2>5. t.key \in DOMAIN plan /\ t.merchant = plan[t.key].merchant
    BY <2>1, <2>3, <2>4 DEF Family
  <2> QED
    BY <2>2, <2>4, <2>5, PublishStep
<1>4. ASSUME NEW p \in DOMAIN plan, DeprecatePlan(m, p) PROVE PlanInv'
  <2> DEFINE Yes == TRUE
             t == [plan[p] EXCEPT !.disabled = Yes]
  <2>1. plan[p] \in Plan /\ Yes \in BOOLEAN
    BY PlanFields DEF PlanInv
  <2>2. plan' = [plan EXCEPT ![p] = t] /\ UNCHANGED <<now, sub, capDefault>>
    BY <1>4 DEF DeprecatePlan, config_vars
  <2> HIDE DEF Yes
  <2>3. /\ t \in Plan /\ t.amount = plan[p].amount /\ t.interval = plan[p].interval
        /\ t.merchant = plan[p].merchant /\ t.key = plan[p].key
    BY <2>1 DEF Plan
  <2> HIDE DEF t
  <2> QED
    BY <2>2, <2>3, FlagStep
<1>5. ASSUME NEW p \in DOMAIN plan, NEW n \in ConcurrencyLimits, SetPlanMaxActiveSubs(m, p, n)
      PROVE  PlanInv'
  <2> DEFINE t == [plan[p] EXCEPT !.maxActive = n]
  <2>1. plan[p] \in Plan /\ n \in Nat
    BY PlanFields, PlansAssumption DEF PlanInv
  <2>2. plan' = [plan EXCEPT ![p] = t] /\ UNCHANGED <<now, sub, capDefault>>
    BY <1>5 DEF SetPlanMaxActiveSubs, config_vars
  <2>3. /\ t \in Plan /\ t.amount = plan[p].amount /\ t.interval = plan[p].interval
        /\ t.merchant = plan[p].merchant /\ t.key = plan[p].key
    BY <2>1 DEF Plan
  <2> HIDE DEF t
  <2> QED
    BY <2>2, <2>3, FlagStep
<1> QED
  BY <1>2, <1>3, <1>4, <1>5 DEF Catalogue

\* Operations of a running subscription keep its terms.
LEMMA KeepStep ==
    ASSUME PlanInv, NEW s \in Subs, NEW r \in Row, write_subscription(s, r), WithinCap(r),
           r.plan = sub[s].plan, r.amount = sub[s].amount, r.interval = sub[s].interval,
           r.merchant = sub[s].merchant
    PROVE  PlanInv'
<1>1. Linked(r)
  BY SameTerms
<1>2. sub' = [sub EXCEPT ![s] = r] /\ UNCHANGED <<now, plan, capDefault>>
  BY DEF write_subscription, config_vars
<1> QED
  BY <1>1, <1>2, RowStep

\* What changes of status and prepaid balance leave alone.
LEMMA StatusStep ==
    ASSUME PlanInv, NEW s \in Subs, NEW st \in Reached, NEW p \in Nat,
           write_subscription(s, [sub[s] EXCEPT !.prepaid = p, !.status = st])
    PROVE  PlanInv'
<1> DEFINE r == [sub[s] EXCEPT !.prepaid = p, !.status = st]
<1>1. sub[s] \in Row /\ WithinCap(sub[s])
  BY RowFields DEF PlanInv
<1>2. r \in Row
  BY <1>1 DEF Row
<1>3. /\ r.plan = sub[s].plan /\ r.amount = sub[s].amount /\ r.interval = sub[s].interval
      /\ r.merchant = sub[s].merchant /\ r.cap = sub[s].cap /\ r.charged = sub[s].charged
  BY <1>1 DEF Row
<1> HIDE DEF r
<1>4. WithinCap(r)
  BY <1>1, <1>3 DEF WithinCap
<1>5. write_subscription(s, r)
  BY DEF r
<1> QED
  BY <1>2, <1>3, <1>4, <1>5, KeepStep

\* The same without the balance.
LEMMA StatusOnlyStep ==
    ASSUME PlanInv, NEW s \in Subs, NEW st \in Reached,
           write_subscription(s, [sub[s] EXCEPT !.status = st])
    PROVE  PlanInv'
<1>1. sub[s] \in Row /\ sub[s].prepaid \in Nat
  BY RowFields DEF PlanInv
<1>2. [sub[s] EXCEPT !.status = st] = [sub[s] EXCEPT !.prepaid = sub[s].prepaid, !.status = st]
  BY <1>1 DEF Row
<1> QED
  BY <1>1, <1>2, StatusStep

\* deposit_funds.
LEMMA DepositStep ==
    ASSUME PlanInv, NEW s \in Subs, NEW a \in DepositAmounts, NEW by, DepositFunds(s, a, by)
    PROVE  PlanInv'
<1> DEFINE recovers == /\ by = "payer" /\ sub[s].status = "InsufficientBalance"
                       /\ sub[s].prepaid + a >= sub[s].amount
           st == IF recovers THEN "Active" ELSE sub[s].status
           p == sub[s].prepaid + a
<1>1. sub[s] \in Row /\ p \in Nat
  BY RowFields, PlansAssumption DEF PlanInv
<1>2. st \in Reached
  BY <1>1, RowFields DEF PlanInv, DepositFunds, Exists, Reached
<1>3. write_subscription(s, [sub[s] EXCEPT !.prepaid = p, !.status = st])
  BY <1>1 DEF DepositFunds, Row
<1> QED
  BY <1>1, <1>2, <1>3, StatusStep

\* A charge that is collected stays within the cap.
LEMMA ChargeStep ==
    ASSUME PlanInv, NEW s \in Subs, ChargeSubscription(s)
    PROVE  PlanInv'
<1> DEFINE r == sub[s]
           paid == [r EXCEPT !.prepaid = @ - r.amount, !.charged = @ + r.amount, !.last = now,
                             !.period = period_index(r)]
           st == IF lifetime_cap_reached(paid) THEN "Cancelled" ELSE "Active"
           r2 == [paid EXCEPT !.status = st]
<1>1. CASE r.prepaid < r.amount
  <2>1. write_subscription(s, [sub[s] EXCEPT !.status = "InsufficientBalance"])
    BY <1>1, RowFields DEF ChargeSubscription, PlanInv
  <2>2. "InsufficientBalance" \in Reached
    BY DEF Reached
  <2> QED
    BY <2>1, <2>2, StatusOnlyStep
<1>2. CASE ~(r.prepaid < r.amount)
  <2>1. /\ r \in Row /\ r.amount \in Nat /\ r.prepaid \in Nat /\ r.charged \in Nat
        /\ r.interval \in Positive /\ r.start \in Nat /\ now \in Nat
    BY RowFields DEF PlanInv, Types
  <2>2. r.prepaid - r.amount \in Nat /\ r.charged + r.amount \in Nat /\ period_index(r) \in Int
    BY <1>2, <2>1 DEF period_index, Positive
  <2>3. paid \in Row
    BY <2>1, <2>2 DEF Row
  <2>4. /\ paid.plan = r.plan /\ paid.amount = r.amount /\ paid.interval = r.interval
        /\ paid.merchant = r.merchant /\ paid.cap = r.cap
        /\ paid.charged = r.charged + r.amount
    BY <2>1 DEF Row
  <2>5. st \in Reached
    BY DEF Reached
  <2>6. write_subscription(s, r2) /\ (r.cap # None => r.charged + r.amount <= r.cap)
    BY <1>2, <2>1 DEF ChargeSubscription
  <2> HIDE DEF paid, st
  <2>7. /\ r2 \in Row /\ r2.plan = paid.plan /\ r2.amount = paid.amount
        /\ r2.interval = paid.interval /\ r2.merchant = paid.merchant
        /\ r2.cap = paid.cap /\ r2.charged = paid.charged
    BY <2>3, <2>5 DEF Row
  <2> HIDE DEF r2
  <2>8. WithinCap(r2)
    BY <2>4, <2>6, <2>7 DEF WithinCap
  <2> QED
    BY <2>4, <2>6, <2>7, <2>8, KeepStep
<1> QED
  BY <1>1, <1>2

\* The administrator cannot lower a cap below what has been charged.
LEMMA CapStep ==
    ASSUME PlanInv, NEW s \in Subs, NEW cap \in CapChoices, UpdateSubscriptionCap(s, cap)
    PROVE  PlanInv'
<1> DEFINE r == [sub[s] EXCEPT !.cap = cap]
<1>1. sub[s] \in Row /\ cap \in Cap
  BY RowFields, PlansAssumption DEF PlanInv, Cap
<1>2. r \in Row
  BY <1>1 DEF Row
<1>3. /\ r.plan = sub[s].plan /\ r.amount = sub[s].amount /\ r.interval = sub[s].interval
      /\ r.merchant = sub[s].merchant /\ r.cap = cap /\ r.charged = sub[s].charged
  BY <1>1 DEF Row
<1>4. write_subscription(s, r) /\ (cap # None => cap >= sub[s].charged)
  BY DEF UpdateSubscriptionCap
<1> HIDE DEF r
<1>5. WithinCap(r)
  BY <1>1, <1>3, <1>4, RowFields DEF WithinCap, PlanInv, Cap
<1> QED
  BY <1>2, <1>3, <1>4, <1>5, KeepStep

\* The calls on a subscription that exists.
LEMMA RunningStep ==
    ASSUME PlanInv, NEW s \in Subs, Running(s)
    PROVE  PlanInv'
<1>1. {"Cancelled", "Paused", "Active"} \subseteq Reached /\ 0 \in Nat
  BY DEF Reached
<1>2. ASSUME ChargeOverCap(s) \/ PauseSubscription(s) \/ ResumeSubscription(s) PROVE PlanInv'
  BY <1>1, <1>2, StatusOnlyStep DEF ChargeOverCap, PauseSubscription, ResumeSubscription
<1>3. ASSUME CancelSubscription(s) PROVE PlanInv'
  <2>1. write_subscription(s, [sub[s] EXCEPT !.status = "Cancelled", !.prepaid = 0])
    BY <1>3 DEF CancelSubscription
  <2>2. sub[s] \in Row
    BY RowFields DEF PlanInv
  <2>3. [sub[s] EXCEPT !.status = "Cancelled", !.prepaid = 0]
          = [sub[s] EXCEPT !.prepaid = 0, !.status = "Cancelled"]
    BY <2>2 DEF Row
  <2> QED
    BY <1>1, <2>1, <2>3, StatusStep
<1> QED
  BY <1>2, <1>3, DepositStep, ChargeStep, CapStep DEF Running

\* Limits change no plan and no record.
LEMMA LimitStep ==
    ASSUME PlanInv, Limits
    PROVE  PlanInv'
<1>1. plan' = plan /\ sub' = sub /\ now' = now
  BY DEF Limits, SetSubscriberCreditLimit, SetSubscriberActiveCap, SetMerchantMaxSubs,
         SetMerchantCapDefault, SetGlobalCapDefault
<1>2. capDefault' = capDefault \/ \E x \in Merchants \cup {"global"}, cap \in CapChoices :
                                     capDefault' = [capDefault EXCEPT ![x] = cap]
  BY DEF Limits, SetSubscriberCreditLimit, SetSubscriberActiveCap, SetMerchantMaxSubs,
         SetMerchantCapDefault, SetGlobalCapDefault
<1>3. capDefault' \in [Merchants \cup {"global"} -> Cap]
  BY <1>2, PlansAssumption DEF PlanInv, Types, Cap
<1> QED
  BY <1>1, <1>3 DEF PlanInv, Types, Family, Linked, WithinCap

\* Every call preserves the invariant.
LEMMA PlanStep == PlanInv /\ [Next]_vars => PlanInv'
<1> SUFFICES ASSUME PlanInv, [Next]_vars PROVE PlanInv'
  OBVIOUS
<1>1. CASE Tick
  <2>1. now' \in Nat /\ UNCHANGED <<plan, sub, capDefault>>
    BY <1>1 DEF Tick, config_vars, PlanInv, Types
  <2> QED
    BY <2>1 DEF PlanInv, Types, Family, Linked, WithinCap
<1>2. CASE UNCHANGED vars
  BY <1>2 DEF vars, config_vars, PlanInv, Types, Family, Linked, WithinCap
<1>3. CASE \E s \in Subs : Subscribing(s)
  BY <1>3, CreateStep, CreateFromPlanStep, MigrateStep DEF Subscribing
<1> QED
  BY <1>1, <1>2, <1>3, LimitStep, CatalogueSteps, RunningStep DEF Next

-----------------------------------------------------------------------------
(* The theorems.                                                           *)

\* The invariant holds throughout.
LEMMA PlanInvariant == Spec => []PlanInv
<1> QED
  BY PlanInit, PlanStep, PTL DEF Spec

\* plan_versioning.md: for any merchants, offers and subscriptions, a running
\* subscription has amount, interval and merchant of the version it is linked
\* to, however plans are published, updated, deprecated and limited.
THEOREM TermsCorrect == Spec => []TermsFollowPlan
<1>1. PlanInv => TermsFollowPlan
  BY DEF PlanInv, Linked, TermsFollowPlan
<1> QED
  BY <1>1, PlanInvariant, PTL

\* A lifetime cap is never exceeded, wherever it comes from, and also when the
\* administrator or a migration to another version replaces it.
THEOREM CapsHold == Spec => []CapNeverExceeded
<1>1. PlanInv => CapNeverExceeded
  BY DEF PlanInv, WithinCap, CapNeverExceeded
<1> QED
  BY <1>1, PlanInvariant, PTL

-----------------------------------------------------------------------------
(* What a step does to records: it enters one, it rewrites one of the same *)
(* owner and date, or it leaves them alone.                                *)

\* The part of a record that counts toward its owner's exposure.
Held(r) == r.prepaid + (IF r.status = "Active" THEN r.amount ELSE 0)

Exposure(u) == compute_subscriber_exposure(u)

\* The rewritten record is Active again, of another plan, holds no more than it
\* did, or passed the credit check for what it holds more.
Guarded(s, r) ==
    \/ sub[s].status # "Active" /\ r.status = "Active"
    \/ r.plan # sub[s].plan
    \/ Held(r) <= Held(sub[s])
    \/ credit[r.owner] # 0 => Exposure(r.owner) + (Held(r) - Held(sub[s])) <= credit[r.owner]

\* The payment date and ChargedPeriod are what they were, and only a migration
\* changes the interval; or they are those of a payment now.
Timed(s, r) ==
    \/ /\ r.last = sub[s].last /\ r.period = sub[s].period
       /\ r.interval = sub[s].interval \/ r.plan # sub[s].plan
    \/ r.last = now /\ r.interval = sub[s].interval /\ r.period = period_index(r)

Rewritten(s, r) ==
    /\ Exists(s) /\ r.status # "Absent" /\ can_transition(sub[s].status, r.status)
    /\ r.owner = sub[s].owner /\ r.start = sub[s].start
    /\ sub' = [sub EXCEPT ![s] = r]
    /\ UNCHANGED <<now, window, credit>>
    /\ Guarded(s, r) /\ Timed(s, r)

\* A new record, of a subscriber who is admitted, with the amount they are.
Entered(s, u, r) ==
    /\ ~Exists(s)
    /\ r.owner = u /\ r.status = "Active" /\ r.start = now /\ r.prepaid = 0
    /\ r.period = None
    /\ sub' = [sub EXCEPT ![s] = r]
    /\ window' = [window EXCEPT ![u] = create_window(u)]
    /\ UNCHANGED <<now, credit>>
    /\ enforce_creation_rate_limit(u)
    /\ credit[u] # 0 => Exposure(u) + r.amount <= credit[u]

\* Both ways to create a subscription enter one record.
LEMMA EnteredOne ==
    ASSUME PlanInv, NEW s \in Subs, NEW u \in Subscribers, NEW m \in Merchants,
           NEW o, o.amount \in Nat, o.interval \in Positive, o.trial \in Nat,
           NEW cap \in Cap, NEW p \in Nat, Enter(s, u, m, o, cap, p),
           ~Exists(s), Admitted(u, m, o.amount)
    PROVE  \E r \in Row : Entered(s, u, r)
<1> DEFINE r == [Absent EXCEPT !.owner = u, !.merchant = m, !.status = "Active",
                   !.amount = o.amount, !.interval = o.interval, !.start = now,
                   !.last = now + o.trial, !.cap = cap, !.plan = p]
<1>1. now \in Nat /\ now + o.trial \in Nat
  BY DEF PlanInv, Types
<1>2. Absent \in Row /\ "Active" \in Reached \cup {"Absent"}
  BY DEF Absent, Row, Reached, Positive, Cap, None
<1>3. r \in Row
  BY <1>1, <1>2 DEF Row
<1>4. /\ r.owner = u /\ r.status = "Active" /\ r.start = now /\ r.amount = o.amount
      /\ r.prepaid = Absent.prepaid /\ Absent.prepaid = 0
      /\ r.period = Absent.period /\ Absent.period = None
  BY <1>2 DEF Row, Absent
<1>5. /\ sub' = [sub EXCEPT ![s] = r] /\ UNCHANGED <<now, credit>>
      /\ window' = [window EXCEPT ![u] = create_window(u)]
  BY DEF Enter, config_vars
<1>6. /\ enforce_creation_rate_limit(u)
      /\ credit[u] # 0 => Exposure(u) + o.amount <= credit[u]
  BY DEF Admitted, enforce_credit_limit_for_delta, Exposure
<1> HIDE DEF r
<1>7. Entered(s, u, r)
  BY <1>4, <1>5, <1>6 DEF Entered
<1> QED
  BY <1>3, <1>7

\* Creations enter a record, migrations rewrite one.
LEMMA SubscribingKind ==
    ASSUME PlanInv, NEW s \in Subs, Subscribing(s)
    PROVE  \E r \in Row : Rewritten(s, r) \/ \E u \in Subscribers : Entered(s, u, r)
<1>1. ASSUME NEW u \in Subscribers, NEW m \in Merchants, NEW o \in DirectTerms,
             CreateSubscription(s, u, m, o)
      PROVE  \E r \in Row : Entered(s, u, r)
  <2> DEFINE untried == [o EXCEPT !.trial = 0]
             cap == resolve_cap(m, o.cap)
  <2>1. o \in Offer
    BY PlansAssumption
  <2>2. untried.amount = o.amount /\ untried.interval = o.interval /\ untried.trial = 0
    BY <2>1 DEF Offer
  <2>3. o.amount \in Nat /\ o.interval \in Positive /\ o.cap \in Cap
    BY <2>1, OfferFields DEF Positive
  <2>4. cap \in Cap
    BY <2>3, ResolvedCap DEF PlanInv
  <2>5. Enter(s, u, m, untried, cap, 0) /\ ~Exists(s) /\ Admitted(u, m, o.amount)
    BY <1>1 DEF CreateSubscription
  <2> HIDE DEF untried, cap
  <2>6. untried.amount \in Nat /\ untried.interval \in Positive /\ untried.trial \in Nat
    BY <2>2, <2>3
  <2>7. Admitted(u, m, untried.amount)
    BY <2>2, <2>5
  <2> QED
    BY <2>4, <2>5, <2>6, <2>7, EnteredOne
<1>2. ASSUME NEW u \in Subscribers, NEW p \in DOMAIN plan, CreateSubscriptionFromPlan(s, u, p)
      PROVE  \E r \in Row : Entered(s, u, r)
  <2>1. /\ p \in Nat /\ plan[p].merchant \in Merchants
        /\ plan[p].amount \in Nat /\ plan[p].interval \in Positive
        /\ plan[p].cap \in Cap /\ plan[p].trial \in Nat
    BY PlanFields DEF PlanInv, Positive
  <2>2. resolve_cap(plan[p].merchant, plan[p].cap) \in Cap
    BY <2>1, ResolvedCap DEF PlanInv
  <2>3. /\ Enter(s, u, plan[p].merchant, plan[p], resolve_cap(plan[p].merchant, plan[p].cap), p)
        /\ ~Exists(s) /\ Admitted(u, plan[p].merchant, plan[p].amount)
    BY <1>2 DEF CreateSubscriptionFromPlan
  <2> QED
    BY <2>1, <2>2, <2>3, EnteredOne
<1>3. ASSUME NEW p \in DOMAIN plan, MigrateSubscriptionToPlan(s, p)
      PROVE  \E r \in Row : Rewritten(s, r)
  <2> DEFINE r == [sub[s] EXCEPT !.cap = plan[p].cap, !.amount = plan[p].amount,
                                 !.interval = plan[p].interval, !.plan = p]
  <2>1. /\ p \in Nat \ {0} /\ plan[p].amount \in Positive
        /\ plan[p].interval \in Positive /\ plan[p].cap \in Cap /\ plan[p].version \in Nat
    BY PlanFields DEF PlanInv
  <2>2. sub[s] \in Row
    BY RowFields DEF PlanInv
  <2>3. r \in Row
    BY <2>1, <2>2 DEF Row, Positive
  <2>4. /\ r.plan = p /\ r.owner = sub[s].owner /\ r.start = sub[s].start
        /\ r.status = sub[s].status /\ r.last = sub[s].last /\ r.period = sub[s].period
    BY <2>2 DEF Row
  <2>5. /\ Exists(s) /\ plan[p].version > plan[sub[s].plan].version
        /\ sub' = [sub EXCEPT ![s] = r] /\ UNCHANGED <<now, window, credit>>
    BY <1>3 DEF MigrateSubscriptionToPlan, config_vars
  <2>6. p # sub[s].plan
    BY <2>1, <2>5
  <2> HIDE DEF r
  <2>7. Rewritten(s, r)
    BY <2>4, <2>5, <2>6 DEF Rewritten, Guarded, Timed, Exists, can_transition
  <2> QED
    BY <2>3, <2>7
<1> QED
  BY <1>1, <1>2, <1>3 DEF Subscribing

\* Statuses alone: nothing more is held unless the subscription becomes Active.
LEMMA StatusKind ==
    ASSUME PlanInv, NEW s \in Subs, Exists(s), NEW st \in Reached,
           can_transition(sub[s].status, st),
           write_subscription(s, [sub[s] EXCEPT !.status = st])
    PROVE  \E r \in Row : Rewritten(s, r)
<1> DEFINE r == [sub[s] EXCEPT !.status = st]
<1>1. sub[s] \in Row /\ sub[s].amount \in Nat /\ sub[s].prepaid \in Nat
  BY RowFields DEF PlanInv
<1>2. r \in Row
  BY <1>1 DEF Row
<1>3. /\ r.owner = sub[s].owner /\ r.start = sub[s].start /\ r.status = st
      /\ r.prepaid = sub[s].prepaid /\ r.amount = sub[s].amount /\ st # "Absent"
      /\ r.last = sub[s].last /\ r.period = sub[s].period /\ r.interval = sub[s].interval
  BY <1>1 DEF Row, Reached
<1>4. sub' = [sub EXCEPT ![s] = r] /\ UNCHANGED <<now, window, credit>>
  BY DEF write_subscription, config_vars
<1> HIDE DEF r
<1>5. Guarded(s, r)
  BY <1>1, <1>3 DEF Guarded, Held
<1>6. Rewritten(s, r)
  BY <1>3, <1>4, <1>5 DEF Rewritten, Timed
<1> QED
  BY <1>2, <1>6

\* A subscription may be cancelled from each status it gets to.
LEMMA CancellationKept ==
    ASSUME PlanInv, NEW s \in Subs, Exists(s)
    PROVE  can_transition(sub[s].status, "Cancelled")
BY RowFields DEF PlanInv, Exists, Reached, can_transition, get_allowed_transitions

\* A deposit passes the credit check for what it adds, a payer's may resume.
LEMMA DepositKind ==
    ASSUME PlanInv, NEW s \in Subs, NEW a \in DepositAmounts, NEW by, DepositFunds(s, a, by)
    PROVE  \E r \in Row : Rewritten(s, r)
<1> DEFINE recovers == /\ by = "payer" /\ sub[s].status = "InsufficientBalance"
                       /\ sub[s].prepaid + a >= sub[s].amount
           st == IF recovers THEN "Active" ELSE sub[s].status
           p == sub[s].prepaid + a
           r == [sub[s] EXCEPT !.prepaid = p, !.status = st]
<1>1. /\ sub[s] \in Row /\ p \in Nat /\ a \in Nat /\ sub[s].prepaid \in Nat
      /\ sub[s].amount \in Nat
  BY RowFields, PlansAssumption DEF PlanInv
<1>2. st \in Reached /\ Exists(s)
  BY <1>1, RowFields DEF PlanInv, DepositFunds, Exists, Reached
<1>3. sub' = [sub EXCEPT ![s] = r] /\ UNCHANGED <<now, window, credit>>
  BY <1>1 DEF DepositFunds, write_subscription, Row, config_vars
<1>4. credit[sub[s].owner] # 0 => Exposure(sub[s].owner) + a <= credit[sub[s].owner]
  BY DEF DepositFunds, enforce_credit_limit_for_delta, Exposure
<1>5. /\ st # sub[s].status => sub[s].status # "Active" /\ st = "Active"
      /\ can_transition(sub[s].status, st)
  BY DEF can_transition, get_allowed_transitions
<1> HIDE DEF st
<1>6. r \in Row
  BY <1>1, <1>2 DEF Row
<1>7. /\ r.owner = sub[s].owner /\ r.start = sub[s].start /\ r.status = st
      /\ r.prepaid = sub[s].prepaid + a /\ r.amount = sub[s].amount /\ st # "Absent"
      /\ r.last = sub[s].last /\ r.period = sub[s].period /\ r.interval = sub[s].interval
  BY <1>1, <1>2 DEF Row, Reached
<1> HIDE DEF r
<1>8. Guarded(s, r)
  <2>1. CASE st = sub[s].status
    <3>1. Held(r) - Held(sub[s]) = a
      BY <1>1, <1>7, <2>1 DEF Held
    <3> QED
      BY <1>4, <1>7, <3>1 DEF Guarded
  <2>2. CASE st # sub[s].status
    BY <1>5, <1>7, <2>2 DEF Guarded
  <2> QED
    BY <2>1, <2>2
<1>9. Rewritten(s, r)
  BY <1>2, <1>3, <1>5, <1>7, <1>8 DEF Rewritten, Timed
<1> QED
  BY <1>6, <1>9

\* A collected charge leaves less prepaid, and Active only what it was from.
LEMMA ChargeKind ==
    ASSUME PlanInv, NEW s \in Subs, ChargeSubscription(s)
    PROVE  \E r \in Row : Rewritten(s, r)
<1> DEFINE r == sub[s]
           paid == [r EXCEPT !.prepaid = @ - r.amount, !.charged = @ + r.amount, !.last = now,
                             !.period = period_index(r)]
           st == IF lifetime_cap_reached(paid) THEN "Cancelled" ELSE "Active"
           r2 == [paid EXCEPT !.status = st]
<1>0. Exists(s) /\ \A next \in {"Active", "InsufficientBalance", "Cancelled"} :
                       can_transition(sub[s].status, next)
  BY DEF ChargeSubscription, ChargeDue, Exists, can_transition, get_allowed_transitions
<1>1. CASE r.prepaid < r.amount
  <2>1. write_subscription(s, [sub[s] EXCEPT !.status = "InsufficientBalance"])
    BY <1>1, RowFields DEF ChargeSubscription, PlanInv
  <2>2. "InsufficientBalance" \in Reached
    BY DEF Reached
  <2> QED
    BY <1>0, <2>1, <2>2, StatusKind
<1>2. CASE ~(r.prepaid < r.amount)
  <2>1. /\ r \in Row /\ r.amount \in Nat /\ r.prepaid \in Nat /\ r.charged \in Nat
        /\ r.interval \in Positive /\ r.start \in Nat /\ now \in Nat
    BY RowFields DEF PlanInv, Types
  <2>2. r.prepaid - r.amount \in Nat /\ r.charged + r.amount \in Nat /\ period_index(r) \in Int
    BY <1>2, <2>1 DEF period_index, Positive
  <2>3. paid \in Row
    BY <2>1, <2>2 DEF Row
  <2>4. /\ paid.owner = r.owner /\ paid.start = r.start /\ paid.amount = r.amount
        /\ paid.prepaid = r.prepaid - r.amount /\ paid.last = now
        /\ paid.interval = r.interval /\ paid.period = period_index(r)
    BY <2>1 DEF Row
  <2>5. st \in Reached /\ st \in {"Cancelled", "Active"}
    BY DEF Reached
  <2>6. sub' = [sub EXCEPT ![s] = r2] /\ UNCHANGED <<now, window, credit>>
    BY <1>2, <2>1 DEF ChargeSubscription, write_subscription, config_vars
  <2> HIDE DEF paid, st
  <2>7. /\ r2 \in Row /\ r2.owner = paid.owner /\ r2.start = paid.start
        /\ r2.amount = paid.amount /\ r2.prepaid = paid.prepaid /\ r2.status = st
        /\ r2.last = paid.last /\ r2.interval = paid.interval /\ r2.period = paid.period
    BY <2>3, <2>5 DEF Row
  <2> HIDE DEF r2
  <2>8. Guarded(s, r2)
    BY <2>1, <2>4, <2>5, <2>7 DEF Guarded, Held
  <2>9. Timed(s, r2)
    BY <2>4, <2>7 DEF Timed, period_index
  <2>10. Rewritten(s, r2)
    BY <1>0, <2>4, <2>5, <2>6, <2>7, <2>8, <2>9 DEF Rewritten
  <2> QED
    BY <2>7, <2>10
<1> QED
  BY <1>1, <1>2

\* The other calls on a subscription rewrite its record.
LEMMA RunningKind ==
    ASSUME PlanInv, NEW s \in Subs, Running(s)
    PROVE  \E r \in Row : Rewritten(s, r)
<1>1. {"Cancelled", "Paused", "Active"} \subseteq Reached
  BY DEF Reached
<1>2. ASSUME ChargeOverCap(s) \/ PauseSubscription(s) \/ ResumeSubscription(s)
      PROVE  \E r \in Row : Rewritten(s, r)
  BY <1>1, <1>2, StatusKind, CancellationKept
  DEF ChargeOverCap, PauseSubscription, ResumeSubscription
<1>3. sub[s] \in Row /\ sub[s].amount \in Nat /\ sub[s].prepaid \in Nat
  BY RowFields DEF PlanInv
<1>4. ASSUME CancelSubscription(s) PROVE \E r \in Row : Rewritten(s, r)
  <2> DEFINE r == [sub[s] EXCEPT !.status = "Cancelled", !.prepaid = 0]
  <2>1. r \in Row
    BY <1>1, <1>3 DEF Row
  <2>2. /\ r.owner = sub[s].owner /\ r.start = sub[s].start /\ r.status = "Cancelled"
        /\ r.prepaid = 0 /\ r.amount = sub[s].amount /\ r.last = sub[s].last
        /\ r.period = sub[s].period /\ r.interval = sub[s].interval
    BY <1>3 DEF Row
  <2>3. Exists(s) /\ sub' = [sub EXCEPT ![s] = r] /\ UNCHANGED <<now, window, credit>>
    BY <1>4 DEF CancelSubscription, write_subscription, config_vars
  <2> HIDE DEF r
  <2>4. Guarded(s, r)
    BY <1>3, <2>2 DEF Guarded, Held
  <2>5. Rewritten(s, r)
    BY <2>2, <2>3, <2>4, CancellationKept DEF Rewritten, Timed
  <2> QED
    BY <2>1, <2>5
<1>5. ASSUME NEW cap \in CapChoices, UpdateSubscriptionCap(s, cap)
      PROVE  \E r \in Row : Rewritten(s, r)
  <2> DEFINE r == [sub[s] EXCEPT !.cap = cap]
  <2>1. cap \in Cap
    BY PlansAssumption DEF Cap
  <2>2. r \in Row
    BY <1>3, <2>1 DEF Row
  <2>3. /\ r.owner = sub[s].owner /\ r.start = sub[s].start /\ r.status = sub[s].status
        /\ r.prepaid = sub[s].prepaid /\ r.amount = sub[s].amount /\ r.last = sub[s].last
        /\ r.period = sub[s].period /\ r.interval = sub[s].interval
    BY <1>3 DEF Row
  <2>4. Exists(s) /\ sub' = [sub EXCEPT ![s] = r] /\ UNCHANGED <<now, window, credit>>
    BY <1>5 DEF UpdateSubscriptionCap, write_subscription, config_vars
  <2> HIDE DEF r
  <2>5. Guarded(s, r)
    BY <1>3, <2>3 DEF Guarded, Held
  <2>6. Rewritten(s, r)
    BY <2>3, <2>4, <2>5 DEF Rewritten, Timed, Exists, can_transition
  <2> QED
    BY <2>2, <2>6
<1> QED
  BY <1>2, <1>4, <1>5, DepositKind, ChargeKind DEF Running

\* The kinds of steps there are.
LEMMA StepKinds ==
    ASSUME PlanInv, [Next]_vars
    PROVE  \/ \E s \in Subs, r \in Row : Rewritten(s, r)
           \/ \E s \in Subs, r \in Row, u \in Subscribers : Entered(s, u, r)
           \/ UNCHANGED <<sub, window>> /\ now' \in Nat /\ now' >= now
<1>1. now \in Nat
  BY DEF PlanInv, Types
<1>2. CASE Tick
  BY <1>1, <1>2 DEF Tick
<1>3. CASE UNCHANGED vars
  BY <1>1, <1>3 DEF vars
<1>4. CASE Limits
  BY <1>1, <1>4
  DEF Limits, SetSubscriberCreditLimit, SetSubscriberActiveCap, SetMerchantMaxSubs,
      SetMerchantCapDefault, SetGlobalCapDefault
<1>5. CASE \E m \in Merchants : Catalogue(m)
  <2>1. UNCHANGED <<sub, window, now>>
    BY <1>5
    DEF Catalogue, CreatePlanTemplate, RegisterPlan, UpdatePlanTemplate, DeprecatePlan,
        SetPlanMaxActiveSubs
  <2> QED
    BY <1>1, <2>1
<1>6. CASE \E s \in Subs : Subscribing(s)
  BY <1>6, SubscribingKind
<1>7. CASE \E s \in Subs : Running(s)
  BY <1>7, RunningKind
<1> QED
  BY <1>2, <1>3, <1>4, <1>5, <1>6, <1>7 DEF Next

-----------------------------------------------------------------------------
(* The creation rate.                                                      *)

\* The subscriptions of u that are dated from a to b.
Created(f, u, a, b) == {s \in Subs : f[s].owner = u /\ f[s].start \in a..b}

Fresh(s) == sub[s].status = "Absent" <=> sub[s].owner = "none"

\* The window w of one subscriber: it began with a creation and holds all that came
\* after it; it counts them, within the cap. Fewer than the cap lie less than a day
\* before it, because the one that began the previous window does not.
Windowed(u, w) ==
    /\ w.count = 0 => OwnedBy(u) = {}
    /\ w.count # 0 => /\ w.start <= now
                      /\ \E s \in OwnedBy(u) : sub[s].start = w.start
                      /\ \A s \in OwnedBy(u) : sub[s].start < w.start + Day
    /\ \A s \in OwnedBy(u) : sub[s].start <= now
    /\ Cardinality(Created(sub, u, w.start, w.start + Day - 1)) <= w.count
    /\ w.count <= CreateCap
    /\ Cardinality(Created(sub, u, w.start - Day + 1, w.start - 1)) <= CreateCap - 1

\* Any stretch of a day.
RateHolds(u) == \A t \in Int : Cardinality(Created(sub, u, t, t + Day - 1)) < 2 * CreateCap

Window == [start : Nat, count : Nat]

RateInv ==
    /\ window \in [Subscribers -> Window]
    /\ \A s \in Subs : Fresh(s)
    /\ \A u \in Subscribers : Windowed(u, window[u]) /\ RateHolds(u)

\* There are finitely many subscriptions to count.
LEMMA CreatedFinite ==
    ASSUME NEW f, NEW u, NEW a, NEW b
    PROVE  IsFiniteSet(Created(f, u, a, b)) /\ Cardinality(Created(f, u, a, b)) \in Nat
<1>1. IsFiniteSet(Created(f, u, a, b))
  BY PlansAssumption, FS_Subset DEF Created
<1> QED
  BY <1>1, FS_CardinalityType

\* Records keep their owner and date, and the clock does not go back.
LEMMA RateKept ==
    ASSUME PlanInv, RateInv, window' = window, now' \in Nat, now' >= now,
           \A s \in Subs : /\ sub'[s].owner = sub[s].owner /\ sub'[s].start = sub[s].start
                           /\ sub'[s].status = "Absent" <=> sub[s].status = "Absent"
    PROVE  RateInv'
<1>1. \A u, a, b : Created(sub', u, a, b) = Created(sub, u, a, b)
  BY DEF Created
<1>2. \A u : OwnedBy(u)' = OwnedBy(u)
  BY DEF OwnedBy
<1>3. ASSUME NEW u \in Subscribers PROVE Windowed(u, window[u])'
  <2> DEFINE w == window[u]
  <2>1. Windowed(u, w) /\ w \in Window
    BY DEF RateInv
  <2>2. PICK y \in Nat, x \in Nat : y = now' /\ x = now /\ y >= x
    BY DEF PlanInv, Types
  <2>3. w.start \in Nat
    BY <2>1 DEF Window
  <2>4. window'[u] = w
    OBVIOUS
  <2>5. \A s \in OwnedBy(u) : sub'[s].start = sub[s].start /\ sub[s].start \in Nat
    BY RowFields DEF OwnedBy, PlanInv
  <2>6. w.start <= x => w.start <= y
    BY <2>2, <2>3
  <2>7. \A s \in OwnedBy(u) : sub[s].start <= x => sub[s].start <= y
    BY <2>2, <2>5
  <2> HIDE DEF w
  <2> QED
    BY <1>1, <1>2, <2>1, <2>2, <2>4, <2>5, <2>6, <2>7 DEF Windowed
<1>4. \A u \in Subscribers : RateHolds(u)'
  BY <1>1 DEF RateInv, RateHolds
<1>5. \A s \in Subs : Fresh(s)'
  BY DEF RateInv, Fresh
<1> QED
  BY <1>3, <1>4, <1>5 DEF RateInv

\* A new subscription of u is in the stretches that contain the present, and it
\* was in no stretch before.
LEMMA CreatedMore ==
    ASSUME PlanInv, RateInv, NEW s \in Subs, NEW u \in Subscribers, NEW r \in Row,
           Entered(s, u, r), NEW a \in Int, NEW b \in Int
    PROVE  /\ \A v \in Subscribers \ {u} : Created(sub', v, a, b) = Created(sub, v, a, b)
           /\ now \in a..b =>
                 /\ Created(sub', u, a, b) = Created(sub, u, a, b) \cup {s}
                 /\ Cardinality(Created(sub', u, a, b)) = Cardinality(Created(sub, u, a, b)) + 1
           /\ now \notin a..b => Created(sub', u, a, b) = Created(sub, u, a, b)
<1>1. /\ sub'[s].owner = u /\ sub'[s].start = now
      /\ \A t \in Subs \ {s} : sub'[t] = sub[t]
  BY DEF Entered, PlanInv, Types
<1>2. sub[s].owner = "none" /\ "none" \notin Subscribers
  BY PlansAssumption DEF Entered, Exists, RateInv, Fresh
<1>3. \A v \in Subscribers \ {u} : Created(sub', v, a, b) = Created(sub, v, a, b)
  BY <1>1, <1>2 DEF Created
<1>4. now \notin a..b => Created(sub', u, a, b) = Created(sub, u, a, b)
  BY <1>1, <1>2 DEF Created
<1>5. ASSUME now \in a..b
      PROVE  /\ Created(sub', u, a, b) = Created(sub, u, a, b) \cup {s}
             /\ Cardinality(Created(sub', u, a, b)) = Cardinality(Created(sub, u, a, b)) + 1
  <2>1. Created(sub', u, a, b) = Created(sub, u, a, b) \cup {s}
    BY <1>1, <1>2, <1>5 DEF Created
  <2>2. s \notin Created(sub, u, a, b)
    BY <1>2 DEF Created
  <2> QED
    BY <2>1, <2>2, CreatedFinite, FS_AddElement
<1> QED
  BY <1>3, <1>4, <1>5

\* The windows of the others do not change.
LEMMA OthersWindowed ==
    ASSUME PlanInv, RateInv, NEW s \in Subs, NEW u \in Subscribers, NEW r \in Row,
           Entered(s, u, r), NEW v \in Subscribers, v # u
    PROVE  Windowed(v, window[v])' /\ RateHolds(v)'
<1> DEFINE w == window[v]
<1>1. Windowed(v, w) /\ w \in Window
  BY DEF RateInv
<1>2. w.start \in Int /\ Day \in Int
  BY <1>1, PlansAssumption DEF Window
<1>3. window'[v] = w /\ now' = now
  BY DEF Entered, RateInv
<1>4. \A a \in Int, b \in Int : Created(sub', v, a, b) = Created(sub, v, a, b)
  BY CreatedMore
<1>5. /\ sub'[s].owner = u /\ \A t \in Subs \ {s} : sub'[t] = sub[t]
      /\ sub[s].owner = "none" /\ "none" \notin Subscribers
  BY PlansAssumption DEF Entered, PlanInv, Types, Exists, RateInv, Fresh
<1>6. OwnedBy(v)' = OwnedBy(v) /\ \A t \in OwnedBy(v) : sub'[t] = sub[t]
  BY <1>5 DEF OwnedBy
<1> HIDE DEF w
<1>7. /\ w.start + Day - 1 \in Int /\ w.start - Day + 1 \in Int /\ w.start - 1 \in Int
  BY <1>2
<1>8. /\ Created(sub', v, w.start, w.start + Day - 1) = Created(sub, v, w.start, w.start + Day - 1)
      /\ Created(sub', v, w.start - Day + 1, w.start - 1)
           = Created(sub, v, w.start - Day + 1, w.start - 1)
  BY <1>2, <1>4, <1>7
<1>9. Windowed(v, window[v])'
  BY <1>1, <1>3, <1>6, <1>8 DEF Windowed
<1>10. RateHolds(v)'
  <2>1. \A t \in Int : t + Day - 1 \in Int
    BY <1>2
  <2>2. \A t \in Int : Created(sub', v, t, t + Day - 1) = Created(sub, v, t, t + Day - 1)
    BY <1>4, <2>1
  <2> QED
    BY <2>2 DEF RateInv, RateHolds
<1> QED
  BY <1>9, <1>10

\* The window of the subscriber itself, when it goes on.
LEMMA WindowGoesOn ==
    ASSUME PlanInv, RateInv, NEW s \in Subs, NEW u \in Subscribers, NEW r \in Row,
           Entered(s, u, r), window[u].count # 0, now < window[u].start + Day
    PROVE  Windowed(u, window[u])'
<1> DEFINE w == window[u]
           w2 == [w EXCEPT !.count = @ + 1]
<1>1. Windowed(u, w) /\ w \in Window /\ w.count # 0 /\ now < w.start + Day
  BY DEF RateInv
<1>2. w.start \in Nat /\ w.count \in Nat /\ Day \in Nat \ {0} /\ now \in Nat
  BY <1>1, PlansAssumption DEF Window, PlanInv, Types
<1>3. ~(now >= w.start + Day)
  BY <1>1, <1>2
<1>4. create_window(u) = w2
  BY <1>1, <1>3 DEF create_window
<1>5. w2.start = w.start /\ w2.count = w.count + 1
  BY <1>1 DEF Window
<1> HIDE DEF w2
<1>6. window'[u] = w2 /\ now' = now /\ w2.count <= CreateCap
  BY <1>4 DEF Entered, RateInv, enforce_creation_rate_limit
<1>7. /\ sub'[s].owner = u /\ sub'[s].start = now
      /\ \A t \in Subs \ {s} : sub'[t] = sub[t]
      /\ sub[s].owner = "none" /\ "none" \notin Subscribers
  BY PlansAssumption DEF Entered, PlanInv, Types, Exists, RateInv, Fresh
<1>8. /\ OwnedBy(u)' = OwnedBy(u) \cup {s} /\ s \notin OwnedBy(u)
      /\ \A t \in OwnedBy(u) : sub'[t] = sub[t] /\ sub[t].start \in Nat
  BY <1>7, RowFields DEF OwnedBy, PlanInv
<1> HIDE DEF w
<1>9. /\ w.start <= now /\ \E t \in OwnedBy(u) : sub[t].start = w.start
      /\ \A t \in OwnedBy(u) : sub[t].start < w.start + Day /\ sub[t].start <= now
  BY <1>1 DEF Windowed
<1>10. /\ w.start <= now /\ \E t \in OwnedBy(u)' : sub'[t].start = w.start
       /\ \A t \in OwnedBy(u)' : sub'[t].start < w.start + Day /\ sub'[t].start <= now
  BY <1>1, <1>2, <1>7, <1>8, <1>9
<1>11. Cardinality(Created(sub', u, w.start, w.start + Day - 1)) <= w.count + 1
  <2>1. now \in w.start..(w.start + Day - 1) /\ w.start \in Int /\ w.start + Day - 1 \in Int
    BY <1>1, <1>2, <1>9
  <2>2. Cardinality(Created(sub', u, w.start, w.start + Day - 1))
          = Cardinality(Created(sub, u, w.start, w.start + Day - 1)) + 1
    BY <2>1, CreatedMore
  <2>3. Cardinality(Created(sub, u, w.start, w.start + Day - 1)) \in Nat
    BY CreatedFinite
  <2> QED
    BY <1>1, <1>2, <2>2, <2>3 DEF Windowed
<1>12. Cardinality(Created(sub', u, w.start - Day + 1, w.start - 1)) <= CreateCap - 1
  <2>1. /\ now \notin (w.start - Day + 1)..(w.start - 1)
        /\ w.start - Day + 1 \in Int /\ w.start - 1 \in Int
    BY <1>2, <1>9
  <2>2. Created(sub', u, w.start - Day + 1, w.start - 1)
          = Created(sub, u, w.start - Day + 1, w.start - 1)
    BY <2>1, CreatedMore
  <2> QED
    BY <1>1, <2>2 DEF Windowed
<1>13. w2.count # 0
  BY <1>2, <1>5
<1> QED
  BY <1>5, <1>6, <1>10, <1>11, <1>12, <1>13 DEF Windowed

\* A window that begins: the last one began at least a day ago.
LEMMA WindowBegins ==
    ASSUME PlanInv, RateInv, NEW s \in Subs, NEW u \in Subscribers, NEW r \in Row,
           Entered(s, u, r), window[u].count = 0 \/ now >= window[u].start + Day
    PROVE  Windowed(u, window[u])'
<1> DEFINE w == window[u]
           w2 == [start |-> now, count |-> 1]
<1>1. Windowed(u, w) /\ w \in Window /\ (w.count = 0 \/ now >= w.start + Day)
  BY DEF RateInv
<1>2. /\ w.start \in Nat /\ w.count \in Nat /\ Day \in Nat \ {0} /\ now \in Nat
      /\ CreateCap \in Nat \ {0}
  BY <1>1, PlansAssumption DEF Window, PlanInv, Types
<1>3. create_window(u) = w2
  BY <1>1 DEF create_window
<1>4. w2.start = now /\ w2.count = 1
  OBVIOUS
<1> HIDE DEF w2
<1>5. window'[u] = w2 /\ now' = now
  BY <1>3 DEF Entered, RateInv
<1>6. /\ sub'[s].owner = u /\ sub'[s].start = now
      /\ \A t \in Subs \ {s} : sub'[t] = sub[t]
      /\ sub[s].owner = "none" /\ "none" \notin Subscribers
  BY PlansAssumption DEF Entered, PlanInv, Types, Exists, RateInv, Fresh
<1>7. /\ OwnedBy(u)' = OwnedBy(u) \cup {s} /\ s \notin OwnedBy(u)
      /\ \A t \in OwnedBy(u) : sub'[t] = sub[t] /\ sub[t].start \in Nat
  BY <1>6, RowFields DEF OwnedBy, PlanInv
<1> HIDE DEF w
<1>8. \A t \in OwnedBy(u) : sub[t].start < now /\ sub[t].start < w.start + Day
  BY <1>1, <1>2, <1>7 DEF Windowed
<1>9. /\ now <= now /\ \E t \in OwnedBy(u)' : sub'[t].start = now
      /\ \A t \in OwnedBy(u)' : sub'[t].start < now + Day /\ sub'[t].start <= now
  BY <1>2, <1>6, <1>7, <1>8
<1>10. Cardinality(Created(sub', u, now, now + Day - 1)) = 1
  <2>1. now \in now..(now + Day - 1) /\ now \in Int /\ now + Day - 1 \in Int
    BY <1>2
  <2>2. Cardinality(Created(sub', u, now, now + Day - 1))
          = Cardinality(Created(sub, u, now, now + Day - 1)) + 1
    BY <2>1, CreatedMore
  <2>3. Created(sub, u, now, now + Day - 1) = {}
    BY <1>2, <1>7, <1>8 DEF Created, OwnedBy
  <2> QED
    BY <2>2, <2>3, FS_EmptySet
<1>11. Cardinality(Created(sub', u, now - Day + 1, now - 1)) <= CreateCap - 1
  <2> DEFINE A == Created(sub, u, now - Day + 1, now - 1)
             B == Created(sub, u, w.start, w.start + Day - 1)
  <2>1. now \notin (now - Day + 1)..(now - 1) /\ now - Day + 1 \in Int /\ now - 1 \in Int
    BY <1>2
  <2>2. Created(sub', u, now - Day + 1, now - 1) = A
    BY <2>1, CreatedMore
  <2>3. CASE w.count = 0
    <3>1. A = {}
      BY <1>1, <2>3 DEF Windowed, Created, OwnedBy
    <3>2. Cardinality({}) = 0
      BY FS_EmptySet
    <3>3. Created(sub', u, now - Day + 1, now - 1) = {}
      BY <2>2, <3>1
    <3>4. 0 <= CreateCap - 1
      BY <1>2
    <3> QED
      BY <3>2, <3>3, <3>4
  <2>4. CASE w.count # 0
    <3>1. now >= w.start + Day
      BY <1>1, <2>4
    <3>2. PICK t \in OwnedBy(u) : sub[t].start = w.start
      BY <1>1, <2>4 DEF Windowed
    <3>3. t \in B
      BY <1>2, <3>2 DEF Created, OwnedBy
    <3>4. A \subseteq B \ {t}
      <4>1. ASSUME NEW q \in A PROVE q \in B /\ q # t
        <5>1. q \in OwnedBy(u) /\ sub[q].start \in (now - Day + 1)..(now - 1)
          BY DEF Created, OwnedBy
        <5>2. /\ sub[q].start \in Nat /\ sub[q].start < w.start + Day
              /\ sub[q].start >= now - Day + 1
          BY <1>7, <1>8, <5>1
        <5>3. sub[q].start > w.start
          BY <1>2, <3>1, <5>2
        <5>4. sub[q].start \in w.start..(w.start + Day - 1)
          BY <1>2, <5>2, <5>3
        <5> QED
          BY <1>2, <3>2, <5>1, <5>2, <5>3, <5>4 DEF Created, OwnedBy
      <4> QED
        BY <4>1
    <3>5. IsFiniteSet(B) /\ Cardinality(B) \in Nat /\ Cardinality(A) \in Nat
      BY CreatedFinite
    <3> HIDE DEF A, B
    <3>6. IsFiniteSet(B \ {t}) /\ Cardinality(B \ {t}) = Cardinality(B) - 1
      BY <3>3, <3>5, FS_RemoveElement
    <3>7. Cardinality(A) <= Cardinality(B) - 1
      BY <3>4, <3>6, FS_Subset
    <3>8. Cardinality(B) <= w.count /\ w.count <= CreateCap
      BY <1>1 DEF Windowed, B
    <3> QED
      BY <1>2, <2>2, <3>5, <3>7, <3>8
  <2> QED
    BY <2>3, <2>4
<1> QED
  BY <1>2, <1>4, <1>5, <1>9, <1>10, <1>11 DEF Windowed

\* A stretch of a day that has the present in it lies in the present window and the
\* day before it.
LEMMA StretchHolds ==
    ASSUME PlanInv, RateInv, NEW s \in Subs, NEW u \in Subscribers, NEW r \in Row,
           Entered(s, u, r), NEW w \in Window, Windowed(u, w)', w.count # 0
    PROVE  RateHolds(u)'
<1> SUFFICES ASSUME NEW t \in Int
             PROVE  Cardinality(Created(sub', u, t, t + Day - 1)) < 2 * CreateCap
  BY DEF RateHolds
<1> DEFINE C == Created(sub', u, t, t + Day - 1)
           B == Created(sub', u, w.start, w.start + Day - 1)
           A == Created(sub', u, w.start - Day + 1, w.start - 1)
<1>1. /\ w.start \in Nat /\ w.count \in Nat /\ Day \in Nat \ {0} /\ now \in Nat /\ now' = now
      /\ CreateCap \in Nat \ {0} /\ t + Day - 1 \in Int
  BY PlansAssumption DEF Window, PlanInv, Types, Entered
<1>2. /\ IsFiniteSet(A) /\ IsFiniteSet(B) /\ Cardinality(A) \in Nat /\ Cardinality(B) \in Nat
      /\ IsFiniteSet(C) /\ Cardinality(C) \in Nat
  BY CreatedFinite
<1>3. CASE now \notin t..(t + Day - 1)
  <2>1. C = Created(sub, u, t, t + Day - 1)
    BY <1>1, <1>3, CreatedMore
  <2> QED
    BY <2>1 DEF RateInv, RateHolds
<1>4. CASE now \in t..(t + Day - 1)
  <2>1. w.start <= now
    BY <1>1 DEF Windowed
  <2>2. C \subseteq A \cup B
    <3>1. ASSUME NEW q \in C PROVE q \in A \cup B
      <4>1. /\ sub'[q].owner = u /\ q \in Subs
            /\ sub'[q].start \in t..(t + Day - 1)
        BY DEF Created
      <4>2. q \in OwnedBy(u)' /\ sub'[q].start < w.start + Day
        BY <4>1 DEF OwnedBy, Windowed
      <4>3. PICK z \in Int : z = sub'[q].start
        BY <4>1
      <4>4. z \in w.start..(w.start + Day - 1) \/ z \in (w.start - Day + 1)..(w.start - 1)
        BY <1>1, <1>4, <2>1, <4>1, <4>2, <4>3
      <4> QED
        BY <4>1, <4>3, <4>4 DEF Created
    <3> QED
      BY <3>1
  <2> HIDE DEF A, B, C
  <2>3. Cardinality(C) <= Cardinality(A) + Cardinality(B)
    <3>1. IsFiniteSet(A \cup B) /\ IsFiniteSet(A \cap B)
          /\ Cardinality(A \cup B) = Cardinality(A) + Cardinality(B) - Cardinality(A \cap B)
      BY <1>2, FS_Union, FS_Intersection
    <3>2. Cardinality(C) <= Cardinality(A \cup B)
      BY <2>2, <3>1, FS_Subset
    <3>3. Cardinality(A \cap B) \in Nat /\ Cardinality(A \cup B) \in Nat
      BY <3>1, FS_CardinalityType
    <3> QED
      BY <1>2, <3>1, <3>2, <3>3
  <2>4. /\ Cardinality(A) <= CreateCap - 1
        /\ Cardinality(B) <= w.count /\ w.count <= CreateCap
    BY DEF Windowed, A, B
  <2>5. Cardinality(C) < 2 * CreateCap
    BY <1>1, <1>2, <2>3, <2>4
  <2> QED
    BY <2>5 DEF C
<1> QED
  BY <1>3, <1>4

\* A creation counts in the window it falls into.
LEMMA RateEntered ==
    ASSUME PlanInv, RateInv, NEW s \in Subs, NEW u \in Subscribers, NEW r \in Row,
           Entered(s, u, r)
    PROVE  RateInv'
<1> DEFINE w == window[u]
<1>1. w \in Window /\ now \in Nat /\ Day \in Int
  BY PlansAssumption DEF RateInv, PlanInv, Types
<1>2. PICK w2 \in Window : w2 = create_window(u) /\ w2.count # 0
  <2>1. w.start \in Nat /\ w.count \in Nat
    BY <1>1 DEF Window
  <2>2. w.count + 1 \in Nat /\ w.count + 1 # 0 /\ 1 \in Nat
    BY <2>1
  <2>3. [w EXCEPT !.count = w.count + 1] \in Window /\ [w EXCEPT !.count = w.count + 1].count # 0
    BY <1>1, <2>2 DEF Window
  <2>4. [start |-> now, count |-> 1] \in Window /\ [start |-> now, count |-> 1].count # 0
    BY <1>1, <2>2 DEF Window
  <2> QED
    BY <2>3, <2>4 DEF create_window
<1>3. window' = [window EXCEPT ![u] = w2] /\ window \in [Subscribers -> Window]
  BY <1>2 DEF Entered, RateInv
<1>4. Windowed(u, window[u])'
  <2>1. w.start + Day \in Int
    BY <1>1 DEF Window
  <2>2. w.count = 0 \/ now >= w.start + Day \/ now < w.start + Day
    BY <1>1, <2>1
  <2> QED
    BY <2>2, WindowGoesOn, WindowBegins
<1>5. window'[u] = w2 /\ window' \in [Subscribers -> Window]
  BY <1>2, <1>3
<1>6. Windowed(u, w2)'
  BY <1>4, <1>5 DEF Windowed
<1>7. RateHolds(u)'
  BY <1>2, <1>6, StretchHolds
<1>8. \A v \in Subscribers : Windowed(v, window[v])' /\ RateHolds(v)'
  BY <1>4, <1>7, OthersWindowed
<1>9. ASSUME NEW t \in Subs PROVE Fresh(t)'
  <2>1. /\ sub'[s].owner = u /\ sub'[s].status = "Active" /\ u # "none"
        /\ t # s => sub'[t] = sub[t]
    BY PlansAssumption DEF Entered, PlanInv, Types
  <2> QED
    BY <2>1 DEF Fresh, RateInv
<1> QED
  BY <1>5, <1>8, <1>9 DEF RateInv

\* Every call keeps the invariant of the creation windows.
LEMMA RateStep == PlanInv /\ RateInv /\ [Next]_vars => RateInv'
<1> SUFFICES ASSUME PlanInv, RateInv, [Next]_vars PROVE RateInv'
  OBVIOUS
<1>1. ASSUME NEW s \in Subs, NEW r \in Row, Rewritten(s, r) PROVE RateInv'
  <2>1. sub'[s] = r /\ \A t \in Subs \ {s} : sub'[t] = sub[t]
    BY <1>1 DEF Rewritten, PlanInv, Types
  <2>2. \A t \in Subs : /\ sub'[t].owner = sub[t].owner /\ sub'[t].start = sub[t].start
                        /\ sub'[t].status = "Absent" <=> sub[t].status = "Absent"
    BY <1>1, <2>1 DEF Rewritten, Exists
  <2>3. window' = window /\ now' \in Nat /\ now' >= now
    BY <1>1 DEF Rewritten, PlanInv, Types
  <2> QED
    BY <2>2, <2>3, RateKept
<1>2. CASE UNCHANGED <<sub, window>> /\ now' \in Nat /\ now' >= now
  BY <1>2, RateKept
<1> QED
  BY <1>1, <1>2, RateEntered, StepKinds

\* Nobody has created anything at first.
LEMMA RateInit == Init => RateInv
<1> SUFFICES ASSUME Init PROVE RateInv
  OBVIOUS
<1>1. /\ window = [u \in Subscribers |-> [start |-> 0, count |-> 0]]
      /\ \A s \in Subs : sub[s].owner = "none" /\ sub[s].status = "Absent"
      /\ "none" \notin Subscribers /\ CreateCap \in Nat \ {0}
  BY PlansAssumption DEF Init, Absent
<1>2. \A u \in Subscribers : OwnedBy(u) = {} /\ \A a, b : Created(sub, u, a, b) = {}
  BY <1>1 DEF OwnedBy, Created
<1>3. window \in [Subscribers -> Window] /\ \A u \in Subscribers : window[u].count = 0
  BY <1>1 DEF Window
<1>4. /\ Cardinality({}) = 0 /\ 0 <= CreateCap /\ 0 <= CreateCap - 1 /\ 0 < 2 * CreateCap
  BY <1>1, FS_EmptySet
<1>5. \A u \in Subscribers : Windowed(u, window[u])
  <2> SUFFICES ASSUME NEW u \in Subscribers PROVE Windowed(u, window[u])
    OBVIOUS
  <2>1. /\ OwnedBy(u) = {} /\ window[u].count = 0
        /\ Created(sub, u, window[u].start, window[u].start + Day - 1) = {}
        /\ Created(sub, u, window[u].start - Day + 1, window[u].start - 1) = {}
    BY <1>2, <1>3
  <2> QED
    BY <1>4, <2>1 DEF Windowed
<1>6. \A u \in Subscribers : RateHolds(u)
  BY <1>2, <1>4 DEF RateHolds
<1> QED
  BY <1>1, <1>3, <1>5, <1>6 DEF RateInv, Fresh

\* In no stretch of a day does a subscriber create twice the cap, although the
\* window is fixed and not sliding.
THEOREM RateCorrect == Spec => []CreationRate
<1>1. RateInv => CreationRate
  <2> SUFFICES ASSUME RateInv, NEW u \in Subscribers, NEW t \in 0..MaxTime
               PROVE  Cardinality({s \in OwnedBy(u) : sub[s].start \in t..(t + Day - 1)})
                        < 2 * CreateCap
    BY DEF CreationRate
  <2>1. {s \in OwnedBy(u) : sub[s].start \in t..(t + Day - 1)} = Created(sub, u, t, t + Day - 1)
    BY DEF Created, OwnedBy
  <2>2. t \in Int
    OBVIOUS
  <2> QED
    BY <2>1, <2>2 DEF RateInv, RateHolds
<1> QED
  BY <1>1, RateInit, RateStep, PlanInit, PlanStep, PTL DEF Spec

-----------------------------------------------------------------------------
(* Exposure.                                                               *)

CreditTyped == credit \in [Subscribers -> Nat]

\* Credit limits keep their type.
LEMMA CreditStep == CreditTyped /\ [Next]_vars => CreditTyped'
<1> SUFFICES ASSUME CreditTyped, [Next]_vars PROVE CreditTyped'
  OBVIOUS
<1>1. CASE credit' = credit
  BY <1>1 DEF CreditTyped
<1>2. CASE Limits
  BY <1>1, <1>2, PlansAssumption
  DEF Limits, SetSubscriberCreditLimit, SetSubscriberActiveCap, SetMerchantMaxSubs,
      SetMerchantCapDefault, SetGlobalCapDefault, CreditTyped
<1>3. CASE Tick \/ UNCHANGED vars
  BY <1>1, <1>3 DEF Tick, vars, config_vars
<1>4. CASE \E m \in Merchants : Catalogue(m)
  BY <1>1, <1>4
  DEF Catalogue, CreatePlanTemplate, RegisterPlan, UpdatePlanTemplate, DeprecatePlan,
      SetPlanMaxActiveSubs, config_vars
<1>5. CASE \E s \in Subs : Subscribing(s)
  <2>1. \E s \in Subs : (\E u, m, o, cap, p : Enter(s, u, m, o, cap, p))
                        \/ (\E p : MigrateSubscriptionToPlan(s, p))
    BY <1>5 DEF Subscribing, CreateSubscription, CreateSubscriptionFromPlan
  <2> QED
    BY <1>1, <2>1 DEF Enter, MigrateSubscriptionToPlan, config_vars
<1>6. CASE \E s \in Subs : Running(s)
  <2>1. \E s \in Subs : \E r : write_subscription(s, r)
    BY <1>6
    DEF Running, DepositFunds, ChargeSubscription, ChargeOverCap, PauseSubscription,
        ResumeSubscription, CancelSubscription, UpdateSubscriptionCap
  <2> QED
    BY <1>1, <2>1 DEF write_subscription, config_vars
<1> QED
  BY <1>2, <1>3, <1>4, <1>5, <1>6 DEF Next

Holdings(f) == [s \in Subs |-> Held(f[s])]
Total(f, S) == SumFunctionOnSet(Holdings(f), S)

\* The exposure is a sum over the subscriptions of an owner.
LEMMA ExposureIs ==
    /\ \A u : Exposure(u) = Total(sub, OwnedBy(u))
    /\ \A u : Exposure(u)' = Total(sub', OwnedBy(u)')
BY DEF Exposure, compute_subscriber_exposure, Total, Holdings, Held

\* What a record adds to the exposure is a natural number.
LEMMA HeldNat == ASSUME NEW r \in Row PROVE Held(r) \in Nat
<1>1. r.prepaid \in Nat /\ r.amount \in Nat
  BY DEF Row
<1> QED
  BY <1>1 DEF Held

\* What a step does to the exposure of a subscriber it leaves the records of.
LEMMA ExposureSame ==
    ASSUME PlanInv, NEW u \in Subscribers, OwnedBy(u)' = OwnedBy(u),
           \A s \in OwnedBy(u) : sub'[s] = sub[s]
    PROVE  Exposure(u)' = Exposure(u)
<1> DEFINE S == OwnedBy(u)
<1>1. IsFiniteSet(S) /\ S \subseteq Subs
  BY PlansAssumption, FS_Subset DEF OwnedBy
<1>2. \A s \in S : Holdings(sub')[s] = Holdings(sub)[s]
  BY <1>1 DEF Holdings
<1> HIDE DEF S
<1>3. Total(sub', S) = Total(sub, S)
  BY <1>1, <1>2, SumSame DEF Total
<1> QED
  BY <1>3, ExposureIs DEF S

\* Rewriting a record moves its owner's exposure by the difference.
LEMMA ExposureRewritten ==
    ASSUME PlanInv, NEW s \in Subs, NEW r \in Row, Rewritten(s, r),
           NEW u \in Subscribers, sub[s].owner = u
    PROVE  /\ Exposure(u)' = Exposure(u) + Held(r) - Held(sub[s])
           /\ Exposure(u) \in Int /\ Held(r) \in Int /\ Held(sub[s]) \in Int
<1> DEFINE S == OwnedBy(u)
           f == Holdings(sub)
           h == Holdings(sub')
<1>1. IsFiniteSet(S) /\ S \subseteq Subs /\ s \in S
  BY PlansAssumption, FS_Subset DEF OwnedBy
<1>2. sub'[s] = r /\ \A t \in Subs \ {s} : sub'[t] = sub[t]
  BY DEF Rewritten, PlanInv, Types
<1>3. OwnedBy(u)' = S
  BY <1>2 DEF OwnedBy, Rewritten
<1>4. \A t \in Subs : Held(sub[t]) \in Nat
  BY HeldNat, RowFields DEF PlanInv
<1>5. Held(r) \in Nat
  BY HeldNat
<1>6. /\ \A t \in S : f[t] \in Int
      /\ \A t \in S \ {s} : h[t] = f[t]
      /\ h[s] = Held(r) /\ f[s] = Held(sub[s]) /\ h[s] \in Int
  BY <1>1, <1>2, <1>4, <1>5 DEF Holdings
<1>7. /\ Exposure(u) = SumFunctionOnSet(f, S)
      /\ Exposure(u)' = SumFunctionOnSet(h, S)
  BY <1>3, ExposureIs DEF Total
<1> HIDE DEF S, f, h
<1>8. /\ SumFunctionOnSet(h, S) = SumFunctionOnSet(f, S) + h[s] - f[s]
      /\ SumFunctionOnSet(f, S) \in Int
  BY <1>1, <1>6, SumChange
<1> QED
  BY <1>4, <1>5, <1>6, <1>7, <1>8

\* A new subscription adds its amount.
LEMMA ExposureEntered ==
    ASSUME PlanInv, RateInv, NEW s \in Subs, NEW u \in Subscribers, NEW r \in Row,
           Entered(s, u, r)
    PROVE  /\ Exposure(u)' = r.amount + Exposure(u)
           /\ Exposure(u) \in Int /\ r.amount \in Int
<1> DEFINE S == OwnedBy(u)
           f == Holdings(sub)
           h == Holdings(sub')
           Z == S \cup {s}
<1>1. IsFiniteSet(S) /\ S \subseteq Subs
  BY PlansAssumption, FS_Subset DEF OwnedBy
<1>2. sub'[s] = r /\ \A t \in Subs \ {s} : sub'[t] = sub[t]
  BY DEF Entered, PlanInv, Types
<1>3. s \notin S /\ OwnedBy(u)' = Z
  <2>1. sub[s].owner = "none" /\ "none" \notin Subscribers /\ r.owner = u
    BY PlansAssumption DEF Entered, Exists, RateInv, Fresh
  <2> QED
    BY <1>2, <2>1 DEF OwnedBy
<1>4. \A t \in Subs : Held(sub[t]) \in Nat
  BY HeldNat, RowFields DEF PlanInv
<1>5. Held(r) \in Nat /\ Held(r) = r.amount /\ r.amount \in Nat
  <2>1. r.status = "Active" /\ r.prepaid = 0 /\ r.amount \in Nat
    BY DEF Entered, Row
  <2> QED
    BY <2>1 DEF Held
<1>6. /\ \A t \in S : f[t] \in Int /\ h[t] = f[t]
      /\ h[s] = r.amount
  BY <1>1, <1>2, <1>3, <1>4, <1>5 DEF Holdings
<1>7. /\ Exposure(u) = SumFunctionOnSet(f, S)
      /\ Exposure(u)' = SumFunctionOnSet(h, Z)
  BY <1>3, ExposureIs DEF Total
<1>8. IsFiniteSet(Z) /\ Z \ {s} = S /\ s \in Z /\ \A t \in Z : h[t] \in Int
  <2>1. \A t \in Z : h[t] \in Int
    BY <1>5, <1>6
  <2> HIDE DEF h
  <2> QED
    BY <1>1, <1>3, <2>1, FS_AddElement
<1> HIDE DEF S, f, h, Z
<1>9. SumFunctionOnSet(h, Z) = h[s] + SumFunctionOnSet(h, Z \ {s})
  BY <1>8, SumTake
<1>10. SumFunctionOnSet(h, S) = SumFunctionOnSet(f, S)
  BY <1>1, <1>6, SumSame
<1>11. SumFunctionOnSet(f, S) \in Int
  BY <1>1, <1>6, SumType
<1> QED
  BY <1>5, <1>6, <1>7, <1>8, <1>9, <1>10, <1>11

\* The action of ExposureGuarded.
Exposed == \A u \in Subscribers :
    LET before == compute_subscriber_exposure(u)
        after == compute_subscriber_exposure(u)'
    IN  credit[u] # 0 /\ credit'[u] = credit[u] /\ after > before /\ after > credit[u] =>
           \E s \in OwnedBy(u) : \/ sub[s].status # "Active" /\ sub'[s].status = "Active"
                                 \/ sub'[s].plan # sub[s].plan

\* Every call respects the credit limit, but for the two exceptions.
LEMMA ExposedStep == PlanInv /\ RateInv /\ CreditTyped /\ [Next]_vars => Exposed
<1> SUFFICES ASSUME PlanInv, RateInv, CreditTyped, [Next]_vars, NEW u \in Subscribers,
                    credit[u] # 0, credit'[u] = credit[u],
                    Exposure(u)' > Exposure(u), Exposure(u)' > credit[u]
             PROVE  \E s \in OwnedBy(u) :
                       \/ sub[s].status # "Active" /\ sub'[s].status = "Active"
                       \/ sub'[s].plan # sub[s].plan
  BY DEF Exposed, Exposure
<1>1. credit[u] \in Nat
  BY DEF CreditTyped
<1>2. Exposure(u) \in Int
  <2>1. IsFiniteSet(OwnedBy(u)) /\ OwnedBy(u) \subseteq Subs
    BY PlansAssumption, FS_Subset DEF OwnedBy
  <2>2. \A t \in OwnedBy(u) : Holdings(sub)[t] \in Int
    BY <2>1, HeldNat, RowFields DEF Holdings, PlanInv
  <2> QED
    BY <2>1, <2>2, SumType, ExposureIs DEF Total
<1>3. ~(Exposure(u)' = Exposure(u))
  BY <1>2
<1>4. ASSUME NEW s \in Subs, NEW r \in Row, Rewritten(s, r)
      PROVE  \E t \in OwnedBy(u) : \/ sub[t].status # "Active" /\ sub'[t].status = "Active"
                                   \/ sub'[t].plan # sub[t].plan
  <2>1. sub'[s] = r /\ \A t \in Subs \ {s} : sub'[t] = sub[t]
    BY <1>4 DEF Rewritten, PlanInv, Types
  <2>2. CASE sub[s].owner # u
    <3>1. OwnedBy(u)' = OwnedBy(u) /\ \A t \in OwnedBy(u) : sub'[t] = sub[t]
      BY <1>4, <2>1, <2>2 DEF OwnedBy, Rewritten
    <3> QED
      BY <1>3, <3>1, ExposureSame
  <2>3. CASE sub[s].owner = u
    <3>1. PICK x \in Int, y \in Int, a \in Int, b \in Int :
             /\ x = Exposure(u) /\ y = Exposure(u)' /\ a = Held(r) /\ b = Held(sub[s])
             /\ y = x + a - b
      BY <1>4, <2>3, ExposureRewritten
    <3>2. s \in OwnedBy(u) /\ r.owner = u
      BY <1>4, <2>3 DEF OwnedBy, Rewritten
    <3>3. y > x /\ y > credit[u]
      BY <3>1
    <3>4. ~(a <= b)
      BY <3>1, <3>3
    <3>5. ~(x + (a - b) <= credit[u])
      BY <1>1, <3>1, <3>3
    <3>6. (sub[s].status # "Active" /\ r.status = "Active") \/ r.plan # sub[s].plan
      BY <1>4, <3>1, <3>2, <3>4, <3>5 DEF Rewritten, Guarded
    <3> QED
      BY <2>1, <3>2, <3>6
  <2> QED
    BY <2>2, <2>3
<1>5. ASSUME NEW s \in Subs, NEW r \in Row, NEW v \in Subscribers, Entered(s, v, r)
      PROVE  FALSE
  <2>1. sub'[s] = r /\ \A t \in Subs \ {s} : sub'[t] = sub[t]
    BY <1>5 DEF Entered, PlanInv, Types
  <2>2. CASE v # u
    <3>1. sub[s].owner = "none" /\ "none" \notin Subscribers /\ r.owner = v
      BY <1>5, PlansAssumption DEF Entered, Exists, RateInv, Fresh
    <3>2. OwnedBy(u)' = OwnedBy(u) /\ \A t \in OwnedBy(u) : sub'[t] = sub[t]
      BY <2>1, <2>2, <3>1 DEF OwnedBy
    <3> QED
      BY <1>3, <3>2, ExposureSame
  <2>3. CASE v = u
    <3>1. PICK x \in Int, y \in Int, a \in Int :
             x = Exposure(u) /\ y = Exposure(u)' /\ a = r.amount /\ y = a + x
      BY <1>5, <2>3, ExposureEntered
    <3>2. y > credit[u] /\ x + a <= credit[u]
      BY <1>5, <2>3, <3>1 DEF Entered
    <3> QED
      BY <1>1, <3>1, <3>2
  <2> QED
    BY <2>2, <2>3
<1>6. CASE UNCHANGED <<sub, window>>
  <2>1. OwnedBy(u)' = OwnedBy(u) /\ \A t \in OwnedBy(u) : sub'[t] = sub[t]
    BY <1>6 DEF OwnedBy
  <2> QED
    BY <1>3, <2>1, ExposureSame
<1> QED
  BY <1>4, <1>5, <1>6, StepKinds

\* credit_limits.md: no operation takes a subscriber's exposure above its limit,
\* but a resumption or a migration.
THEOREM ExposureCorrect == Spec => ExposureGuarded
<1>1. Init => CreditTyped
  BY DEF Init, CreditTyped
<1>2. PlanInv /\ RateInv /\ CreditTyped /\ [Next]_vars => [Exposed]_vars
  BY ExposedStep
<1> QED
  BY <1>1, <1>2, CreditStep, RateInit, RateStep, PlanInit, PlanStep, PTL
  DEF Spec, ExposureGuarded, Exposed

-----------------------------------------------------------------------------
(* Replays.                                                                *)

\* A whole interval later the index of the period is higher.
LEMMA LaterPeriod ==
    ASSUME NEW x \in Nat, NEW z \in Nat, NEW i \in Positive, z >= x + i
    PROVE  z \div i > x \div i /\ x \div i \in Nat
BY DEF Positive

\* Counted in shorter intervals, as many have passed or more.
LEMMA ShorterIntervals ==
    ASSUME NEW x \in Nat, NEW i \in Positive, NEW j \in Positive, i <= j
    PROVE  x \div j <= x \div i /\ x \div j \in Nat /\ x \div i \in Nat
<1> DEFINE q == x \div j
<1>1. q \in Nat /\ j * q <= x /\ x \div i \in Nat /\ x < i * (x \div i + 1)
  BY DEF Positive
<1>2. i * q <= j * q
  BY <1>1 DEF Positive
<1>3. i * q < i * (x \div i + 1)
  BY <1>1, <1>2 DEF Positive
<1> HIDE DEF q
<1>4. q < x \div i + 1
  BY <1>1, <1>3 DEF Positive
<1> QED
  BY <1>1, <1>4 DEF q

\* Subscriptions are dated no later than now.
LEMMA DatedBefore ==
    ASSUME PlanInv, RateInv, NEW s \in Subs, Exists(s)
    PROVE  sub[s].start <= now
<1>1. sub[s].owner \in Subscribers
  <2>1. sub[s] \in Row
    BY RowFields DEF PlanInv
  <2> QED
    BY <2>1 DEF RateInv, Fresh, Exists, Row
<1> QED
  BY <1>1 DEF RateInv, Windowed, OwnedBy

\* While ChargedPeriod is current, what is due is not a replay.
LEMMA CurrentNotRefused ==
    ASSUME PlanInv, RateInv, NEW s \in Subs, PeriodCurrent(sub[s])
    PROVE  ~Refused(s)
<1> SUFFICES ASSUME Refused(s) PROVE FALSE
  OBVIOUS
<1>1. /\ sub[s].start \in Nat /\ sub[s].last \in Nat /\ sub[s].interval \in Positive
      /\ sub[s].period \in Int /\ now \in Nat
  BY RowFields DEF PlanInv, Types
<1>2. Exists(s) /\ now >= sub[s].last + sub[s].interval
      /\ (now - sub[s].start) \div sub[s].interval <= sub[s].period
  BY DEF Refused, next_charge_time, period_index
<1>3. now - sub[s].start \in Nat
  BY <1>1, <1>2, DatedBefore
<1>4. CASE sub[s].period = None
  <2>1. (now - sub[s].start) \div sub[s].interval \in Nat
    BY <1>1, <1>3 DEF Positive
  <2> QED
    BY <1>2, <1>4, <2>1 DEF None
<1>5. CASE sub[s].period # None
  <2>1. sub[s].start <= sub[s].last
        /\ sub[s].period <= (sub[s].last - sub[s].start) \div sub[s].interval
    BY <1>5 DEF PeriodCurrent
  <2>2. sub[s].last - sub[s].start \in Nat
        /\ now - sub[s].start >= (sub[s].last - sub[s].start) + sub[s].interval
    BY <1>1, <1>2, <2>1 DEF Positive
  <2>3. (now - sub[s].start) \div sub[s].interval
          > (sub[s].last - sub[s].start) \div sub[s].interval
        /\ (sub[s].last - sub[s].start) \div sub[s].interval \in Nat
    BY <1>1, <1>3, <2>2, LaterPeriod
  <2>4. (now - sub[s].start) \div sub[s].interval \in Nat
    BY <1>1, <1>3 DEF Positive
  <2> QED
    BY <1>1, <1>2, <2>1, <2>3, <2>4
<1> QED
  BY <1>4, <1>5

\* A rewritten record is current still, unless it went to a longer interval.
LEMMA CurrentKept ==
    ASSUME PlanInv, RateInv, NEW s \in Subs, NEW r \in Row, Rewritten(s, r),
           PeriodCurrent(sub[s]), ~PeriodCurrent(r)
    PROVE  r.plan # sub[s].plan /\ r.interval > sub[s].interval
<1> DEFINE o == sub[s]
<1>1. /\ o.start \in Nat /\ o.last \in Nat /\ o.interval \in Positive /\ o.period \in Int
      /\ now \in Nat /\ r.start = o.start /\ r.interval \in Positive
  BY RowFields DEF PlanInv, Types, Rewritten, Row
<1>2. o.start <= now
  BY DatedBefore DEF Rewritten
<1>3. ~(r.last = now /\ r.period = period_index(r))
  <2> SUFFICES ASSUME r.last = now, r.period = period_index(r) PROVE FALSE
    OBVIOUS
  <2>1. now - r.start \in Nat
    BY <1>1, <1>2
  <2>2. (now - r.start) \div r.interval \in Nat
    BY <1>1, <2>1 DEF Positive
  <2> QED
    BY <1>1, <1>2, <2>2 DEF PeriodCurrent, period_index
<1>4. /\ r.last = o.last /\ r.period = o.period
      /\ r.interval = o.interval \/ r.plan # o.plan
  BY <1>3 DEF Rewritten, Timed
<1>5. /\ o.period # None /\ o.start <= o.last
      /\ o.period <= (o.last - o.start) \div o.interval
      /\ ~(o.period <= (o.last - o.start) \div r.interval)
  BY <1>1, <1>4 DEF PeriodCurrent
<1>6. r.interval # o.interval
  BY <1>5
<1>7. o.last - o.start \in Nat
  BY <1>1, <1>5
<1> HIDE DEF o
<1>8. ~(r.interval <= o.interval)
  <2> SUFFICES ASSUME r.interval <= o.interval PROVE FALSE
    OBVIOUS
  <2>1. (o.last - o.start) \div o.interval <= (o.last - o.start) \div r.interval
        /\ (o.last - o.start) \div o.interval \in Nat
        /\ (o.last - o.start) \div r.interval \in Nat
    BY <1>1, <1>7, ShorterIntervals
  <2> QED
    BY <1>1, <1>5, <2>1
<1> QED
  BY <1>1, <1>4, <1>6, <1>8 DEF Positive, o

\* charge_core.rs: a subscription that is due is refused as already charged only
\* after it has been migrated to a plan with a longer interval.
THEOREM ReplaysCorrect == Spec => ReplaysExplained
<1> DEFINE Explained ==
      \A s \in Subs : PeriodCurrent(sub[s]) =>
          /\ ~Refused(s)
          /\ ~PeriodCurrent(sub'[s]) => /\ sub'[s].plan # sub[s].plan
                                        /\ sub'[s].interval > sub[s].interval
<1>1. PlanInv /\ RateInv /\ [Next]_vars => Explained
  <2> SUFFICES ASSUME PlanInv, RateInv, [Next]_vars, NEW s \in Subs, PeriodCurrent(sub[s])
               PROVE  /\ ~Refused(s)
                      /\ ~PeriodCurrent(sub'[s]) => /\ sub'[s].plan # sub[s].plan
                                                    /\ sub'[s].interval > sub[s].interval
    OBVIOUS
  <2>1. ~Refused(s)
    BY CurrentNotRefused
  <2>2. ASSUME NEW t \in Subs, NEW r \in Row, Rewritten(t, r), ~PeriodCurrent(sub'[s])
        PROVE  sub'[s].plan # sub[s].plan /\ sub'[s].interval > sub[s].interval
    <3>1. sub'[t] = r /\ \A x \in Subs \ {t} : sub'[x] = sub[x]
      BY <2>2 DEF Rewritten, PlanInv, Types
    <3>2. s = t
      BY <2>2, <3>1
    <3> QED
      BY <2>2, <3>1, <3>2, CurrentKept
  <2>3. ASSUME NEW t \in Subs, NEW r \in Row, NEW u \in Subscribers, Entered(t, u, r)
        PROVE  PeriodCurrent(sub'[s])
    <3>1. sub'[t] = r /\ r.period = None /\ \A x \in Subs \ {t} : sub'[x] = sub[x]
      BY <2>3 DEF Entered, PlanInv, Types
    <3> QED
      BY <3>1 DEF PeriodCurrent
  <2>4. CASE UNCHANGED sub
    BY <2>1, <2>4
  <2> QED
    BY <2>1, <2>2, <2>3, <2>4, StepKinds
<1>2. ReplaysExplained <=> [][Explained]_vars
  BY DEF ReplaysExplained
<1> HIDE DEF Explained
<1>3. PlanInv /\ RateInv /\ [Next]_vars => [Explained]_vars
  BY <1>1
<1> QED
  BY <1>2, <1>3, RateInit, RateStep, PlanInit, PlanStep, PTL DEF Spec

-----------------------------------------------------------------------------
(* Statuses.                                                               *)

\* Every step moves each status as Lifecycle allows.
LEMMA StatusesMove ==
    ASSUME PlanInv, [Next]_vars, NEW s \in Subs
    PROVE  Observed!Allowed(sub[s].status, sub'[s].status)
<1>1. ASSUME NEW t \in Subs, NEW r \in Row, Rewritten(t, r)
      PROVE  Observed!Allowed(sub[s].status, sub'[s].status)
  <2>1. /\ sub'[t] = r /\ \A x \in Subs \ {t} : sub'[x] = sub[x]
        /\ sub[t].status # "Absent" /\ can_transition(sub[t].status, r.status)
    BY <1>1 DEF Rewritten, Exists, PlanInv, Types
  <2> QED
    BY <2>1 DEF Observed!Allowed, Observed!can_transition, can_transition,
                Observed!get_allowed_transitions, get_allowed_transitions
<1>2. ASSUME NEW t \in Subs, NEW r \in Row, NEW u \in Subscribers, Entered(t, u, r)
      PROVE  Observed!Allowed(sub[s].status, sub'[s].status)
  <2>1. /\ sub'[t] = r /\ \A x \in Subs \ {t} : sub'[x] = sub[x]
        /\ sub[t].status = "Absent" /\ r.status = "Active"
    BY <1>2 DEF Entered, Exists, PlanInv, Types
  <2> QED
    BY <2>1 DEF Observed!Allowed
<1>3. CASE UNCHANGED sub
  BY <1>3 DEF Observed!Allowed
<1> QED
  BY <1>1, <1>2, <1>3, StepKinds

\* Plans implements Lifecycle: creation, migration in any status, deposits, charges
\* and caps move each subscription's status along edges of the state machine.
THEOREM PlansLifecycle == Spec => StatusRefined
<1> DEFINE view == [s \in Subs |-> sub[s].status]
<1>1. Init => Observed!Init
  BY DEF Init, Observed!Init, Absent
<1>2. PlanInv /\ PlanInv' /\ [Next]_vars => [Observed!Next]_view
  <2> SUFFICES ASSUME PlanInv, PlanInv', [Next]_vars PROVE Observed!Next
    OBVIOUS
  <2>1. \A s \in Subs : sub'[s].status \in Reached \cup {"Absent"}
    BY DEF PlanInv, Types, Row
  <2>2. \A s \in Subs : Observed!Allowed(view[s], view'[s])
    BY StatusesMove
  <2> QED
    BY <2>1, <2>2 DEF Observed!Next, Observed!Status, Reached
<1> QED
  BY <1>1, <1>2, PlanInit, PlanStep, PTL DEF Spec, StatusRefined, Observed!Spec
=============================================================================
