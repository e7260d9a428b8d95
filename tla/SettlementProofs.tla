-------------------------- MODULE SettlementProofs --------------------------
(***************************************************************************)
(* Proofs about Settlement, for every set of merchants, subscriptions,     *)
(* tokens and amounts, whatever charges, payouts and disputes happen in    *)
(* between: the variables keep their types; disputes, their index and      *)
(* their escrows agree, and are handled as Arbitration promises; rotation  *)
(* keeps a merchant's claims; earnings, balances, refunds and sub-accounts *)
(* of a merchant add up; tokens do not mix.                                *)
(***************************************************************************)
EXTENDS Settlement, Sums

\* The types the argument needs. That a dispute id in the index is a number of
\* an existing dispute is part of DisputesConsistent itself.
DisputeTypes ==
    /\ nextDispute \in 0..MaxDisputes
    /\ dispute \in [0..(nextDispute - 1) -> Dispute]
    /\ escrow \in [DisputeIds -> Nat]
    /\ disputeOf \in [Subs -> DisputeIds \cup {None}]
    /\ merchantOf \in [Subs -> Merchants]
    /\ now \in Nat

\* The inductive invariant.
DisputeInv == DisputeTypes /\ DisputesConsistent

\* The vault starts without disputes and without escrows.
LEMMA DisputeInit == Init => DisputeInv
<1> SUFFICES ASSUME Init PROVE DisputeInv
  OBVIOUS
<1>1. DisputeTypes
  <2>1. nextDispute = 0 /\ DOMAIN dispute = {} /\ 0..(nextDispute - 1) = {}
    BY DEF Init
  <2>2. dispute \in [0..(nextDispute - 1) -> Dispute]
    BY <2>1 DEF Init
  <2>3. nextDispute \in 0..MaxDisputes
    BY <2>1, SettlementAssumption
  <2> QED
    BY <2>2, <2>3, SettlementAssumption DEF Init, DisputeTypes
<1>2. DisputesConsistent
  <2>1. \A s \in Subs : IndexedDispute(s)
    BY DEF Init, IndexedDispute
  <2>2. \A d \in DisputeIds : EscrowedDispute(d)
    BY DEF Init, EscrowedDispute
  <2> QED
    BY <2>1, <2>2 DEF DisputesConsistent
<1> QED
  BY <1>1, <1>2 DEF DisputeInv

\* A step that leaves the dispute records alone and keeps merchants of
\* subscriptions and the clock within their types preserves the invariant:
\* charges, payouts, refunds, sub-accounts, configuration, rotation, clock.
LEMMA OutsideDisputes ==
    ASSUME DisputeInv, UNCHANGED <<nextDispute, dispute, escrow, disputeOf>>,
           merchantOf' \in [Subs -> Merchants], now' \in Nat
    PROVE  DisputeInv'
BY DEF DisputeInv, DisputeTypes, DisputesConsistent, IndexedDispute, EscrowedDispute

\* Rotation rewrites merchants of subscriptions to another merchant.
LEMMA RotationStep ==
    ASSUME DisputeInv, NEW r \in Rotations, RotateMerchantAddress(r[1], r[2])
    PROVE  DisputeInv'
<1>1. r[1] \in Merchants /\ r[2] \in Merchants
  BY SettlementAssumption
<1>2. merchantOf' \in [Subs -> Merchants]
  BY <1>1 DEF RotateMerchantAddress, DisputeInv, DisputeTypes
<1>3. UNCHANGED <<nextDispute, dispute, escrow, disputeOf>> /\ now' \in Nat
  BY DEF RotateMerchantAddress, disputes, DisputeInv, DisputeTypes
<1> QED
  BY <1>2, <1>3, OutsideDisputes

\* open_dispute: the new dispute takes an unused id and is the only unresolved
\* one of its subscription, because the index had no entry.
LEMMA OpenStep ==
    ASSUME DisputeInv, NEW s \in Subs, NEW a \in DisputeAmounts, OpenDispute(s, a)
    PROVE  DisputeInv'
<1> USE DEF DisputeInv, DisputeTypes
<1> DEFINE n == nextDispute
           new == [sub |-> s, merchant |-> merchantOf[s], amount |-> a, openedAt |-> now,
                   status |-> "Open"]
<1>1. n \in DisputeIds /\ n \in Nat /\ n < MaxDisputes
  BY SettlementAssumption DEF OpenDispute, DisputeIds
<1>2. new \in Dispute /\ a > 0 /\ a \in Nat
  BY SettlementAssumption DEF OpenDispute, Dispute, DisputeStatus
<1>3. /\ nextDispute' = n + 1 /\ disputeOf[s] = None
      /\ dispute' = [i \in 0..n |-> IF i = n THEN new ELSE dispute[i]]
      /\ escrow' = [escrow EXCEPT ![n] = a]
      /\ disputeOf' = [disputeOf EXCEPT ![s] = n]
      /\ UNCHANGED <<now, merchantOf>>
  BY DEF OpenDispute, RecordDispute, setup
<1> HIDE DEF new
<1>4. DisputeTypes'
  <2>1. 0..(nextDispute' - 1) = 0..n
    BY <1>1, <1>3
  <2>2. \A i \in 0..n : i # n => i \in 0..(n - 1)
    BY <1>1
  <2>3. dispute' \in [0..n -> Dispute]
    BY <1>2, <1>3, <2>2
  <2>4. nextDispute' \in 0..MaxDisputes
    BY <1>1, <1>3, SettlementAssumption
  <2>5. escrow' \in [DisputeIds -> Nat]
    BY <1>2, <1>3
  <2>6. disputeOf' \in [Subs -> DisputeIds \cup {None}]
    BY <1>1, <1>3
  <2> QED
    BY <1>3, <2>1, <2>3, <2>4, <2>5, <2>6
<1>5. DOMAIN dispute = 0..(n - 1) /\ DOMAIN dispute' = 0..n /\ n \notin DOMAIN dispute
  BY <1>1, <1>3
<1>6. dispute'[n] = new /\ \A d \in DOMAIN dispute : dispute'[d] = dispute[d]
  BY <1>1, <1>3, <1>5
<1>7. new.sub = s /\ new.status \in Unresolved /\ new.amount = a
  BY DEF new, Unresolved
<1>8. ASSUME NEW u \in Subs PROVE IndexedDispute(u)'
  <2>1. CASE u = s
    <3>1. disputeOf'[s] = n
      BY <1>3
    <3> QED
      BY <2>1, <3>1, <1>1, <1>5, <1>6, <1>7 DEF IndexedDispute
  <2>2. CASE u # s
    <3>1. disputeOf'[u] = disputeOf[u] /\ IndexedDispute(u)
      BY <2>2, <1>3 DEF DisputesConsistent
    <3>2. DOMAIN dispute \subseteq DOMAIN dispute'
      BY <1>5, <1>1
    <3> QED
      BY <3>1, <3>2, <1>6 DEF IndexedDispute
  <2> QED
    BY <2>1, <2>2
<1>9. ASSUME NEW d \in DisputeIds PROVE EscrowedDispute(d)'
  <2>1. CASE d = n
    <3>1. escrow'[n] = a /\ disputeOf'[s] = n /\ n \in DOMAIN dispute'
      BY <1>1, <1>3, <1>5
    <3> QED
      BY <2>1, <3>1, <1>2, <1>6, <1>7 DEF EscrowedDispute
  <2>2. CASE d # n
    <3>1. escrow'[d] = escrow[d] /\ (d \in DOMAIN dispute' <=> d \in DOMAIN dispute)
      BY <2>2, <1>1, <1>3, <1>5 DEF DisputeIds
    <3>2. EscrowedDispute(d)
      BY DEF DisputesConsistent
    <3>3. CASE d \in DOMAIN dispute /\ dispute[d].status \in Unresolved
      <4>1. disputeOf[dispute[d].sub] = d /\ dispute[d].sub \in Subs
        BY <3>2, <3>3 DEF EscrowedDispute, Dispute
      <4>2. dispute[d].sub # s
        BY <4>1, <1>3, <3>3, <1>5, <1>1 DEF None
      <4>3. disputeOf'[dispute[d].sub] = d
        BY <4>1, <4>2, <1>3
      <4> QED
        BY <3>1, <3>2, <3>3, <4>3, <1>6 DEF EscrowedDispute
    <3>4. CASE ~(d \in DOMAIN dispute /\ dispute[d].status \in Unresolved)
      BY <3>1, <3>2, <3>4, <1>6 DEF EscrowedDispute
    <3> QED
      BY <3>3, <3>4
  <2> QED
    BY <2>1, <2>2
<1> QED
  BY <1>4, <1>8, <1>9 DEF DisputesConsistent

\* respond_dispute: an open dispute stays unresolved.
LEMMA RespondStep ==
    ASSUME DisputeInv, NEW d \in DOMAIN dispute, RespondDispute(d)
    PROVE  DisputeInv'
<1> USE DEF DisputeInv, DisputeTypes
<1>1. /\ UNCHANGED <<nextDispute, escrow, disputeOf, now, merchantOf>>
      /\ dispute' = [dispute EXCEPT ![d].status = "Responded"]
      /\ dispute[d].status \in Unresolved
  BY DEF RespondDispute, setup, Unresolved
<1>2. DisputeTypes'
  BY <1>1 DEF Dispute, DisputeStatus
<1>3. DOMAIN dispute' = DOMAIN dispute
  BY <1>1
<1>4. \A i \in DOMAIN dispute :
        /\ dispute'[i].sub = dispute[i].sub /\ dispute'[i].amount = dispute[i].amount
        /\ dispute'[i].status \in Unresolved <=> dispute[i].status \in Unresolved
  BY <1>1 DEF Unresolved, Dispute
<1>5. ASSUME NEW u \in Subs PROVE IndexedDispute(u)'
  BY <1>1, <1>3, <1>4 DEF DisputesConsistent, IndexedDispute
<1>6. ASSUME NEW i \in DisputeIds PROVE EscrowedDispute(i)'
  <2>1. EscrowedDispute(i)
    BY DEF DisputesConsistent
  <2> QED
    BY <2>1, <1>1, <1>3, <1>4 DEF EscrowedDispute
<1> QED
  BY <1>2, <1>5, <1>6 DEF DisputesConsistent

\* resolve_dispute: the dispute, its index entry and its escrow end together,
\* and no other dispute is indexed under the same subscription.
LEMMA ResolveStep ==
    ASSUME DisputeInv, NEW d \in DOMAIN dispute, NEW b \in BOOLEAN, ResolveDispute(d, b)
    PROVE  DisputeInv'
<1> USE DEF DisputeInv, DisputeTypes
<1> DEFINE r == Resolution(d, b)
           s == dispute[d].sub
<1>1. r \in {"ResolvedToMerchant", "ResolvedToSubscriber"}
  BY DEF Resolution
<1>2. /\ UNCHANGED <<nextDispute, now, merchantOf>>
      /\ escrow' = [escrow EXCEPT ![d] = 0]
      /\ dispute' = [dispute EXCEPT ![d].status = r]
      /\ disputeOf' = [disputeOf EXCEPT ![s] = None]
      /\ dispute[d].status \in Unresolved
  BY DEF ResolveDispute, Resolvable, Disburse, setup
<1> HIDE DEF r
<1>3. s \in Subs /\ d \in DisputeIds
  BY SettlementAssumption DEF Dispute, DisputeIds
<1>4. disputeOf[s] = d
  BY <1>2, <1>3 DEF DisputesConsistent, EscrowedDispute
<1>5. DisputeTypes'
  <2>1. dispute' \in [0..(nextDispute - 1) -> Dispute]
    BY <1>1, <1>2 DEF Dispute, DisputeStatus
  <2>2. escrow' \in [DisputeIds -> Nat]
    BY <1>2
  <2>3. disputeOf' \in [Subs -> DisputeIds \cup {None}]
    BY <1>2
  <2> QED
    BY <1>2, <2>1, <2>2, <2>3
<1>6. /\ DOMAIN dispute' = DOMAIN dispute
      /\ \A i \in DOMAIN dispute : i # d => dispute'[i] = dispute[i]
      /\ dispute'[d].status \notin Unresolved
  <2>1. DOMAIN dispute' = DOMAIN dispute /\ \A i \in DOMAIN dispute : i # d => dispute'[i] = dispute[i]
    BY <1>2
  <2>2. dispute'[d].status = r
    BY <1>2 DEF Dispute
  <2>3. r \notin Unresolved
    BY <1>1 DEF Unresolved
  <2> QED
    BY <2>1, <2>2, <2>3
<1>7. ASSUME NEW u \in Subs PROVE IndexedDispute(u)'
  <2>1. CASE u = s
    BY <2>1, <1>2, <1>3 DEF IndexedDispute
  <2>2. CASE u # s
    <3>1. disputeOf'[u] = disputeOf[u] /\ IndexedDispute(u)
      BY <2>2, <1>2 DEF DisputesConsistent
    <3>2. disputeOf[u] # None => disputeOf[u] # d
      BY <2>2, <3>1 DEF IndexedDispute
    <3> QED
      BY <3>1, <3>2, <1>6 DEF IndexedDispute
  <2> QED
    BY <2>1, <2>2
<1>8. ASSUME NEW i \in DisputeIds PROVE EscrowedDispute(i)'
  <2>1. CASE i = d
    BY <2>1, <1>2, <1>3, <1>6 DEF EscrowedDispute
  <2>2. CASE i # d
    <3>1. EscrowedDispute(i) /\ escrow'[i] = escrow[i]
      BY <2>2, <1>2 DEF DisputesConsistent
    <3>2. CASE i \in DOMAIN dispute /\ dispute[i].status \in Unresolved
      <4>1. disputeOf[dispute[i].sub] = i /\ dispute[i].sub \in Subs
        BY <3>1, <3>2 DEF EscrowedDispute, Dispute
      <4>2. dispute[i].sub # s
        BY <4>1, <1>4, <2>2
      <4>3. disputeOf'[dispute[i].sub] = i
        BY <4>1, <4>2, <1>2
      <4> QED
        BY <2>2, <3>1, <3>2, <4>3, <1>6 DEF EscrowedDispute
    <3>3. CASE ~(i \in DOMAIN dispute /\ dispute[i].status \in Unresolved)
      BY <2>2, <3>1, <3>3, <1>6 DEF EscrowedDispute
    <3> QED
      BY <3>2, <3>3
  <2> QED
    BY <2>1, <2>2
<1> QED
  BY <1>5, <1>7, <1>8 DEF DisputesConsistent

\* Every step of the specification preserves the inductive invariant.
LEMMA DisputeStep == DisputeInv /\ [Next]_vars => DisputeInv'
<1> SUFFICES ASSUME DisputeInv, [Next]_vars PROVE DisputeInv'
  OBVIOUS
<1> USE DEF DisputeInv, DisputeTypes, disputes, setup, books, money
<1>1. CASE UNCHANGED vars
  BY <1>1, OutsideDisputes DEF vars
<1>2. ASSUME NEW s \in Subs, SubscriptionStep(s) PROVE DisputeInv'
  <2>1. ASSUME NEW a \in ChargeAmounts, CreditCharge(s, a) PROVE DisputeInv'
    BY <2>1, OutsideDisputes DEF CreditCharge, Distribute
  <2>2. ASSUME NEW a \in ChargeAmounts, BatchChargeUnrouted(s, a) PROVE DisputeInv'
    BY <2>2, OutsideDisputes DEF BatchChargeUnrouted
  <2>3. ASSUME NEW a \in DisputeAmounts, OpenDispute(s, a) PROVE DisputeInv'
    BY <2>3, OpenStep
  <2>4. ASSUME NEW e \in Splits, UpdateSplitPayees(s, e) PROVE DisputeInv'
    BY <2>4, OutsideDisputes DEF UpdateSplitPayees
  <2> QED
    BY <1>2, <2>1, <2>2, <2>3, <2>4 DEF SubscriptionStep
<1>3. ASSUME NEW m \in Merchants, MerchantStep(m) PROVE DisputeInv'
  <2>1. UNCHANGED <<nextDispute, dispute, escrow, disputeOf, merchantOf, now>>
    BY <1>3 DEF MerchantStep, InitializeMerchantConfig, FlushPayouts, SetPayoutSchedule,
                WithdrawMerchantFunds, MerchantRefund, RegisterSubAccount,
                WithdrawSubAccountFunds
  <2> QED
    BY <2>1, OutsideDisputes
<1>4. ASSUME AdminStep PROVE DisputeInv'
  <2>1. ASSUME NEW d \in DOMAIN dispute, RespondDispute(d) PROVE DisputeInv'
    BY <2>1, RespondStep
  <2>2. ASSUME NEW d \in DOMAIN dispute, NEW b \in BOOLEAN, ResolveDispute(d, b)
        PROVE DisputeInv'
    BY <2>2, ResolveStep
  <2>3. ASSUME NEW w \in Windows, SetDisputeWindowSecs(w) PROVE DisputeInv'
    BY <2>3, OutsideDisputes DEF SetDisputeWindowSecs
  <2>4. ASSUME NEW r \in Rotations, RotateMerchantAddress(r[1], r[2]) PROVE DisputeInv'
    BY <2>4, RotationStep
  <2>5. CASE Tick
    BY <2>5, OutsideDisputes DEF Tick
  <2> QED
    BY <1>4, <2>1, <2>2, <2>3, <2>4, <2>5 DEF AdminStep
<1> QED
  BY <1>1, <1>2, <1>3, <1>4 DEF Next

\* In every reachable state a subscription has at most one unresolved dispute,
\* the index names it, and exactly the unresolved disputes hold their amount in
\* escrow: open_dispute, respond_dispute and resolve_dispute keep the three
\* keys in step across charges, payouts, rotation and changes of the window.
THEOREM DisputesCorrect == Spec => []DisputesConsistent
<1>1. DisputeInv => DisputesConsistent
  BY DEF DisputeInv
<1> QED
  BY DisputeInit, DisputeStep, <1>1, PTL DEF Spec

\* A truncated share, scaled back up, is at most the amount times its weight.
LEMMA BpsFacts ==
    ASSUME NEW x \in Nat, NEW w \in Nat
    PROVE  Bps(x, w) \in Nat /\ Whole * Bps(x, w) <= x * w
<1> DEFINE y == x * w
<1>1. y \in Nat
  OBVIOUS
<1> HIDE DEF y
<1>2. y \div Whole \in Nat /\ Whole * (y \div Whole) <= y
  BY <1>1 DEF Whole
<1> QED
  BY <1>2 DEF Bps, y

\* An entry of a split list.
LEMMA EntryFacts == \A x \in SplitEntry : x.payee \in Merchants /\ x.weight \in Nat
<1> DEFINE W == 1..Whole
<1>1. SplitEntry = [payee : Merchants, weight : W]
  BY DEF SplitEntry
<1>2. \A w \in W : w \in Nat
  BY DEF Whole
<1> HIDE DEF W
<1> QED
  BY <1>1, <1>2

\* An accepted split list: payees are merchants and the weights add up to Whole.
LEMMA SplitFacts ==
    ASSUME NEW e \in Splits, e # <<>>
    PROVE  /\ Len(e) \in Nat /\ Len(e) >= 1 /\ DOMAIN e = 1..Len(e)
           /\ IsFiniteSet(DOMAIN e) /\ IsFiniteSet(2..Len(e)) /\ DOMAIN e \ {1} = 2..Len(e)
           /\ \A i \in DOMAIN e : e[i].payee \in Merchants /\ e[i].weight \in Nat
           /\ SumFunctionOnSet([i \in DOMAIN e |-> e[i].weight], DOMAIN e) = Whole
<1>1. e \in Seq(SplitEntry) /\ Weight(e) = Whole
  <2>1. SplitChoices \subseteq Seq(SplitEntry)
    BY SettlementAssumption
  <2>2. e \in SplitChoices /\ Weight(e) = Whole
    BY DEF Splits
  <2> QED
    BY <2>1, <2>2
<1>2. Len(e) \in Nat /\ Len(e) >= 1 /\ DOMAIN e = 1..Len(e)
  BY <1>1
<1>3. IsFiniteSet(1..Len(e)) /\ IsFiniteSet(2..Len(e))
  BY <1>2, FS_Interval
<1>4. DOMAIN e \ {1} = 2..Len(e)
  BY <1>2
<1>5. \A i \in DOMAIN e : e[i].payee \in Merchants /\ e[i].weight \in Nat
  <2>1. \A i \in DOMAIN e : e[i] \in SplitEntry
    BY <1>1, <1>2
  <2> QED
    BY <2>1, EntryFacts
<1>6. SumFunctionOnSet([i \in DOMAIN e |-> e[i].weight], DOMAIN e) = Whole
  BY <1>1 DEF Weight, SumFunction
<1> QED
  BY <1>2, <1>3, <1>4, <1>5, <1>6

\* The truncated shares of the payees after the first add up to no more than the amount.
LEMMA OthersFacts ==
    ASSUME NEW e \in Splits, e # <<>>, NEW a \in Nat
    PROVE  Others(e, a) \in Nat /\ Others(e, a) <= a
<1> DEFINE R == 2..Len(e)
           b == [i \in R |-> Bps(a, e[i].weight)]
           w == [i \in DOMAIN e |-> e[i].weight]
<1>1. /\ 1 \in DOMAIN e /\ IsFiniteSet(DOMAIN e) /\ IsFiniteSet(R) /\ DOMAIN e \ {1} = R
      /\ \A i \in DOMAIN e : w[i] \in Nat
      /\ SumFunctionOnSet(w, DOMAIN e) = Whole
  <2>0. Len(e) \in Nat /\ Len(e) >= 1 /\ DOMAIN e = 1..Len(e)
    BY SplitFacts
  <2>1. 1 \in DOMAIN e
    BY <2>0
  <2> QED
    BY <2>1, SplitFacts
<1>2. Others(e, a) = SumFunctionOnSet(b, R)
  BY DEF Others, SumFunction
<1>3. \A i \in R : b[i] \in Nat /\ Whole * b[i] <= a * w[i]
  <2> SUFFICES ASSUME NEW i \in R PROVE b[i] \in Nat /\ Whole * b[i] <= a * w[i]
    OBVIOUS
  <2>1. w[i] = e[i].weight /\ e[i].weight \in Nat /\ b[i] = Bps(a, e[i].weight)
    BY <1>1
  <2> HIDE DEF R, b, w
  <2> QED
    BY <2>1, BpsFacts
<1> HIDE DEF R, b, w
<1>4. SumFunctionOnSet(b, R) \in Int /\ SumFunctionOnSet(b, R) >= 0
  BY <1>1, <1>3, SumType
<1>5. SumFunctionOnSet(w, DOMAIN e) = w[1] + SumFunctionOnSet(w, R)
  BY <1>1, SumTake
<1>6. SumFunctionOnSet(w, R) \in Int
  BY <1>1, SumType
<1>7. Whole * SumFunctionOnSet(b, R) <= a * SumFunctionOnSet(w, R)
  <2>1. \A i \in R : b[i] \in Int /\ w[i] \in Int /\ Whole * b[i] <= a * w[i]
    BY <1>1, <1>3
  <2>2. Whole \in Int /\ a \in Int /\ IsFiniteSet(R)
    BY <1>1 DEF Whole
  <2> QED
    BY <2>1, <2>2, SumScale
<1>8. \A o \in Nat, u \in Int : u <= Whole /\ Whole * o <= a * u => o <= a
  <2> SUFFICES ASSUME NEW o \in Nat, NEW u \in Int, u <= Whole, Whole * o <= a * u
               PROVE  o <= a
    OBVIOUS
  <2>1. a * u <= a * Whole
    BY DEF Whole
  <2>2. a * u \in Int
    OBVIOUS
  <2> QED
    BY <2>1, <2>2 DEF Whole
<1>9. w[1] \in Nat /\ SumFunctionOnSet(w, R) <= Whole
  BY <1>1, <1>5, <1>6
<1> QED
  BY <1>2, <1>4, <1>6, <1>7, <1>8, <1>9

\* Every payee's share is a natural number, and the shares add up to the amount.
LEMMA ShareFacts ==
    ASSUME NEW e \in Splits, e # <<>>, NEW a \in Nat
    PROVE  /\ \A i \in DOMAIN e : Share(e, i, a) \in Nat
           /\ SumFunctionOnSet([i \in DOMAIN e |-> Share(e, i, a)], DOMAIN e) = a
<1> DEFINE R == 2..Len(e)
           b == [i \in R |-> Bps(a, e[i].weight)]
           h == [i \in DOMAIN e |-> Share(e, i, a)]
<1>1. /\ 1 \in DOMAIN e /\ IsFiniteSet(DOMAIN e) /\ IsFiniteSet(R) /\ DOMAIN e \ {1} = R
      /\ \A i \in DOMAIN e : e[i].weight \in Nat
  <2>1. Len(e) \in Nat /\ Len(e) >= 1 /\ DOMAIN e = 1..Len(e)
    BY SplitFacts
  <2>2. 1 \in DOMAIN e
    BY <2>1
  <2> QED
    BY <2>2, SplitFacts
<1>2. Others(e, a) \in Nat /\ Others(e, a) <= a
  BY OthersFacts
<1>3. Others(e, a) = SumFunctionOnSet(b, R)
  BY DEF Others, SumFunction
<1>4. h[1] = a - Others(e, a)
  BY <1>1 DEF Share
<1>5. \A i \in R : h[i] = b[i] /\ h[i] \in Nat
  <2> SUFFICES ASSUME NEW i \in R PROVE h[i] = b[i] /\ h[i] \in Nat
    OBVIOUS
  <2>1. i # 1 /\ i \in DOMAIN e /\ e[i].weight \in Nat
    BY <1>1
  <2>2. Bps(a, e[i].weight) \in Nat
    BY <2>1, BpsFacts
  <2>3. h[i] = Share(e, i, a) /\ b[i] = Bps(a, e[i].weight)
    BY <2>1
  <2> QED
    BY <2>1, <2>2, <2>3 DEF Share
<1>6. \A i \in DOMAIN e : h[i] \in Nat
  <2>1. \A i \in DOMAIN e : i = 1 \/ i \in R
    BY <1>1
  <2>2. h[1] \in Nat
    BY <1>2, <1>4
  <2> HIDE DEF h, R
  <2> QED
    BY <1>5, <2>1, <2>2
<1>7. \A i \in DOMAIN e : Share(e, i, a) = h[i]
  OBVIOUS
<1> HIDE DEF R, b, h
<1>8. SumFunctionOnSet(h, DOMAIN e) = h[1] + SumFunctionOnSet(h, R)
  BY <1>1, <1>6, SumTake
<1>9. SumFunctionOnSet(h, R) = SumFunctionOnSet(b, R)
  BY <1>1, <1>5, SumSame
<1>10. SumFunctionOnSet(h, DOMAIN e) = a
  BY <1>2, <1>3, <1>4, <1>8, <1>9
<1> QED
  BY <1>6, <1>7, <1>10 DEF h

\* What a charge credits to the merchants are natural numbers that add up to it.
LEMMA CreditFacts ==
    ASSUME NEW s \in Subs, NEW a \in Nat, split[s] \in Splits, merchantOf[s] \in Merchants
    PROVE  /\ \A m \in Merchants : Credit(s, m, a) \in Nat
           /\ SumFunctionOnSet([m \in Merchants |-> Credit(s, m, a)], Merchants) = a
<1> DEFINE c == [m \in Merchants |-> Credit(s, m, a)]
<1>1. IsFiniteSet(Merchants)
  BY SettlementAssumption
<1>2. CASE split[s] = <<>>
  <2> DEFINE p == merchantOf[s]
  <2>1. p \in Merchants /\ c[p] = a /\ \A m \in Merchants \ {p} : c[m] = 0
    BY <1>2 DEF Credit
  <2>2. \A m \in Merchants : c[m] \in Nat
    BY <2>1
  <2>3. \A m \in Merchants : Credit(s, m, a) \in Nat
    BY <2>2
  <2>4. IsFiniteSet(Merchants \ {p})
    BY <1>1, FS_Subset
  <2> HIDE DEF c, p
  <2>5. SumFunctionOnSet(c, Merchants) = c[p] + SumFunctionOnSet(c, Merchants \ {p})
    BY <1>1, <2>1, <2>2, SumTake
  <2>6. SumFunctionOnSet(c, Merchants \ {p}) = 0
    BY <2>1, <2>4, SumZero
  <2>7. SumFunctionOnSet(c, Merchants) = a
    BY <2>1, <2>5, <2>6
  <2> QED
    BY <2>3, <2>7 DEF c
<1>3. CASE split[s] # <<>>
  <2> DEFINE e == split[s]
             D == DOMAIN e
             h == [i \in D |-> Share(e, i, a)]
             label == [i \in D |-> e[i].payee]
             g == [m \in Merchants |-> SumFunctionOnSet(h, {i \in D : label[i] = m})]
  <2>1. IsFiniteSet(D) /\ \A i \in D : label[i] \in Merchants
    <3>1. IsFiniteSet(D) /\ \A i \in D : e[i].payee \in Merchants
      BY <1>3, SplitFacts
    <3> QED
      BY <3>1
  <2>2. (\A i \in D : h[i] \in Nat) /\ SumFunctionOnSet(h, D) = a
    BY <1>3, ShareFacts
  <2>3. \A m \in Merchants : g[m] \in Nat
    <3> SUFFICES ASSUME NEW m \in Merchants PROVE g[m] \in Nat
      OBVIOUS
    <3> DEFINE G == {i \in D : label[i] = m}
    <3>1. IsFiniteSet(G) /\ \A i \in G : h[i] \in Nat
      BY <2>1, <2>2, FS_Subset
    <3>2. g[m] = SumFunctionOnSet(h, G)
      OBVIOUS
    <3> HIDE DEF G, h, g
    <3>3. SumFunctionOnSet(h, G) \in Int /\ SumFunctionOnSet(h, G) >= 0
      BY <3>1, SumType
    <3> QED
      BY <3>2, <3>3
  <2>4. ASSUME NEW m \in Merchants PROVE Credit(s, m, a) = g[m]
    <3> DEFINE G == {i \in D : e[i].payee = m}
               k == [i \in G |-> Share(e, i, a)]
    <3>1. Credit(s, m, a) = SumFunctionOnSet(k, G)
      BY <1>3 DEF Credit, SumFunction
    <3>2. IsFiniteSet(G)
      BY <2>1, FS_Subset
    <3>3. \A i \in G : k[i] = h[i]
      OBVIOUS
    <3>4. {i \in D : label[i] = m} = G
      OBVIOUS
    <3>5. g[m] = SumFunctionOnSet(h, G)
      BY <3>4
    <3> HIDE DEF G, k, h, g
    <3>6. SumFunctionOnSet(k, G) = SumFunctionOnSet(h, G)
      BY <3>2, <3>3, SumSame
    <3> QED
      BY <3>1, <3>5, <3>6
  <2>5. SumFunctionOnSet(g, Merchants) = SumFunctionOnSet(h, D)
    <3> HIDE DEF h, label, D
    <3> QED
      BY <1>1, <2>1, <2>2, SumGroups
  <2>6. c = g
    BY <2>4
  <2> HIDE DEF g, h
  <2> QED
    BY <2>2, <2>3, <2>4, <2>5, <2>6
<1> QED
  BY <1>2, <1>3

\* The types of the money and of the books, and those of the rest that the
\* dispute invariant does not give.
MoneyTypes ==
    /\ prepaid \in [Tokens -> Nat] /\ vault \in [Tokens -> Nat]
    /\ bal \in [Accounts -> Int] /\ earn \in [Accounts -> Earnings]
    /\ subAccount \in [Merchants \X Labels -> Nat \cup {None}]
    /\ unbacked \in [Tokens -> 0..MaxUnbacked]
SetupTypes ==
    /\ now \in 1..MaxTime /\ window \in Nat
    /\ tokensOf \in [Merchants -> SUBSET Tokens]
    /\ configured \subseteq Merchants
    /\ schedule \in [Merchants -> [cadence : Nat, min : Nat, last : Nat]]
    /\ subsOf \in [Merchants -> SUBSET Subs]
    /\ split \in [Subs -> Splits]

\* The inductive invariant for the types.
TypeInv == DisputeInv /\ MoneyTypes /\ SetupTypes

\* It implies the type invariant of the specification.
LEMMA TypeInvOK == TypeInv => TypeOK
BY DEF TypeInv, DisputeInv, DisputeTypes, MoneyTypes, SetupTypes, TypeOK

\* Adding to one of the three counters of an earnings record.
LEMMA EarningsUpdate ==
    ASSUME NEW r \in Earnings, NEW a \in Nat
    PROVE  /\ [r EXCEPT !.accrued = @ + a] \in Earnings
           /\ [r EXCEPT !.withdrawn = @ + a] \in Earnings
           /\ [r EXCEPT !.refunded = @ + a] \in Earnings
           /\ [r EXCEPT !.refunded = @ + a, !.withdrawn = @ + a] \in Earnings
<1> DEFINE both == [r EXCEPT !.refunded = @ + a, !.withdrawn = @ + a]
<1>1. r.accrued + a \in Nat /\ r.withdrawn + a \in Nat /\ r.refunded + a \in Nat
  BY DEF Earnings
<1>2. /\ [r EXCEPT !.accrued = @ + a] \in Earnings
      /\ [r EXCEPT !.withdrawn = @ + a] \in Earnings
      /\ [r EXCEPT !.refunded = @ + a] \in Earnings
  BY <1>1 DEF Earnings
<1>3. both \in Earnings
  <2> DEFINE p == r.refunded + a
             q == r.withdrawn + a
  <2>1. p \in Nat /\ q \in Nat
    BY <1>1
  <2> HIDE DEF p, q
  <2>2. [r EXCEPT !.refunded = p, !.withdrawn = q] \in Earnings
    BY <2>1, Zenon DEF Earnings
  <2> QED
    BY <2>2 DEF p, q
<1> QED
  BY <1>2, <1>3

\* The vault starts with typed money, books and set-up.
LEMMA TypeInit == Init => TypeInv
<1> SUFFICES ASSUME Init PROVE TypeInv
  OBVIOUS
<1>1. MoneyTypes
  <2>1. NoEarnings \in Earnings
    BY DEF NoEarnings, Earnings
  <2> QED
    BY <2>1, SettlementAssumption DEF Init, MoneyTypes
<1>2. SetupTypes
  <2>1. NoSchedule \in [cadence : Nat, min : Nat, last : Nat]
    BY DEF NoSchedule
  <2>2. <<>> \in Splits
    BY DEF Splits
  <2>3. now \in 1..MaxTime
    BY SettlementAssumption DEF Init
  <2> QED
    BY <2>1, <2>2, <2>3, SettlementAssumption DEF Init, SetupTypes
<1> QED
  BY <1>1, <1>2, DisputeInit DEF TypeInv

\* What a charge credits to its payees, whether it is collected or not.
LEMMA PayeesTypes ==
    ASSUME TypeInv, NEW s \in Subs, NEW a \in ChargeAmounts
    PROVE  /\ a \in Nat /\ TokenOf[s] \in Tokens /\ merchantOf[s] \in Merchants
           /\ split[s] \in Splits
           /\ \A x \in Accounts : Due(s, a, x) \in Nat
           /\ CreditPayees(s, a) => earn' \in [Accounts -> Earnings]
           /\ CreditPayees(s, a) => tokensOf' \in [Merchants -> SUBSET Tokens]
<1>1. a \in Nat /\ TokenOf[s] \in Tokens /\ merchantOf[s] \in Merchants /\ split[s] \in Splits
  BY SettlementAssumption DEF TypeInv, SetupTypes, DisputeInv, DisputeTypes
<1>2. ASSUME NEW x \in Accounts PROVE Due(s, a, x) \in Nat
  <2>1. x[1] \in Merchants
    BY DEF Accounts
  <2>2. Credit(s, x[1], a) \in Nat
    BY <1>1, <2>1, CreditFacts
  <2> QED
    BY <2>2 DEF Due
<1>3. ASSUME CreditPayees(s, a) PROVE earn' \in [Accounts -> Earnings]
  <2>1. earn' = [x \in Accounts |-> [earn[x] EXCEPT !.accrued = @ + Due(s, a, x)]]
    BY <1>3 DEF CreditPayees
  <2>2. earn \in [Accounts -> Earnings]
    BY DEF TypeInv, MoneyTypes
  <2>3. ASSUME NEW x \in Accounts
        PROVE  [earn[x] EXCEPT !.accrued = @ + Due(s, a, x)] \in Earnings
    BY <1>2, <2>2, EarningsUpdate
  <2> QED
    BY <2>1, <2>3
<1>4. ASSUME CreditPayees(s, a) PROVE tokensOf' \in [Merchants -> SUBSET Tokens]
  BY <1>1, <1>4 DEF CreditPayees, TypeInv, SetupTypes
<1> QED
  BY <1>1, <1>2, <1>3, <1>4

\* A collected charge.
LEMMA ChargeTypes ==
    ASSUME TypeInv, NEW s \in Subs, NEW a \in ChargeAmounts, CreditCharge(s, a)
    PROVE  MoneyTypes' /\ SetupTypes'
<1> DEFINE t == TokenOf[s]
           m == merchantOf[s]
           routed(x) == IF LabelOf[s] # NoLabel /\ x = <<m, t>> THEN a ELSE 0
<1>1. /\ prepaid' = [prepaid EXCEPT ![t] = @ - a]
      /\ bal' = [x \in Accounts |-> bal[x] + Due(s, a, x) - routed(x)]
      /\ CreditPayees(s, a)
      /\ subAccount' = IF LabelOf[s] = NoLabel THEN subAccount
                       ELSE [subAccount EXCEPT ![<<m, LabelOf[s]>>] = @ + a]
      /\ UNCHANGED <<now, vault, unbacked, window, configured, schedule, subsOf, split>>
  BY DEF CreditCharge, Distribute, setup, disputes
<1>2. a \in Nat /\ t \in Tokens /\ m \in Merchants
  BY PayeesTypes
<1>3. \A x \in Accounts : Due(s, a, x) \in Nat /\ routed(x) \in Nat
  BY <1>2, PayeesTypes
<1>4. prepaid' \in [Tokens -> Nat]
  <2>1. prepaid[t] >= a
    BY DEF CreditCharge
  <2> QED
    BY <1>1, <1>2, <2>1 DEF TypeInv, MoneyTypes
<1>5. subAccount' \in [Merchants \X Labels -> Nat \cup {None}]
  <2>1. CASE LabelOf[s] = NoLabel
    BY <1>1, <2>1 DEF TypeInv, MoneyTypes
  <2>2. CASE LabelOf[s] # NoLabel
    <3> DEFINE y == <<m, LabelOf[s]>>
    <3>1. LabelOf[s] \in Labels
      BY <2>2, SettlementAssumption
    <3>2. y \in Merchants \X Labels
      BY <1>2, <3>1
    <3>3. subAccount[y] # None
      BY <2>2 DEF CreditCharge, SubAccountExists
    <3>4. subAccount' = [subAccount EXCEPT ![y] = @ + a]
      BY <1>1, <2>2
    <3>5. subAccount \in [Merchants \X Labels -> Nat \cup {None}]
      BY DEF TypeInv, MoneyTypes
    <3> HIDE DEF y
    <3>6. subAccount[y] \in Nat
      BY <3>2, <3>3, <3>5
    <3> QED
      BY <1>2, <3>2, <3>4, <3>5, <3>6
  <2> QED
    BY <2>1, <2>2
<1>6. bal \in [Accounts -> Int] /\ vault \in [Tokens -> Nat] /\ unbacked \in [Tokens -> 0..MaxUnbacked]
  BY DEF TypeInv, MoneyTypes
<1>7. earn' \in [Accounts -> Earnings] /\ tokensOf' \in [Merchants -> SUBSET Tokens]
  BY <1>1, PayeesTypes
<1>8. SetupTypes'
  BY <1>1, <1>7 DEF TypeInv, SetupTypes
<1> HIDE DEF routed, t, m
<1>9. bal' \in [Accounts -> Int]
  BY <1>1, <1>3, <1>6
<1> QED
  BY <1>1, <1>4, <1>5, <1>6, <1>7, <1>8, <1>9 DEF MoneyTypes

\* A batch item that credits its payees and fails.
LEMMA UnroutedTypes ==
    ASSUME TypeInv, NEW s \in Subs, NEW a \in ChargeAmounts, BatchChargeUnrouted(s, a)
    PROVE  MoneyTypes' /\ SetupTypes'
<1>1. /\ bal' = [x \in Accounts |-> bal[x] + Due(s, a, x)] /\ CreditPayees(s, a)
      /\ unbacked' = [unbacked EXCEPT ![TokenOf[s]] = @ + a]
      /\ unbacked[TokenOf[s]] + a <= MaxUnbacked
      /\ UNCHANGED <<now, prepaid, vault, subAccount, window, configured, schedule, subsOf, split>>
  BY DEF BatchChargeUnrouted, setup, disputes
<1>2. \A x \in Accounts : Due(s, a, x) \in Nat
  BY PayeesTypes
<1>3. bal' \in [Accounts -> Int]
  BY <1>1, <1>2 DEF TypeInv, MoneyTypes
<1>4. unbacked' \in [Tokens -> 0..MaxUnbacked]
  <2>1. a \in Nat /\ TokenOf[s] \in Tokens /\ unbacked \in [Tokens -> 0..MaxUnbacked]
        /\ MaxUnbacked \in Nat
    BY PayeesTypes, SettlementAssumption DEF TypeInv, MoneyTypes
  <2> QED
    BY <1>1, <2>1
<1>5. earn' \in [Accounts -> Earnings] /\ tokensOf' \in [Merchants -> SUBSET Tokens]
  BY <1>1, PayeesTypes
<1> QED
  BY <1>1, <1>3, <1>4, <1>5 DEF TypeInv, MoneyTypes, SetupTypes

\* Withdrawals, refunds, sub-accounts.
LEMMA WithdrawTypes ==
    ASSUME TypeInv, NEW m \in Merchants, NEW t \in Tokens, NEW a \in Nat,
           WithdrawMerchantFunds(m, t, a) \/ MerchantRefund(m, t, a)
    PROVE  MoneyTypes' /\ SetupTypes'
<1> DEFINE x == <<m, t>>
<1>1. /\ x \in Accounts /\ bal \in [Accounts -> Int] /\ earn \in [Accounts -> Earnings]
      /\ vault \in [Tokens -> Nat] /\ earn[x] \in Earnings
  BY DEF TypeInv, MoneyTypes, Accounts
<1>2. bal' = [bal EXCEPT ![x] = @ - a] /\ Pay(t, a)
      /\ UNCHANGED <<now, prepaid, unbacked, tokensOf, subAccount, setup, disputes>>
  BY DEF WithdrawMerchantFunds, MerchantRefund
<1>3. \/ earn' = [earn EXCEPT ![x] = [earn[x] EXCEPT !.refunded = @ + a, !.withdrawn = @ + a]]
      \/ earn' = [earn EXCEPT ![x] = [earn[x] EXCEPT !.refunded = @ + a]]
  BY <1>1 DEF WithdrawMerchantFunds, MerchantRefund
<1> HIDE DEF x
<1>4. earn' \in [Accounts -> Earnings]
  BY <1>1, <1>3, EarningsUpdate
<1>5. bal' \in [Accounts -> Int]
  BY <1>1, <1>2
<1>6. vault' \in [Tokens -> Nat]
  BY <1>1, <1>2 DEF Pay
<1> QED
  BY <1>2, <1>4, <1>5, <1>6 DEF TypeInv, MoneyTypes, SetupTypes, setup, disputes

\* Sub-accounts.
LEMMA SubAccountTypes ==
    ASSUME TypeInv, NEW m \in Merchants, NEW l \in Labels, NEW t \in Tokens, NEW a \in Nat,
           WithdrawSubAccountFunds(m, l, t, a)
    PROVE  MoneyTypes' /\ SetupTypes'
<1> DEFINE x == <<m, t>>
           y == <<m, l>>
<1>1. /\ x \in Accounts /\ earn \in [Accounts -> Earnings] /\ y \in Merchants \X Labels
      /\ vault \in [Tokens -> Nat] /\ earn[x] \in Earnings
      /\ subAccount \in [Merchants \X Labels -> Nat \cup {None}]
  BY DEF TypeInv, MoneyTypes, Accounts
<1>2. subAccount' = [subAccount EXCEPT ![y] = @ - a] /\ Pay(t, a)
      /\ subAccount[y] # None /\ a <= subAccount[y]
      /\ UNCHANGED <<now, prepaid, unbacked, tokensOf, bal, setup, disputes>>
  BY DEF WithdrawSubAccountFunds
<1>3. earn' = [earn EXCEPT ![x] = [earn[x] EXCEPT !.withdrawn = @ + a]]
  BY <1>1 DEF WithdrawSubAccountFunds
<1> HIDE DEF x, y
<1>4. earn' \in [Accounts -> Earnings]
  BY <1>1, <1>3, EarningsUpdate
<1>5. subAccount' \in [Merchants \X Labels -> Nat \cup {None}]
  BY <1>1, <1>2
<1>6. vault' \in [Tokens -> Nat]
  BY <1>1, <1>2 DEF Pay
<1> QED
  BY <1>2, <1>4, <1>5, <1>6 DEF TypeInv, MoneyTypes, SetupTypes, setup, disputes

\* A scheduled payout.
LEMMA PayoutTypes ==
    ASSUME TypeInv, NEW m \in Merchants, FlushPayouts(m)
    PROVE  MoneyTypes' /\ SetupTypes'
<1> DEFINE paid(t) == IF Flushed(m, t) THEN bal[<<m, t>>] ELSE 0
           due(x) == IF x[1] = m THEN paid(x[2]) ELSE 0
<1>1. /\ \A t \in Tokens : vault[t] >= paid(t)
      /\ vault' = [t \in Tokens |-> vault[t] - paid(t)]
      /\ bal' = [x \in Accounts |-> bal[x] - due(x)]
      /\ earn' = [x \in Accounts |-> [earn[x] EXCEPT !.withdrawn = @ + due(x)]]
      /\ schedule' = [schedule EXCEPT ![m].last = now]
      /\ UNCHANGED <<now, window, prepaid, unbacked, tokensOf, subAccount, configured, subsOf,
                   split>>
  BY DEF FlushPayouts, disputes
<1>2. /\ bal \in [Accounts -> Int] /\ earn \in [Accounts -> Earnings] /\ vault \in [Tokens -> Nat]
      /\ prepaid \in [Tokens -> Nat] /\ subAccount \in [Merchants \X Labels -> Nat \cup {None}]
      /\ unbacked \in [Tokens -> 0..MaxUnbacked]
  BY DEF TypeInv, MoneyTypes
<1>3. \A t \in Tokens : paid(t) \in Nat
  BY <1>2 DEF Flushed, Accounts
<1>4. \A x \in Accounts : due(x) \in Nat
  BY <1>3 DEF Accounts
<1>5. schedule' \in [Merchants -> [cadence : Nat, min : Nat, last : Nat]]
  <2>1. now \in Nat
    BY SettlementAssumption DEF TypeInv, SetupTypes
  <2>2. schedule \in [Merchants -> [cadence : Nat, min : Nat, last : Nat]]
    BY DEF TypeInv, SetupTypes
  <2> QED
    BY <1>1, <2>1, <2>2
<1> HIDE DEF due, paid
<1>6. vault' \in [Tokens -> Nat]
  BY <1>1, <1>2, <1>3
<1>7. bal' \in [Accounts -> Int]
  BY <1>1, <1>2, <1>4
<1>8. earn' \in [Accounts -> Earnings]
  BY <1>1, <1>2, <1>4, EarningsUpdate
<1>9. MoneyTypes'
  BY <1>1, <1>2, <1>6, <1>7, <1>8 DEF MoneyTypes
<1>10. SetupTypes'
  BY <1>1, <1>5 DEF TypeInv, SetupTypes
<1> QED
  BY <1>9, <1>10

\* Rotation.
LEMMA RotationTypes ==
    ASSUME TypeInv, NEW r \in Rotations, RotateMerchantAddress(r[1], r[2])
    PROVE  MoneyTypes' /\ SetupTypes'
<1> DEFINE old == r[1]
           new == r[2]
           moved(x) == x[2] \in tokensOf[old]
           from(x) == <<old, x[2]>>
<1>1. old \in Merchants /\ new \in Merchants
  BY SettlementAssumption
<1>2. /\ bal' = [x \in Accounts |->
                 IF ~moved(x) \/ x[1] \notin {old, new} THEN bal[x]
                 ELSE IF x[1] = old THEN 0 ELSE bal[x] + bal[from(x)]]
      /\ earn' = [x \in Accounts |->
                  IF ~moved(x) \/ x[1] \notin {old, new} THEN earn[x]
                  ELSE IF x[1] = old THEN NoEarnings ELSE earn[from(x)]]
      /\ tokensOf' = Rotated(tokensOf, old, new, {}, tokensOf[new] \cup tokensOf[old])
      /\ subsOf' = Rotated(subsOf, old, new, {}, subsOf[new] \cup subsOf[old])
      /\ configured' = (IF old \in configured THEN configured \cup {new} ELSE configured) \ {old}
      /\ UNCHANGED <<now, window, prepaid, vault, unbacked, subAccount, schedule, split>>
  BY DEF RotateMerchantAddress, money, disputes
<1>3. /\ bal \in [Accounts -> Int] /\ earn \in [Accounts -> Earnings]
      /\ tokensOf \in [Merchants -> SUBSET Tokens] /\ subsOf \in [Merchants -> SUBSET Subs]
      /\ configured \subseteq Merchants
  BY DEF TypeInv, MoneyTypes, SetupTypes
<1>4. \A x \in Accounts : from(x) \in Accounts
  BY <1>1 DEF Accounts
<1>5. NoEarnings \in Earnings
  BY DEF NoEarnings, Earnings
<1>6. configured' \subseteq Merchants
  BY <1>1, <1>2, <1>3
<1>7. tokensOf' \in [Merchants -> SUBSET Tokens]
  BY <1>1, <1>2, <1>3 DEF Rotated
<1>8. subsOf' \in [Merchants -> SUBSET Subs]
  BY <1>1, <1>2, <1>3 DEF Rotated
<1> HIDE DEF old, new, moved, from
<1>9. bal' \in [Accounts -> Int]
  BY <1>2, <1>3, <1>4
<1>10. earn' \in [Accounts -> Earnings]
  BY <1>2, <1>3, <1>4, <1>5
<1> QED
  BY <1>2, <1>6, <1>7, <1>8, <1>9, <1>10 DEF TypeInv, MoneyTypes, SetupTypes

\* The end of a dispute.
LEMMA ResolveTypes ==
    ASSUME TypeInv, NEW d \in DOMAIN dispute, NEW b \in BOOLEAN, ResolveDispute(d, b)
    PROVE  MoneyTypes' /\ SetupTypes'
<1> DEFINE t == TokenOf[dispute[d].sub]
           x == <<dispute[d].merchant, t>>
<1>1. d \in DisputeIds /\ dispute[d] \in Dispute
  BY SettlementAssumption DEF TypeInv, DisputeInv, DisputeTypes, DisputeIds
<1>2. t \in Tokens /\ x \in Accounts /\ escrow[d] \in Nat
  BY <1>1, SettlementAssumption DEF Dispute, Accounts, TypeInv, DisputeInv, DisputeTypes
<1>3. /\ bal \in [Accounts -> Int] /\ vault \in [Tokens -> Nat]
  BY DEF TypeInv, MoneyTypes
<1>4. /\ UNCHANGED <<now, window, prepaid, unbacked, earn, tokensOf, subAccount, configured,
                     schedule, subsOf, split>>
      /\ \/ bal' = [bal EXCEPT ![x] = @ + escrow[d]] /\ UNCHANGED vault
         \/ Pay(t, escrow[d]) /\ UNCHANGED bal
  BY DEF ResolveDispute, Disburse, setup
<1> HIDE DEF t, x
<1>5. bal' \in [Accounts -> Int] /\ vault' \in [Tokens -> Nat]
  BY <1>2, <1>3, <1>4 DEF Pay
<1> QED
  BY <1>4, <1>5 DEF TypeInv, MoneyTypes, SetupTypes

\* The start of a dispute.
LEMMA OpenTypes ==
    ASSUME TypeInv, NEW s \in Subs, NEW a \in DisputeAmounts, OpenDispute(s, a)
    PROVE  MoneyTypes' /\ SetupTypes'
<1> DEFINE x == <<merchantOf[s], TokenOf[s]>>
<1>1. x \in Accounts /\ a \in Nat
  BY SettlementAssumption DEF TypeInv, DisputeInv, DisputeTypes, Accounts
<1>2. /\ UNCHANGED <<now, window, prepaid, vault, unbacked, earn, tokensOf, subAccount,
                     configured, schedule, subsOf, split>>
      /\ bal' = [bal EXCEPT ![x] = @ - a]
  BY DEF OpenDispute, RecordDispute, setup, money
<1> HIDE DEF x
<1>3. bal' \in [Accounts -> Int]
  BY <1>1, <1>2 DEF TypeInv, MoneyTypes
<1> QED
  BY <1>2, <1>3 DEF TypeInv, MoneyTypes, SetupTypes

\* Every step preserves the types.
LEMMA TypeStep == TypeInv /\ [Next]_vars => TypeInv'
<1> SUFFICES ASSUME TypeInv, [Next]_vars PROVE MoneyTypes' /\ SetupTypes'
  BY DisputeStep DEF TypeInv
<1> USE DEF disputes, setup, books, money
<1>1. CASE UNCHANGED vars
  BY <1>1 DEF vars, TypeInv, MoneyTypes, SetupTypes
<1>2. ASSUME NEW s \in Subs, SubscriptionStep(s) PROVE MoneyTypes' /\ SetupTypes'
  <2>1. ASSUME NEW e \in Splits, UpdateSplitPayees(s, e) PROVE MoneyTypes' /\ SetupTypes'
    <3>1. split' \in [Subs -> Splits]
      BY <2>1 DEF UpdateSplitPayees, TypeInv, SetupTypes
    <3> QED
      BY <2>1, <3>1 DEF UpdateSplitPayees, TypeInv, MoneyTypes, SetupTypes
  <2> QED
    BY <1>2, <2>1, ChargeTypes, UnroutedTypes, OpenTypes DEF SubscriptionStep
<1>3. ASSUME NEW m \in Merchants, MerchantStep(m) PROVE MoneyTypes' /\ SetupTypes'
  <2>1. CASE InitializeMerchantConfig(m)
    BY <2>1 DEF InitializeMerchantConfig, TypeInv, MoneyTypes, SetupTypes
  <2>2. ASSUME NEW c \in ScheduleChoices, SetPayoutSchedule(m, c)
        PROVE  MoneyTypes' /\ SetupTypes'
    <3>1. c \in [cadence : Nat, min : Nat]
      BY SettlementAssumption
    <3> DEFINE k == c.cadence
               n == c.min
    <3>2. k \in Nat /\ n \in Nat
      BY <3>1
    <3>3. schedule' = [schedule EXCEPT ![m].cadence = k, ![m].min = n]
      BY <2>2 DEF SetPayoutSchedule
    <3>4. schedule \in [Merchants -> [cadence : Nat, min : Nat, last : Nat]]
      BY DEF TypeInv, SetupTypes
    <3> HIDE DEF k, n
    <3>5. schedule' \in [Merchants -> [cadence : Nat, min : Nat, last : Nat]]
      BY <3>2, <3>3, <3>4, Zenon
    <3> QED
      BY <2>2, <3>5 DEF SetPayoutSchedule, TypeInv, MoneyTypes, SetupTypes
  <2>3. ASSUME NEW l \in Labels, RegisterSubAccount(m, l) PROVE MoneyTypes' /\ SetupTypes'
    <3>1. subAccount' \in [Merchants \X Labels -> Nat \cup {None}]
      BY <2>3 DEF RegisterSubAccount, TypeInv, MoneyTypes
    <3> QED
      BY <2>3, <3>1 DEF RegisterSubAccount, TypeInv, MoneyTypes, SetupTypes
  <2>4. ASSUME NEW t \in Tokens, NEW a \in WithdrawAmounts, WithdrawMerchantFunds(m, t, a)
        PROVE  MoneyTypes' /\ SetupTypes'
    <3>1. a \in Nat
      BY SettlementAssumption
    <3> QED
      BY <2>4, <3>1, WithdrawTypes
  <2>5. ASSUME NEW t \in Tokens, NEW a \in RefundAmounts, MerchantRefund(m, t, a)
        PROVE  MoneyTypes' /\ SetupTypes'
    <3>1. a \in Nat
      BY SettlementAssumption
    <3> QED
      BY <2>5, <3>1, WithdrawTypes
  <2>6. ASSUME NEW l \in Labels, NEW t \in Tokens, NEW a \in SubAccountAmounts,
               WithdrawSubAccountFunds(m, l, t, a)
        PROVE  MoneyTypes' /\ SetupTypes'
    <3>1. a \in Nat
      BY SettlementAssumption
    <3> QED
      BY <2>6, <3>1, SubAccountTypes
  <2> QED
    BY <1>3, <2>1, <2>2, <2>3, <2>4, <2>5, <2>6, PayoutTypes DEF MerchantStep
<1>4. ASSUME AdminStep PROVE MoneyTypes' /\ SetupTypes'
  <2>1. ASSUME NEW d \in DOMAIN dispute, RespondDispute(d) PROVE MoneyTypes' /\ SetupTypes'
    BY <2>1 DEF RespondDispute, TypeInv, MoneyTypes, SetupTypes
  <2>2. ASSUME NEW w \in Windows, SetDisputeWindowSecs(w) PROVE MoneyTypes' /\ SetupTypes'
    BY <2>2, SettlementAssumption DEF SetDisputeWindowSecs, TypeInv, MoneyTypes, SetupTypes
  <2>3. CASE Tick
    <3>1. now' \in 1..MaxTime
      BY <2>3, SettlementAssumption DEF Tick, TypeInv, SetupTypes
    <3> QED
      BY <2>3, <3>1 DEF Tick, TypeInv, MoneyTypes, SetupTypes
  <2> QED
    BY <1>4, <2>1, <2>2, <2>3, ResolveTypes, RotationTypes DEF AdminStep
<1> QED
  BY <1>1, <1>2, <1>3, <1>4 DEF Next

\* Every variable of the merchant side keeps its range, earnings counters and
\* the vault's balances never becoming negative: checked subtractions, the
\* token contract's refusals and the remainder rule of split payees suffice.
THEOREM SettlementTyped == Spec => []TypeOK
<1> QED
  BY TypeInit, TypeStep, TypeInvOK, PTL DEF Spec

\* What merchants are owed in a token, unfolded to the sum it is.
LEMMA ClaimsSum ==
    \A t : MerchantClaims(t) = SumFunctionOnSet([m \in Merchants |-> bal[<<m, t>>]], Merchants)
BY DEF MerchantClaims, SumFunction

\* Rotation to another address moves balances of the old one to the new one.
LEMMA RotationClaims ==
    ASSUME TypeInv, NEW r \in Rotations, r[1] # r[2], RotateMerchantAddress(r[1], r[2]),
           NEW t \in Tokens
    PROVE  MerchantClaims(t)' = MerchantClaims(t)
<1> DEFINE old == r[1]
           new == r[2]
<1>1. old \in Merchants /\ new \in Merchants /\ old # new /\ IsFiniteSet(Merchants)
  BY SettlementAssumption
<1>2. bal \in [Accounts -> Int] /\ \A m \in Merchants : <<m, t>> \in Accounts
  BY DEF TypeInv, MoneyTypes, Accounts
<1>3. PICK f : f = [m \in Merchants |-> bal[<<m, t>>]]
  OBVIOUS
<1>4. PICK h : h = [m \in Merchants |-> bal'[<<m, t>>]]
  OBVIOUS
<1>5. MerchantClaims(t) = SumFunctionOnSet(f, Merchants)
  BY <1>3, ClaimsSum
<1>6. MerchantClaims(t)' = SumFunctionOnSet(h, Merchants)
  BY <1>4 DEF MerchantClaims, SumFunction
<1>7. bal' = [x \in Accounts |->
                IF ~(x[2] \in tokensOf[old]) \/ x[1] \notin {old, new} THEN bal[x]
                ELSE IF x[1] = old THEN 0 ELSE bal[x] + bal[<<old, x[2]>>]]
  BY DEF RotateMerchantAddress
<1>8. \A m \in Merchants : f[m] \in Int /\ f[m] = bal[<<m, t>>]
  BY <1>2, <1>3
<1>9. \A m \in Merchants :
        h[m] = IF ~(t \in tokensOf[old]) \/ m \notin {old, new} THEN f[m]
               ELSE IF m = old THEN 0 ELSE f[m] + f[old]
  BY <1>1, <1>2, <1>4, <1>7, <1>8
<1> HIDE DEF old, new
<1>10. CASE t \notin tokensOf[old]
  BY <1>1, <1>5, <1>6, <1>9, <1>10, SumSame
<1>11. CASE t \in tokensOf[old]
  <2>1. h[old] = 0 /\ h[new] = f[new] + f[old] /\ \A m \in Merchants \ {old, new} : h[m] = f[m]
    BY <1>1, <1>9, <1>11
  <2>2. f[old] \in Int /\ f[new] \in Int /\ \A m \in Merchants : f[m] \in Int
    BY <1>1, <1>8
  <2>3. h[old] + h[new] = f[old] + f[new] /\ h[old] \in Int /\ h[new] \in Int
    <3> DEFINE x == f[old]
               y == f[new]
    <3>1. x \in Int /\ y \in Int /\ h[old] = 0 /\ h[new] = y + x
      BY <2>1, <2>2
    <3> HIDE DEF x, y
    <3>2. h[old] + h[new] = x + y /\ h[old] \in Int /\ h[new] \in Int
      BY <3>1
    <3> QED
      BY <3>2 DEF x, y
  <2>4. \A m \in Merchants : f[m] \in Int /\ h[m] \in Int
    <3> SUFFICES ASSUME NEW m \in Merchants PROVE h[m] \in Int
      BY <2>2
    <3>1. m = old \/ m = new \/ m \in Merchants \ {old, new}
      OBVIOUS
    <3> QED
      BY <2>1, <2>2, <2>3, <3>1
  <2> QED
    BY <1>1, <1>5, <1>6, <2>1, <2>3, <2>4, SumMove
<1> QED
  BY <1>10, <1>11

\* rotate_merchant_address: what merchants are owed in each token survives every
\* rotation to another address, whichever balances, splits and disputes there
\* are at the time.
THEOREM RotationsCorrect == Spec => RotationKeepsClaims
<1> DEFINE Kept == \A r \in Rotations : r[1] # r[2] /\ RotateMerchantAddress(r[1], r[2]) =>
                      \A t \in Tokens : MerchantClaims(t)' = MerchantClaims(t)
<1>1. TypeInv => Kept
  BY RotationClaims
<1>2. TypeInv /\ [Next]_vars => [Kept]_vars
  BY <1>1
<1>3. RotationKeepsClaims <=> [][Kept]_vars
  BY DEF RotationKeepsClaims
<1> HIDE DEF Kept
<1> QED
  BY TypeInit, TypeStep, <1>2, <1>3, PTL DEF Spec

-----------------------------------------------------------------------------
\* No merchant is in debt and the types hold.
DebtInv == TypeInv /\ EarningsNonNegative

\* A charge of a subscription without a label only adds to balances, and so
\* does a batch item that fails after its payees are credited.
LEMMA ChargeDebt ==
    ASSUME DebtInv, NEW s \in Subs, NEW a \in ChargeAmounts,
           (CreditCharge(s, a) /\ LabelOf[s] = NoLabel) \/ BatchChargeUnrouted(s, a)
    PROVE  EarningsNonNegative'
<1> DEFINE routed(x) == IF LabelOf[s] # NoLabel /\ x = <<merchantOf[s], TokenOf[s]>> THEN a ELSE 0
<1>1. \A x \in Accounts : bal[x] \in Int /\ bal[x] >= 0 /\ Due(s, a, x) \in Nat
  BY PayeesTypes DEF DebtInv, TypeInv, MoneyTypes, EarningsNonNegative
<1>2. CASE CreditCharge(s, a) /\ LabelOf[s] = NoLabel
  <2>1. bal' = [x \in Accounts |-> bal[x] + Due(s, a, x) - routed(x)]
    BY <1>2 DEF CreditCharge, Distribute
  <2>2. \A x \in Accounts : routed(x) = 0
    BY <1>2
  <2> HIDE DEF routed
  <2> QED
    BY <1>1, <2>1, <2>2 DEF EarningsNonNegative
<1>3. CASE BatchChargeUnrouted(s, a)
  <2>1. bal' = [x \in Accounts |-> bal[x] + Due(s, a, x)]
    BY <1>3 DEF BatchChargeUnrouted
  <2> QED
    BY <1>1, <2>1 DEF EarningsNonNegative
<1> QED
  BY <1>2, <1>3

\* A change of one balance to a value that is not negative.
LEMMA DebtAt ==
    ASSUME DebtInv, NEW x \in Accounts, NEW v \in Int, v >= 0, bal' = [bal EXCEPT ![x] = v]
    PROVE  EarningsNonNegative'
<1>1. bal \in [Accounts -> Int] /\ \A y \in Accounts : bal[y] >= 0
  BY DEF DebtInv, TypeInv, MoneyTypes, EarningsNonNegative
<1>2. \A y \in Accounts : bal'[y] >= 0
  BY <1>1
<1> QED
  BY <1>2 DEF EarningsNonNegative

\* Without labelled subscriptions every step leaves merchants without debt.
LEMMA DebtStep ==
    ASSUME \A s \in Subs : LabelOf[s] = NoLabel
    PROVE  DebtInv /\ [Next]_vars => DebtInv'
<1> SUFFICES ASSUME DebtInv, [Next]_vars PROVE EarningsNonNegative'
  BY TypeStep DEF DebtInv
<1> USE DEF books
<1>0. bal \in [Accounts -> Int] /\ \A y \in Accounts : bal[y] >= 0
  BY DEF DebtInv, TypeInv, MoneyTypes, EarningsNonNegative
<1>1. ASSUME UNCHANGED bal PROVE EarningsNonNegative'
  BY <1>0, <1>1 DEF EarningsNonNegative
<1>2. ASSUME NEW s \in Subs, SubscriptionStep(s) PROVE EarningsNonNegative'
  <2>1. ASSUME NEW a \in ChargeAmounts, CreditCharge(s, a) \/ BatchChargeUnrouted(s, a)
        PROVE  EarningsNonNegative'
    BY <2>1, ChargeDebt
  <2>2. ASSUME NEW a \in DisputeAmounts, OpenDispute(s, a) PROVE EarningsNonNegative'
    <3> DEFINE x == <<merchantOf[s], TokenOf[s]>>
    <3>1. x \in Accounts /\ a \in Nat
      BY SettlementAssumption DEF DebtInv, TypeInv, DisputeInv, DisputeTypes, Accounts
    <3>2. bal' = [bal EXCEPT ![x] = bal[x] - a] /\ bal[x] >= a
      BY <2>2 DEF OpenDispute, RecordDispute
    <3> HIDE DEF x
    <3>3. bal[x] - a \in Int /\ bal[x] - a >= 0
      BY <1>0, <3>1, <3>2
    <3> QED
      BY <3>1, <3>2, <3>3, DebtAt
  <2>3. ASSUME NEW e \in Splits, UpdateSplitPayees(s, e) PROVE EarningsNonNegative'
    BY <1>1, <2>3 DEF UpdateSplitPayees
  <2> QED
    BY <1>2, <2>1, <2>2, <2>3 DEF SubscriptionStep
<1>3. ASSUME NEW m \in Merchants, MerchantStep(m) PROVE EarningsNonNegative'
  <2>1. ASSUME NEW t \in Tokens, NEW a \in WithdrawAmounts \cup RefundAmounts,
               WithdrawMerchantFunds(m, t, a) \/ MerchantRefund(m, t, a)
        PROVE  EarningsNonNegative'
    <3> DEFINE x == <<m, t>>
    <3>1. x \in Accounts /\ a \in Nat
      BY SettlementAssumption DEF Accounts
    <3>2. bal' = [bal EXCEPT ![x] = bal[x] - a] /\ bal[x] >= a
      BY <1>0, <2>1, <3>1 DEF WithdrawMerchantFunds, MerchantRefund
    <3> HIDE DEF x
    <3>3. bal[x] - a \in Int /\ bal[x] - a >= 0
      BY <1>0, <3>1, <3>2
    <3> QED
      BY <3>1, <3>2, <3>3, DebtAt
  <2>2. CASE FlushPayouts(m)
    <3> DEFINE paid(t) == IF Flushed(m, t) THEN bal[<<m, t>>] ELSE 0
               due(x) == IF x[1] = m THEN paid(x[2]) ELSE 0
    <3>1. bal' = [x \in Accounts |-> bal[x] - due(x)]
      BY <2>2 DEF FlushPayouts
    <3>2. \A x \in Accounts : due(x) \in Int /\ due(x) <= bal[x]
      <4> SUFFICES ASSUME NEW x \in Accounts PROVE due(x) \in Int /\ due(x) <= bal[x]
        OBVIOUS
      <4>1. x = <<x[1], x[2]>> /\ bal[x] \in Int /\ bal[x] >= 0
        BY <1>0 DEF Accounts
      <4>2. due(x) = bal[x] \/ due(x) = 0
        BY <4>1
      <4> QED
        BY <4>1, <4>2
    <3> HIDE DEF due
    <3>3. \A x \in Accounts : bal'[x] >= 0
      BY <1>0, <3>1, <3>2
    <3> QED
      BY <3>3 DEF EarningsNonNegative
  <2>3. ASSUME \/ InitializeMerchantConfig(m) \/ \E c \in ScheduleChoices : SetPayoutSchedule(m, c)
               \/ \E l \in Labels : \/ RegisterSubAccount(m, l)
                                    \/ \E t \in Tokens, a \in SubAccountAmounts :
                                          WithdrawSubAccountFunds(m, l, t, a)
        PROVE  EarningsNonNegative'
    <3>1. UNCHANGED bal
      BY <2>3 DEF InitializeMerchantConfig, SetPayoutSchedule, RegisterSubAccount,
                  WithdrawSubAccountFunds
    <3> QED
      BY <1>1, <3>1
  <2> QED
    BY <1>3, <2>1, <2>2, <2>3 DEF MerchantStep
<1>4. ASSUME AdminStep PROVE EarningsNonNegative'
  <2>1. ASSUME NEW d \in DOMAIN dispute, NEW b \in BOOLEAN, ResolveDispute(d, b)
        PROVE  EarningsNonNegative'
    <3> DEFINE x == <<dispute[d].merchant, TokenOf[dispute[d].sub]>>
    <3>1. d \in DisputeIds /\ dispute[d] \in Dispute
      BY SettlementAssumption DEF DebtInv, TypeInv, DisputeInv, DisputeTypes, DisputeIds
    <3>2. x \in Accounts /\ escrow[d] \in Nat
      BY <3>1, SettlementAssumption
         DEF Dispute, Accounts, DebtInv, TypeInv, DisputeInv, DisputeTypes
    <3>3. bal' = [bal EXCEPT ![x] = bal[x] + escrow[d]] \/ UNCHANGED bal
      BY <2>1 DEF ResolveDispute, Disburse
    <3> HIDE DEF x
    <3>4. bal[x] + escrow[d] \in Int /\ bal[x] + escrow[d] >= 0
      BY <1>0, <3>2
    <3> QED
      BY <1>1, <3>2, <3>3, <3>4, DebtAt
  <2>2. ASSUME NEW r \in Rotations, RotateMerchantAddress(r[1], r[2]) PROVE EarningsNonNegative'
    <3> DEFINE old == r[1]
               new == r[2]
               moved(x) == x[2] \in tokensOf[old]
               from(x) == <<old, x[2]>>
    <3>1. bal' = [x \in Accounts |->
                    IF ~moved(x) \/ x[1] \notin {old, new} THEN bal[x]
                    ELSE IF x[1] = old THEN 0 ELSE bal[x] + bal[from(x)]]
      BY <2>2 DEF RotateMerchantAddress
    <3>2. \A x \in Accounts : from(x) \in Accounts
      BY SettlementAssumption DEF Accounts
    <3> HIDE DEF old, new, moved, from
    <3>3. \A x \in Accounts : bal'[x] >= 0
      BY <1>0, <3>1, <3>2
    <3> QED
      BY <3>3 DEF EarningsNonNegative
  <2>3. ASSUME \/ \E d \in DOMAIN dispute : RespondDispute(d)
               \/ (\E w \in Windows : SetDisputeWindowSecs(w))
               \/ Tick
        PROVE  EarningsNonNegative'
    BY <1>1, <2>3 DEF RespondDispute, SetDisputeWindowSecs, Tick
  <2> QED
    BY <1>4, <2>1, <2>2, <2>3 DEF AdminStep
<1>5. CASE UNCHANGED vars
  BY <1>1, <1>5 DEF vars
<1> QED
  BY <1>2, <1>3, <1>4, <1>5 DEF Next

\* INV-2 for earnings: without labelled subscriptions, whose charges take the
\* whole amount off one merchant's balance whoever was credited, no
\* interleaving of charges, split changes, disputes, payouts, refunds and
\* rotation leaves a merchant in debt.
THEOREM DebtsCorrect ==
    ASSUME \A s \in Subs : LabelOf[s] = NoLabel
    PROVE  Spec => []EarningsNonNegative
<1>1. Init => DebtInv
  BY TypeInit DEF DebtInv, EarningsNonNegative, Init
<1>2. DebtInv => EarningsNonNegative
  BY DEF DebtInv
<1> QED
  BY <1>1, <1>2, DebtStep, PTL DEF Spec

\* What the vault holds of a token beyond what is owed in it: the money of
\* sub-accounts, which do not know their token.
Surplus(t) == vault[t] - Owed(t)
Disputed(t) == {d \in DOMAIN dispute : TokenOf[dispute[d].sub] = t}

\* The claims of disputes, unfolded to the sum they are.
LEMMA DisputedFacts ==
    ASSUME TypeInv, NEW t \in Tokens
    PROVE  /\ DisputeClaims(t) = SumFunctionOnSet([d \in Disputed(t) |-> escrow[d]], Disputed(t))
           /\ IsFiniteSet(Disputed(t))
           /\ \A d \in Disputed(t) : escrow[d] \in Nat
           /\ Disputed(t) \subseteq 0..(nextDispute - 1)
<1>1. nextDispute \in Int /\ DOMAIN dispute = 0..(nextDispute - 1)
  BY SettlementAssumption DEF TypeInv, DisputeInv, DisputeTypes
<1>2. IsFiniteSet(DOMAIN dispute)
  BY <1>1, FS_Interval
<1>3. DOMAIN dispute \subseteq DisputeIds
  BY SettlementAssumption, <1>1 DEF TypeInv, DisputeInv, DisputeTypes, DisputeIds
<1>4. Disputed(t) \subseteq DOMAIN dispute
  BY DEF Disputed
<1>5. IsFiniteSet(Disputed(t))
  BY <1>2, <1>4, FS_Subset
<1>6. \A d \in Disputed(t) : escrow[d] \in Nat
  BY <1>3, <1>4 DEF TypeInv, DisputeInv, DisputeTypes
<1> QED
  BY <1>1, <1>4, <1>5, <1>6 DEF DisputeClaims, Disputed, SumFunction

\* Claims are integers.
LEMMA OwedTypes ==
    ASSUME TypeInv, NEW t \in Tokens
    PROVE  /\ MerchantClaims(t) \in Int /\ DisputeClaims(t) \in Int
           /\ vault[t] \in Int /\ prepaid[t] \in Int
<1>1. MerchantClaims(t) \in Int
  <2> DEFINE f == [m \in Merchants |-> bal[<<m, t>>]]
  <2>1. MerchantClaims(t) = SumFunctionOnSet(f, Merchants) /\ IsFiniteSet(Merchants)
    BY ClaimsSum, SettlementAssumption
  <2>2. \A m \in Merchants : f[m] \in Int
    BY DEF TypeInv, MoneyTypes, Accounts
  <2> HIDE DEF f
  <2> QED
    BY <2>1, <2>2, SumType
<1>2. DisputeClaims(t) \in Int
  <2> DEFINE g == [d \in Disputed(t) |-> escrow[d]]
  <2>1. DisputeClaims(t) = SumFunctionOnSet(g, Disputed(t)) /\ IsFiniteSet(Disputed(t))
    BY DisputedFacts
  <2>2. \A d \in Disputed(t) : g[d] \in Int
    <3>1. \A d \in Disputed(t) : escrow[d] \in Nat
      BY DisputedFacts
    <3> QED
      BY <3>1
  <2> HIDE DEF g
  <2> QED
    BY <2>1, <2>2, SumType
<1> QED
  BY <1>1, <1>2 DEF TypeInv, MoneyTypes

\* The surplus changes by the difference of the changes.
LEMMA SurplusFrom ==
    ASSUME TypeInv, NEW t \in Tokens, NEW v \in Int, NEW p \in Int, NEW m \in Int, NEW d \in Int,
           vault'[t] = vault[t] + v, prepaid'[t] = prepaid[t] + p,
           MerchantClaims(t)' = MerchantClaims(t) + m, DisputeClaims(t)' = DisputeClaims(t) + d
    PROVE  /\ Surplus(t)' = Surplus(t) + (v - (p + m + d))
           /\ Surplus(t) \in Int
<1>1. PICK v0 \in Int, p0 \in Int, m0 \in Int, d0 \in Int :
        v0 = vault[t] /\ p0 = prepaid[t] /\ m0 = MerchantClaims(t) /\ d0 = DisputeClaims(t)
  BY OwedTypes
<1>2. Surplus(t) = v0 - (p0 + m0 + d0)
  BY <1>1 DEF Surplus, Owed
<1>3. Surplus(t)' = (v0 + v) - ((p0 + p) + (m0 + m) + (d0 + d))
  BY <1>1 DEF Surplus, Owed
<1> QED
  BY <1>2, <1>3

\* A change of every balance, and of one balance.
LEMMA ClaimsBy ==
    ASSUME TypeInv, NEW due \in [Accounts -> Int], bal' = [x \in Accounts |-> bal[x] + due[x]],
           NEW t \in Tokens
    PROVE  MerchantClaims(t)' = MerchantClaims(t)
                                + SumFunctionOnSet([m \in Merchants |-> due[<<m, t>>]], Merchants)
<1>1. bal \in [Accounts -> Int] /\ IsFiniteSet(Merchants)
      /\ \A m \in Merchants : <<m, t>> \in Accounts
  BY SettlementAssumption DEF TypeInv, MoneyTypes, Accounts
<1>2. PICK f : f = [m \in Merchants |-> bal[<<m, t>>]]
  OBVIOUS
<1>3. PICK h : h = [m \in Merchants |-> bal'[<<m, t>>]]
  OBVIOUS
<1>4. PICK g : g = [m \in Merchants |-> due[<<m, t>>]]
  OBVIOUS
<1>5. \A m \in Merchants : f[m] \in Int /\ g[m] \in Int /\ h[m] = f[m] + g[m]
  BY <1>1, <1>2, <1>3, <1>4
<1>6. SumFunctionOnSet(h, Merchants) = SumFunctionOnSet(f, Merchants) + SumFunctionOnSet(g, Merchants)
  BY <1>1, <1>5, SumAdd
<1>7. MerchantClaims(t)' = SumFunctionOnSet(h, Merchants)
  BY <1>3 DEF MerchantClaims, SumFunction
<1> QED
  BY <1>2, <1>4, <1>6, <1>7, ClaimsSum

\* The same for one balance that changes by v.
LEMMA ClaimsAt ==
    ASSUME TypeInv, NEW x \in Accounts, NEW v \in Int, bal' = [bal EXCEPT ![x] = bal[x] + v],
           NEW t \in Tokens
    PROVE  MerchantClaims(t)' = MerchantClaims(t) + (IF t = x[2] THEN v ELSE 0)
<1> DEFINE M == x[1]
<1>1. bal \in [Accounts -> Int] /\ IsFiniteSet(Merchants) /\ M \in Merchants /\ x = <<M, x[2]>>
      /\ \A m \in Merchants : <<m, t>> \in Accounts
  BY SettlementAssumption DEF TypeInv, MoneyTypes, Accounts
<1>2. PICK f : f = [m \in Merchants |-> bal[<<m, t>>]]
  OBVIOUS
<1>3. PICK h : h = [m \in Merchants |-> bal'[<<m, t>>]]
  OBVIOUS
<1>4. MerchantClaims(t) = SumFunctionOnSet(f, Merchants)
  BY <1>2, ClaimsSum
<1>5. MerchantClaims(t)' = SumFunctionOnSet(h, Merchants)
  BY <1>3 DEF MerchantClaims, SumFunction
<1> HIDE DEF M
<1>6. CASE t = x[2]
  <2>1. \A m \in Merchants : f[m] \in Int /\ h[m] = IF m = M THEN f[m] + v ELSE f[m]
    BY <1>1, <1>2, <1>3, <1>6
  <2>2. h[M] \in Int /\ h[M] = f[M] + v /\ f[M] \in Int
    BY <1>1, <2>1
  <2>3. \A m \in Merchants \ {M} : h[m] = f[m]
    BY <2>1
  <2>4. /\ SumFunctionOnSet(h, Merchants) = SumFunctionOnSet(f, Merchants) + h[M] - f[M]
        /\ SumFunctionOnSet(f, Merchants) \in Int
    BY <1>1, <2>1, <2>2, <2>3, SumChange
  <2>5. SumFunctionOnSet(h, Merchants) = SumFunctionOnSet(f, Merchants) + v
    BY <2>2, <2>4
  <2> QED
    BY <1>4, <1>5, <1>6, <2>5
<1>7. CASE t # x[2]
  <2>1. \A m \in Merchants : h[m] = f[m] /\ f[m] \in Int
    BY <1>1, <1>2, <1>3, <1>7
  <2>2. SumFunctionOnSet(h, Merchants) = SumFunctionOnSet(f, Merchants)
    BY <1>1, <2>1, SumSame
  <2>3. SumFunctionOnSet(f, Merchants) \in Int
    BY <1>1, <2>1, SumType
  <2> QED
    BY <1>4, <1>5, <1>7, <2>2, <2>3
<1> QED
  BY <1>6, <1>7

\* Disputes keep their claims as long as their subscriptions and escrows stay.
LEMMA DisputeClaimsSame ==
    ASSUME UNCHANGED escrow, DOMAIN dispute' = DOMAIN dispute,
           \A d \in DOMAIN dispute : dispute'[d].sub = dispute[d].sub, NEW t
    PROVE  DisputeClaims(t)' = DisputeClaims(t)
<1>1. {i \in DOMAIN dispute' : TokenOf[dispute'[i].sub] = t}
        = {i \in DOMAIN dispute : TokenOf[dispute[i].sub] = t}
  OBVIOUS
<1> QED
  BY <1>1 DEF DisputeClaims

\* A collected charge: the surplus grows by what is routed to a sub-account.
LEMMA ChargeSurplus ==
    ASSUME TypeInv, NEW s \in Subs, NEW a \in ChargeAmounts, CreditCharge(s, a), NEW u \in Tokens
    PROVE  Surplus(u)' = Surplus(u) + (IF LabelOf[s] # NoLabel /\ u = TokenOf[s] THEN a ELSE 0)
<1> DEFINE t == TokenOf[s]
           m == merchantOf[s]
           routed(x) == IF LabelOf[s] # NoLabel /\ x = <<m, t>> THEN a ELSE 0
           due(x) == Due(s, a, x)
           back == IF LabelOf[s] # NoLabel THEN a ELSE 0
<1>1. /\ prepaid' = [prepaid EXCEPT ![t] = @ - a]
      /\ bal' = [x \in Accounts |-> bal[x] + due(x) - routed(x)]
      /\ UNCHANGED <<vault, dispute, escrow>>
  BY DEF CreditCharge, Distribute, disputes
<1>2. a \in Nat /\ t \in Tokens /\ m \in Merchants /\ split[s] \in Splits /\ back \in Nat
      /\ IsFiniteSet(Merchants)
  BY SettlementAssumption DEF TypeInv, SetupTypes, DisputeInv, DisputeTypes
<1>3. \A n \in Merchants : Credit(s, n, a) \in Nat
  BY <1>2, CreditFacts
<1>4. PICK g : g = [x \in Accounts |-> due(x) - routed(x)]
  OBVIOUS
<1>5. \A x \in Accounts : due(x) \in Nat /\ routed(x) \in Nat
  BY <1>2, PayeesTypes
<1>6. g \in [Accounts -> Int] /\ bal' = [x \in Accounts |-> bal[x] + g[x]]
  <2>1. bal \in [Accounts -> Int]
    BY DEF TypeInv, MoneyTypes
  <2> HIDE DEF due, routed
  <2>2. g \in [Accounts -> Int]
    BY <1>4, <1>5
  <2>3. \A x \in Accounts : bal[x] + due(x) - routed(x) = bal[x] + g[x]
    BY <1>4, <1>5, <2>1
  <2> QED
    BY <1>1, <2>2, <2>3
<1>7. DisputeClaims(u)' = DisputeClaims(u)
  BY <1>1, DisputeClaimsSame
<1>8. PICK k : k = [n \in Merchants |-> g[<<n, u>>]]
  OBVIOUS
<1>9. MerchantClaims(u)' = MerchantClaims(u) + SumFunctionOnSet(k, Merchants)
  BY <1>6, <1>8, ClaimsBy
<1>10. prepaid[t] \in Int /\ prepaid[u] \in Int /\ prepaid'[u] = prepaid[u] + (IF u = t THEN 0 - a ELSE 0)
       /\ vault'[u] = vault[u] + 0 /\ DisputeClaims(u)' = DisputeClaims(u) + 0
  BY <1>1, <1>2, <1>7, OwedTypes DEF TypeInv, MoneyTypes
<1>11. CASE u # t
  <2>1. \A n \in Merchants : k[n] = 0
    BY <1>4, <1>8, <1>11 DEF Accounts, Due
  <2>2. SumFunctionOnSet(k, Merchants) = 0
    BY <1>2, <2>1, SumZero
  <2>3. prepaid'[u] = prepaid[u] + 0 /\ MerchantClaims(u)' = MerchantClaims(u) + 0
    BY <1>9, <1>10, <1>11, <2>2
  <2>4. Surplus(u)' = Surplus(u) + (0 - (0 + 0 + 0)) /\ Surplus(u) \in Int
    BY <1>10, <2>3, SurplusFrom
  <2> QED
    BY <1>11, <2>4
<1>12. CASE u = t
  <2> DEFINE c == [n \in Merchants |-> Credit(s, n, a)]
  <2>1. SumFunctionOnSet(c, Merchants) = a
    BY <1>2, CreditFacts
  <2>2. \A n \in Merchants : c[n] \in Nat /\ k[n] = c[n] - (IF n = m THEN back ELSE 0)
    BY <1>3, <1>4, <1>8, <1>12 DEF Accounts, Due
  <2> HIDE DEF c, back, m, t
  <2>3. \A n \in Merchants \ {m} : k[n] = c[n]
    BY <1>2, <2>2
  <2>4. k[m] \in Int /\ k[m] = c[m] - back /\ c[m] \in Int
    BY <1>2, <2>2
  <2>5. SumFunctionOnSet(k, Merchants) = SumFunctionOnSet(c, Merchants) + k[m] - c[m]
    BY <1>2, <2>2, <2>3, <2>4, SumChange
  <2>6. SumFunctionOnSet(k, Merchants) = a - back
    BY <1>2, <2>1, <2>4, <2>5
  <2>7. prepaid'[u] = prepaid[u] + (0 - a) /\ MerchantClaims(u)' = MerchantClaims(u) + (a - back)
    BY <1>9, <1>10, <1>12, <2>6
  <2>8. 0 - a \in Int /\ a - back \in Int
    BY <1>2
  <2>9. Surplus(u)' = Surplus(u) + (0 - ((0 - a) + (a - back) + 0)) /\ Surplus(u) \in Int
    BY <1>10, <2>7, <2>8, SurplusFrom
  <2>10. 0 - ((0 - a) + (a - back) + 0) = back
    BY <1>2
  <2>11. Surplus(u)' = Surplus(u) + back
    BY <2>9, <2>10
  <2> QED
    BY <1>12, <2>11 DEF back, t
<1> QED
  BY <1>11, <1>12

\* A failed batch item: its payees are owed what nobody was debited for.
LEMMA UnroutedSurplus ==
    ASSUME TypeInv, NEW s \in Subs, NEW a \in ChargeAmounts, BatchChargeUnrouted(s, a),
           NEW u \in Tokens
    PROVE  Surplus(u)' = Surplus(u) + (IF u = TokenOf[s] THEN 0 - a ELSE 0)
<1>1. /\ bal' = [x \in Accounts |-> bal[x] + Due(s, a, x)]
      /\ UNCHANGED <<prepaid, vault, dispute, escrow>>
  BY DEF BatchChargeUnrouted, disputes
<1>2. a \in Nat /\ IsFiniteSet(Merchants) /\ merchantOf[s] \in Merchants /\ split[s] \in Splits
  BY PayeesTypes, SettlementAssumption
<1>3. PICK g : g = [x \in Accounts |-> Due(s, a, x)]
  OBVIOUS
<1>4. g \in [Accounts -> Int] /\ bal' = [x \in Accounts |-> bal[x] + g[x]]
  BY <1>1, <1>3, PayeesTypes
<1>5. DisputeClaims(u)' = DisputeClaims(u) + 0 /\ vault'[u] = vault[u] + 0
      /\ prepaid'[u] = prepaid[u] + 0
  BY <1>1, DisputeClaimsSame, OwedTypes
<1>6. PICK k : k = [n \in Merchants |-> g[<<n, u>>]]
  OBVIOUS
<1>7. MerchantClaims(u)' = MerchantClaims(u) + SumFunctionOnSet(k, Merchants)
  BY <1>4, <1>6, ClaimsBy
<1>8. SumFunctionOnSet(k, Merchants) = IF u = TokenOf[s] THEN a ELSE 0
  <2>1. CASE u # TokenOf[s]
    <3>1. \A n \in Merchants : k[n] = 0
      BY <1>3, <1>6, <2>1 DEF Accounts, Due
    <3> QED
      BY <1>2, <2>1, <3>1, SumZero
  <2>2. CASE u = TokenOf[s]
    <3>1. k = [n \in Merchants |-> Credit(s, n, a)]
      BY <1>3, <1>6, <2>2 DEF Accounts, Due
    <3>2. SumFunctionOnSet([n \in Merchants |-> Credit(s, n, a)], Merchants) = a
      BY <1>2, CreditFacts
    <3> QED
      BY <2>2, <3>1, <3>2
  <2> QED
    BY <2>1, <2>2
<1>9. PICK c \in Int : c = IF u = TokenOf[s] THEN a ELSE 0
  BY <1>2
<1>10. Surplus(u)' = Surplus(u) + (0 - (0 + c + 0)) /\ Surplus(u) \in Int
  BY <1>5, <1>7, <1>8, <1>9, SurplusFrom
<1> QED
  BY <1>2, <1>9, <1>10

\* Money that stays where it is.
LEMMA SurplusSame ==
    ASSUME TypeInv, UNCHANGED <<vault, prepaid, bal, escrow>>, DOMAIN dispute' = DOMAIN dispute,
           \A d \in DOMAIN dispute : dispute'[d].sub = dispute[d].sub, NEW t \in Tokens
    PROVE  Surplus(t)' = Surplus(t)
<1>1. DisputeClaims(t)' = DisputeClaims(t)
  BY DisputeClaimsSame
<1> QED
  BY <1>1 DEF Surplus, Owed, MerchantClaims

\* A withdrawal or refund takes as much out of the vault as off the balance.
LEMMA WithdrawSurplus ==
    ASSUME TypeInv, NEW m \in Merchants, NEW t \in Tokens, NEW a \in Nat,
           WithdrawMerchantFunds(m, t, a) \/ MerchantRefund(m, t, a), NEW u \in Tokens
    PROVE  Surplus(u)' = Surplus(u)
<1> DEFINE x == <<m, t>>
           v == IF u = t THEN 0 - a ELSE 0
<1>1. /\ bal' = [bal EXCEPT ![x] = @ - a] /\ vault' = [vault EXCEPT ![t] = @ - a]
      /\ UNCHANGED <<prepaid, dispute, escrow>>
  BY DEF WithdrawMerchantFunds, MerchantRefund, Pay, disputes
<1>2. x \in Accounts /\ bal[x] \in Int /\ vault[t] \in Int /\ vault[u] \in Int
      /\ prepaid[u] \in Int /\ vault \in [Tokens -> Nat] /\ v \in Int /\ x[2] = t
  BY OwedTypes DEF TypeInv, MoneyTypes, Accounts
<1>3. DisputeClaims(u)' = DisputeClaims(u) + 0
  BY <1>1, DisputeClaimsSame, OwedTypes
<1>4. bal' = [bal EXCEPT ![x] = bal[x] + (0 - a)] /\ 0 - a \in Int
  <2>1. bal' = [bal EXCEPT ![x] = bal[x] - a]
    BY <1>1
  <2>2. bal[x] - a = bal[x] + (0 - a) /\ 0 - a \in Int
    BY <1>2
  <2> HIDE DEF x
  <2> QED
    BY <2>1, <2>2, Zenon
<1>5. vault'[u] = vault[u] + v /\ prepaid'[u] = prepaid[u] + 0
  BY <1>1, <1>2
<1> HIDE DEF x
<1>6. MerchantClaims(u)' = MerchantClaims(u) + v
  BY <1>2, <1>4, ClaimsAt
<1> HIDE DEF v
<1>7. Surplus(u)' = Surplus(u) + (v - (0 + v + 0)) /\ Surplus(u) \in Int
  BY <1>2, <1>3, <1>5, <1>6, SurplusFrom
<1> QED
  BY <1>2, <1>7

\* A withdrawal from a sub-account comes out of the surplus.
LEMMA SubAccountSurplus ==
    ASSUME TypeInv, NEW m \in Merchants, NEW l \in Labels, NEW t \in Tokens, NEW a \in Nat,
           WithdrawSubAccountFunds(m, l, t, a), NEW u \in Tokens
    PROVE  Surplus(u)' = Surplus(u) + (IF u = t THEN 0 - a ELSE 0)
<1> DEFINE v == IF u = t THEN 0 - a ELSE 0
<1>1. /\ vault' = [vault EXCEPT ![t] = @ - a]
      /\ UNCHANGED <<prepaid, bal, dispute, escrow>>
  BY DEF WithdrawSubAccountFunds, Pay, disputes
<1>2. vault[u] \in Int /\ prepaid[u] \in Int /\ vault \in [Tokens -> Nat] /\ v \in Int
  BY OwedTypes DEF TypeInv, MoneyTypes
<1>3. DisputeClaims(u)' = DisputeClaims(u) + 0
  BY <1>1, DisputeClaimsSame, OwedTypes
<1>4. vault'[u] = vault[u] + v /\ prepaid'[u] = prepaid[u] + 0
  BY <1>1, <1>2
<1>5. MerchantClaims(u)' = MerchantClaims(u) + 0
  BY <1>1, OwedTypes DEF MerchantClaims
<1> HIDE DEF v
<1>6. Surplus(u)' = Surplus(u) + (v - (0 + 0 + 0)) /\ Surplus(u) \in Int
  BY <1>2, <1>3, <1>4, <1>5, SurplusFrom
<1>7. Surplus(u)' = Surplus(u) + v
  BY <1>2, <1>6
<1> QED
  BY <1>7 DEF v

\* A payout takes as much of every token out of the vault as off the balances.
LEMMA PayoutSurplus ==
    ASSUME TypeInv, NEW m \in Merchants, FlushPayouts(m), NEW u \in Tokens
    PROVE  Surplus(u)' = Surplus(u)
<1> DEFINE paid(t) == IF Flushed(m, t) THEN bal[<<m, t>>] ELSE 0
           due(x) == IF x[1] = m THEN paid(x[2]) ELSE 0
           v == 0 - paid(u)
<1>1. /\ vault' = [t \in Tokens |-> vault[t] - paid(t)]
      /\ bal' = [x \in Accounts |-> bal[x] - due(x)]
      /\ UNCHANGED <<prepaid, dispute, escrow>>
  BY DEF FlushPayouts, disputes
<1>2. bal \in [Accounts -> Int] /\ vault[u] \in Int /\ prepaid[u] \in Int
      /\ IsFiniteSet(Merchants)
  BY OwedTypes, SettlementAssumption DEF TypeInv, MoneyTypes
<1>3. \A t \in Tokens : paid(t) \in Int
  BY <1>2 DEF Accounts
<1>4. \A x \in Accounts : due(x) \in Int
  BY <1>3 DEF Accounts
<1>5. PICK g : g = [x \in Accounts |-> 0 - due(x)]
  OBVIOUS
<1>6. g \in [Accounts -> Int] /\ bal' = [x \in Accounts |-> bal[x] + g[x]]
  <2> HIDE DEF due
  <2>1. g \in [Accounts -> Int]
    BY <1>4, <1>5
  <2>2. \A x \in Accounts : bal[x] - due(x) = bal[x] + g[x]
    BY <1>2, <1>4, <1>5
  <2> QED
    BY <1>1, <2>1, <2>2
<1>7. PICK k : k = [n \in Merchants |-> g[<<n, u>>]]
  OBVIOUS
<1>8. \A n \in Merchants : k[n] = IF n = m THEN v ELSE 0
  BY <1>5, <1>7 DEF Accounts
<1>9. v \in Int /\ vault'[u] = vault[u] + v /\ prepaid'[u] = prepaid[u] + 0
  <2>1. vault'[u] = vault[u] - paid(u) /\ paid(u) \in Int
    BY <1>1, <1>3
  <2> HIDE DEF paid
  <2> QED
    BY <1>1, <1>2, <2>1
<1>10. DisputeClaims(u)' = DisputeClaims(u) + 0
  BY <1>1, DisputeClaimsSame, OwedTypes
<1> HIDE DEF v, paid, due
<1>11. SumFunctionOnSet(k, Merchants) = v
  <2>1. \A n \in Merchants : k[n] \in Int
    BY <1>8, <1>9
  <2>2. SumFunctionOnSet(k, Merchants) = k[m] + SumFunctionOnSet(k, Merchants \ {m})
    BY <1>2, <2>1, SumTake
  <2>3. SumFunctionOnSet(k, Merchants \ {m}) = 0
    <3>1. IsFiniteSet(Merchants \ {m}) /\ \A n \in Merchants \ {m} : k[n] = 0
      BY <1>2, <1>8, FS_Subset
    <3> QED
      BY <3>1, SumZero
  <2> QED
    BY <1>8, <1>9, <2>2, <2>3
<1>12. MerchantClaims(u)' = MerchantClaims(u) + v
  BY <1>6, <1>7, <1>11, ClaimsBy
<1>13. Surplus(u)' = Surplus(u) + (v - (0 + v + 0)) /\ Surplus(u) \in Int
  BY <1>9, <1>10, <1>12, SurplusFrom
<1> QED
  BY <1>9, <1>13

\* A new dispute takes its amount off the merchant's balance.
LEMMA OpenSurplus ==
    ASSUME TypeInv, NEW s \in Subs, NEW a \in DisputeAmounts, OpenDispute(s, a), NEW u \in Tokens
    PROVE  Surplus(u)' = Surplus(u)
<1> DEFINE t == TokenOf[s]
           x == <<merchantOf[s], t>>
           v == IF u = t THEN a ELSE 0
           new == [sub |-> s, merchant |-> merchantOf[s], amount |-> a, openedAt |-> now,
                   status |-> "Open"]
<1>1. PICK n \in Int : n = nextDispute /\ n >= 0 /\ n < MaxDisputes
  BY SettlementAssumption DEF OpenDispute, TypeInv, DisputeInv, DisputeTypes
<1>2. /\ bal' = [bal EXCEPT ![x] = @ - a] /\ escrow' = [escrow EXCEPT ![n] = a]
      /\ dispute' = [i \in 0..n |-> IF i = n THEN new ELSE dispute[i]]
      /\ UNCHANGED <<vault, prepaid>>
  BY <1>1 DEF OpenDispute, RecordDispute, money
<1>3. x \in Accounts /\ a \in Nat /\ t \in Tokens /\ bal[x] \in Int /\ v \in Int
      /\ vault[u] \in Int /\ prepaid[u] \in Int /\ DisputeClaims(u) \in Int
  <2>1. a \in Nat /\ t \in Tokens /\ merchantOf[s] \in Merchants
    BY SettlementAssumption DEF TypeInv, DisputeInv, DisputeTypes
  <2>2. x \in Accounts
    BY <2>1 DEF Accounts
  <2>3. bal[x] \in Int
    BY <2>2 DEF TypeInv, MoneyTypes
  <2> QED
    BY <2>1, <2>2, <2>3, OwedTypes
<1>4. bal' = [bal EXCEPT ![x] = bal[x] + (0 - a)] /\ 0 - a \in Int /\ x[2] = t
  <2>1. bal' = [bal EXCEPT ![x] = bal[x] - a] /\ x[2] = t
    BY <1>2
  <2>2. bal[x] - a = bal[x] + (0 - a) /\ 0 - a \in Int
    BY <1>3
  <2> HIDE DEF x
  <2> QED
    BY <2>1, <2>2, Zenon
<1>5. MerchantClaims(u)' = MerchantClaims(u) + (0 - v)
  <2>1. MerchantClaims(u)' = MerchantClaims(u) + (IF u = x[2] THEN 0 - a ELSE 0)
    <3> HIDE DEF x
    <3> QED
      BY <1>3, <1>4, ClaimsAt
  <2> QED
    BY <1>4, <2>1
<1>6. new.sub = s
  OBVIOUS
<1>7. /\ n \in DisputeIds /\ DOMAIN dispute = 0..(n - 1) /\ escrow \in [DisputeIds -> Nat]
      /\ \A i \in 0..(n - 1) : i \in DisputeIds /\ i # n
  BY <1>1, SettlementAssumption DEF TypeInv, DisputeInv, DisputeTypes, DisputeIds
<1> HIDE DEF new
<1>8. PICK D : D = Disputed(u)
  OBVIOUS
<1>9. PICK E : E = Disputed(u)'
  OBVIOUS
<1>10. /\ IsFiniteSet(D) /\ n \notin D /\ (\A d \in D : escrow[d] \in Nat)
       /\ DisputeClaims(u) = SumFunctionOnSet([d \in D |-> escrow[d]], D)
       /\ D \subseteq 0..(n - 1)
  BY <1>1, <1>7, <1>8, DisputedFacts
<1>11. E = IF u = t THEN D \cup {n} ELSE D
  <2>1. DOMAIN dispute' = 0..n /\ 0..n = (0..(n - 1)) \cup {n} /\ n \notin 0..(n - 1)
    BY <1>1, <1>2
  <2>2. dispute'[n] = new /\ \A i \in 0..(n - 1) : dispute'[i] = dispute[i]
    BY <1>2, <2>1
  <2>3. \A i \in 0..n : i \in E <=> TokenOf[dispute'[i].sub] = u
    BY <1>9, <2>1 DEF Disputed
  <2>4. E \subseteq 0..n
    BY <1>9, <2>1 DEF Disputed
  <2>5. n \in E <=> u = t
    BY <2>1, <2>2, <2>3, <1>6
  <2>6. \A i \in 0..(n - 1) : i \in E <=> i \in D
    BY <1>7, <1>8, <2>1, <2>2, <2>3 DEF Disputed
  <2> DEFINE K == 0..(n - 1)
  <2>7. /\ E \subseteq K \cup {n} /\ D \subseteq K /\ n \notin K
        /\ \A i \in K : i \in E <=> i \in D
    BY <1>10, <2>1, <2>4, <2>6
  <2> HIDE DEF K, t
  <2>8. CASE u = t
    BY <2>5, <2>7, <2>8
  <2>9. CASE u # t
    BY <2>5, <2>7, <2>9
  <2> QED
    BY <2>8, <2>9
<1>12. PICK g : g = [d \in E |-> escrow'[d]]
  OBVIOUS
<1>13. DisputeClaims(u)' = SumFunctionOnSet(g, E)
  BY <1>9, <1>12 DEF DisputeClaims, Disputed, SumFunction
<1>14. PICK f : f = [d \in D |-> escrow[d]]
  OBVIOUS
<1>15. escrow'[n] = a /\ \A d \in D : escrow'[d] = escrow[d]
  BY <1>2, <1>7, <1>10
<1>16. \A d \in D : g[d] = f[d] /\ f[d] \in Nat
  BY <1>10, <1>11, <1>12, <1>14, <1>15
<1>17. SumFunctionOnSet(g, D) = DisputeClaims(u)
  <2>1. SumFunctionOnSet(f, D) = DisputeClaims(u) /\ IsFiniteSet(D)
    BY <1>10, <1>14
  <2>2. \A d \in D : g[d] = f[d]
    BY <1>16
  <2>3. SumFunctionOnSet(g, D) = SumFunctionOnSet(f, D)
    BY <2>1, <2>2, SumSame
  <2> QED
    BY <2>1, <2>3
<1>18. DisputeClaims(u)' = DisputeClaims(u) + v
  <2>1. CASE u # t
    BY <1>3, <1>11, <1>13, <1>17, <2>1
  <2>2. CASE u = t
    <3>1. E = D \cup {n} /\ E \ {n} = D /\ n \in E
      BY <1>10, <1>11, <2>2
    <3>2. IsFiniteSet(E)
      BY <1>10, <3>1, FS_AddElement
    <3>3. g[n] = a /\ \A d \in E : g[d] \in Int
      BY <1>3, <1>12, <1>15, <1>16, <3>1
    <3>4. SumFunctionOnSet(g, E) = g[n] + SumFunctionOnSet(g, E \ {n})
      <4>1. IsFiniteSet(E) /\ n \in E /\ \A d \in E : g[d] \in Int
        BY <3>1, <3>2, <3>3
      <4>2. PICK y \in E : y = n
        BY <4>1
      <4>3. SumFunctionOnSet(g, E) = g[y] + SumFunctionOnSet(g, E \ {y})
        BY <4>1, SumTake, ZenonT(60)
      <4> QED
        BY <4>2, <4>3
    <3>5. PICK c \in Int : c = DisputeClaims(u)
      BY <1>3
    <3>6. SumFunctionOnSet(g, E) = a + c
      BY <1>17, <3>1, <3>3, <3>4, <3>5
    <3>7. v = a /\ a + c = c + a
      BY <1>3, <2>2
    <3> QED
      BY <1>13, <3>5, <3>6, <3>7
  <2> QED
    BY <2>1, <2>2
<1>19. vault'[u] = vault[u] + 0 /\ prepaid'[u] = prepaid[u] + 0 /\ 0 - v \in Int
  BY <1>2, <1>3
<1> DEFINE w == 0 - v
<1> HIDE DEF v
<1>20. w \in Int /\ w + v = 0
  BY <1>3
<1>21. MerchantClaims(u)' = MerchantClaims(u) + w
  BY <1>5
<1> HIDE DEF w
<1>22. Surplus(u)' = Surplus(u) + (0 - (0 + w + v)) /\ Surplus(u) \in Int
  BY <1>3, <1>18, <1>19, <1>20, <1>21, SurplusFrom
<1>23. 0 - (0 + w + v) = 0
  BY <1>3, <1>20
<1> QED
  BY <1>22, <1>23

\* The end of a dispute moves its escrow back to the balance or out of the vault.
LEMMA ResolveSurplus ==
    ASSUME TypeInv, NEW d \in DOMAIN dispute, NEW b \in BOOLEAN, ResolveDispute(d, b),
           NEW u \in Tokens
    PROVE  Surplus(u)' = Surplus(u)
<1> DEFINE t == TokenOf[dispute[d].sub]
           x == <<dispute[d].merchant, t>>
<1>1. d \in DisputeIds /\ dispute[d] \in Dispute /\ DOMAIN dispute = 0..(nextDispute - 1)
  BY SettlementAssumption DEF TypeInv, DisputeInv, DisputeTypes, DisputeIds
<1>2. PICK e \in Int : e = escrow[d]
  BY <1>1 DEF TypeInv, DisputeInv, DisputeTypes
<1>3. t \in Tokens /\ x \in Accounts /\ x[2] = t /\ vault[u] \in Int /\ prepaid[u] \in Int
      /\ vault \in [Tokens -> Nat] /\ escrow \in [DisputeIds -> Nat]
      /\ MerchantClaims(u) \in Int /\ DisputeClaims(u) \in Int
  BY <1>1, OwedTypes, SettlementAssumption
     DEF Dispute, Accounts, TypeInv, MoneyTypes, DisputeInv, DisputeTypes
<1>4. PICK res : dispute' = [dispute EXCEPT ![d].status = res]
  BY DEF ResolveDispute, Disburse
<1>5. /\ escrow' = [escrow EXCEPT ![d] = 0] /\ UNCHANGED prepaid
      /\ \/ bal' = [bal EXCEPT ![x] = bal[x] + e] /\ UNCHANGED vault
         \/ vault' = [vault EXCEPT ![t] = @ - e] /\ UNCHANGED bal
  BY <1>2 DEF ResolveDispute, Disburse, Pay
<1> DEFINE v == IF u = t THEN e ELSE 0
           w == IF u = t THEN 0 - e ELSE 0
<1>6. v \in Int /\ w \in Int /\ w = 0 - v
  OBVIOUS
<1>7. \/ MerchantClaims(u)' = MerchantClaims(u) + v /\ vault'[u] = vault[u] + 0
      \/ MerchantClaims(u)' = MerchantClaims(u) + 0 /\ vault'[u] = vault[u] + w
  <2>1. CASE bal' = [bal EXCEPT ![x] = bal[x] + e] /\ UNCHANGED vault
    <3>1. MerchantClaims(u)' = MerchantClaims(u) + (IF u = x[2] THEN e ELSE 0)
      <4> HIDE DEF x
      <4> QED
        BY <1>3, <2>1, ClaimsAt
    <3> QED
      BY <1>3, <2>1, <3>1
  <2>2. CASE vault' = [vault EXCEPT ![t] = @ - e] /\ UNCHANGED bal
    <3>1. MerchantClaims(u)' = MerchantClaims(u) + 0
      BY <1>3, <2>2 DEF MerchantClaims
    <3>2. vault'[u] = vault[u] + w
      BY <1>3, <2>2
    <3> QED
      BY <3>1, <3>2
  <2> QED
    BY <1>5, <2>1, <2>2
<1>8. PICK D : D = Disputed(u)
  OBVIOUS
<1>9. Disputed(u)' = D
  <2>1. DOMAIN dispute' = DOMAIN dispute
    BY <1>4
  <2>2. \A i \in DOMAIN dispute : dispute'[i].sub = dispute[i].sub
    BY <1>1, <1>4 DEF Dispute
  <2> QED
    BY <1>8, <2>1, <2>2 DEF Disputed
<1>10. /\ IsFiniteSet(D) /\ (\A i \in D : escrow[i] \in Nat)
       /\ DisputeClaims(u) = SumFunctionOnSet([i \in D |-> escrow[i]], D)
       /\ D \subseteq 0..(nextDispute - 1)
  BY <1>8, DisputedFacts
<1>11. d \in D <=> u = t
  BY <1>8 DEF Disputed
<1>12. PICK f : f = [i \in D |-> escrow[i]]
  OBVIOUS
<1>13. PICK g : g = [i \in D |-> escrow'[i]]
  OBVIOUS
<1>14. DisputeClaims(u)' = SumFunctionOnSet(g, D)
  BY <1>9, <1>13 DEF DisputeClaims, Disputed, SumFunction
<1>15. D \subseteq DisputeIds
  BY <1>10, SettlementAssumption DEF DisputeIds, TypeInv, DisputeInv, DisputeTypes
<1>16. \A i \in D : f[i] \in Int /\ g[i] = IF i = d THEN 0 ELSE f[i]
  BY <1>3, <1>5, <1>10, <1>12, <1>13, <1>15
<1>17. DisputeClaims(u)' = DisputeClaims(u) + w
  <2>1. CASE u # t
    <3>1. \A i \in D : g[i] = f[i]
      BY <1>11, <1>16, <2>1
    <3>2. SumFunctionOnSet(g, D) = SumFunctionOnSet(f, D)
      BY <1>10, <3>1, SumSame
    <3> QED
      BY <1>3, <1>10, <1>12, <1>14, <2>1, <3>2
  <2>2. CASE u = t
    <3>1. PICK y \in D : y = d
      BY <1>11, <2>2
    <3>2. g[y] = 0 /\ f[y] = e /\ (\A i \in D \ {y} : g[i] = f[i]) /\ g[y] \in Int
      BY <1>2, <1>12, <1>16, <3>1
    <3>3. SumFunctionOnSet(g, D) = SumFunctionOnSet(f, D) + g[y] - f[y]
      <4>1. IsFiniteSet(D) /\ (\A i \in D : f[i] \in Int) /\ g[y] \in Int
            /\ \A i \in D \ {y} : g[i] = f[i]
        BY <1>10, <1>16, <3>2
      <4> QED
        BY <4>1, SumChange
    <3>4. PICK c \in Int : c = DisputeClaims(u)
      BY <1>3
    <3>5. DisputeClaims(u)' = c + 0 - e
      BY <1>10, <1>12, <1>14, <3>2, <3>3, <3>4
    <3>6. w = 0 - e /\ c + 0 - e = c + w
      BY <2>2
    <3> QED
      BY <3>4, <3>5, <3>6
  <2> QED
    BY <2>1, <2>2
<1>18. prepaid'[u] = prepaid[u] + 0
  BY <1>3, <1>5
<1> HIDE DEF v, w
<1>19. CASE MerchantClaims(u)' = MerchantClaims(u) + v /\ vault'[u] = vault[u] + 0
  <2>1. Surplus(u)' = Surplus(u) + (0 - (0 + v + w)) /\ Surplus(u) \in Int
    BY <1>6, <1>17, <1>18, <1>19, SurplusFrom
  <2>2. 0 - (0 + v + w) = 0
    BY <1>6
  <2> QED
    BY <2>1, <2>2
<1>20. CASE MerchantClaims(u)' = MerchantClaims(u) + 0 /\ vault'[u] = vault[u] + w
  <2>1. Surplus(u)' = Surplus(u) + (w - (0 + 0 + w)) /\ Surplus(u) \in Int
    BY <1>6, <1>17, <1>18, <1>20, SurplusFrom
  <2>2. w - (0 + 0 + w) = 0
    BY <1>6
  <2> QED
    BY <2>1, <2>2
<1> QED
  BY <1>7, <1>19, <1>20

\* A step leaves surpluses and sub-accounts alone, or moves money of one token
\* between the surplus and one sub-account, or credits what it does not debit.
\* The last two take a labelled subscription or a sub-account that holds money
\* already.
Labelled == \E s \in Subs : LabelOf[s] # NoLabel
Still == /\ \A u \in Tokens : Surplus(u)' = Surplus(u)
         /\ \A x \in Merchants \X Labels : Held(x)' = Held(x)
         /\ UNCHANGED unbacked
Moved(t, y, v) ==
    /\ \A u \in Tokens : Surplus(u)' = Surplus(u) + (IF u = t THEN v ELSE 0)
    /\ \A x \in Merchants \X Labels : Held(x)' = Held(x) + (IF x = y THEN v ELSE 0)
    /\ UNCHANGED unbacked
Routing == \E t \in Tokens, y \in Merchants \X Labels, v \in Int :
              Moved(t, y, v) /\ (Held(y) > 0 \/ Labelled)
Missed(t, v) ==
    /\ \A u \in Tokens : Surplus(u)' = Surplus(u) + (IF u = t THEN 0 - v ELSE 0)
    /\ \A x \in Merchants \X Labels : Held(x)' = Held(x)
    /\ unbacked' = [unbacked EXCEPT ![t] = @ + v]
Unrouted == \E t \in Tokens, v \in Int : Missed(t, v) /\ Labelled

\* Sub-accounts hold natural numbers.
LEMMA HeldTypes ==
    ASSUME TypeInv, NEW x \in Merchants \X Labels
    PROVE  /\ Held(x) \in Nat /\ (subAccount[x] # None => Held(x) = subAccount[x])
           /\ (subAccount[x] = None => Held(x) = 0)
BY DEF TypeInv, MoneyTypes, Held, None

\* A charge of a labelled subscription adds to the sub-account of its label.
LEMMA ChargeHeld ==
    ASSUME TypeInv, NEW s \in Subs, NEW a \in ChargeAmounts, CreditCharge(s, a),
           LabelOf[s] # NoLabel, NEW x \in Merchants \X Labels
    PROVE  Held(x)' = Held(x) + (IF x = <<merchantOf[s], LabelOf[s]>> THEN a ELSE 0)
<1>1. PICK y : y = <<merchantOf[s], LabelOf[s]>>
  OBVIOUS
<1>2. a \in Nat /\ y \in Merchants \X Labels
      /\ subAccount \in [Merchants \X Labels -> Nat \cup {None}]
  BY <1>1, SettlementAssumption DEF TypeInv, MoneyTypes, DisputeInv, DisputeTypes
<1>3. subAccount' = [subAccount EXCEPT ![y] = @ + a] /\ subAccount[y] # None
  BY <1>1 DEF CreditCharge, Distribute, SubAccountExists
<1>4. CASE x = y
  <2>1. subAccount[x] \in Nat /\ subAccount'[x] = subAccount[x] + a
    BY <1>2, <1>3, <1>4
  <2>2. subAccount[x] + a # None
    BY <1>2, <2>1 DEF None
  <2> QED
    BY <1>1, <1>3, <1>4, <2>1, <2>2 DEF Held
<1>5. CASE x # y
  <2>1. subAccount'[x] = subAccount[x]
    BY <1>2, <1>3, <1>5
  <2>2. Held(x)' = Held(x) /\ Held(x) \in Nat
    BY <2>1, HeldTypes DEF Held
  <2> QED
    BY <1>1, <1>5, <2>2
<1> QED
  BY <1>4, <1>5

\* A withdrawal from a sub-account takes from what it holds.
LEMMA SubAccountHeld ==
    ASSUME TypeInv, NEW m \in Merchants, NEW l \in Labels, NEW t \in Tokens, NEW a \in Nat,
           WithdrawSubAccountFunds(m, l, t, a), NEW x \in Merchants \X Labels
    PROVE  /\ Held(x)' = Held(x) + (IF x = <<m, l>> THEN 0 - a ELSE 0)
           /\ Held(<<m, l>>) > 0
<1>1. PICK y : y = <<m, l>>
  OBVIOUS
<1>2. y \in Merchants \X Labels
  BY <1>1
<1>3. subAccount' = [subAccount EXCEPT ![y] = @ - a] /\ subAccount[y] # None
      /\ a > 0 /\ a <= subAccount[y]
  BY <1>1 DEF WithdrawSubAccountFunds
<1>4. subAccount \in [Merchants \X Labels -> Nat \cup {None}]
  BY DEF TypeInv, MoneyTypes
<1>5. subAccount[y] \in Nat
  BY <1>2, <1>3, <1>4
<1>6. PICK v \in Int : v = 0 - a
  OBVIOUS
<1>7. Held(x)' = Held(x) + (IF x = y THEN v ELSE 0)
  <2>1. CASE x = y
    <3>1. subAccount'[x] = subAccount[x] - a
      BY <1>2, <1>3, <1>4, <2>1
    <3>2. subAccount[x] - a # None /\ subAccount[x] - a = subAccount[x] + v
      BY <1>3, <1>5, <1>6, <2>1 DEF None
    <3> QED
      BY <1>3, <2>1, <3>1, <3>2 DEF Held
  <2>2. CASE x # y
    <3>1. subAccount'[x] = subAccount[x]
      BY <1>3, <1>4, <2>2
    <3>2. Held(x)' = Held(x) /\ Held(x) \in Nat
      BY <3>1, HeldTypes DEF Held
    <3> QED
      BY <2>2, <3>2
  <2> QED
    BY <2>1, <2>2
<1>8. Held(y) > 0
  BY <1>2, <1>3, <1>5, HeldTypes
<1> QED
  BY <1>1, <1>6, <1>7, <1>8

\* A charge routes to the sub-account of its label, if it has one.
LEMMA ChargeFlow ==
    ASSUME TypeInv, NEW s \in Subs, NEW a \in ChargeAmounts, CreditCharge(s, a)
    PROVE  Still \/ Routing
<1>1. a \in Nat /\ merchantOf[s] \in Merchants /\ TokenOf[s] \in Tokens
  BY SettlementAssumption DEF TypeInv, DisputeInv, DisputeTypes
<1>2. CASE LabelOf[s] = NoLabel
  <2>1. (\A x \in Merchants \X Labels : Held(x)' = Held(x)) /\ UNCHANGED unbacked
    BY <1>2 DEF CreditCharge, Distribute, Held
  <2>2. ASSUME NEW u \in Tokens PROVE Surplus(u)' = Surplus(u)
    <3>1. Surplus(u)' = Surplus(u) + 0
      BY <1>2, ChargeSurplus
    <3>2. Surplus(u) \in Int
      BY OwedTypes DEF Surplus, Owed
    <3> QED
      BY <3>1, <3>2
  <2> QED
    BY <2>1, <2>2 DEF Still
<1>3. CASE LabelOf[s] # NoLabel
  <2>1. PICK y : y = <<merchantOf[s], LabelOf[s]>>
    OBVIOUS
  <2>2. y \in Merchants \X Labels
    BY <1>1, <1>3, <2>1, SettlementAssumption
  <2>3. \A x \in Merchants \X Labels : Held(x)' = Held(x) + (IF x = y THEN a ELSE 0)
    BY <1>3, <2>1, ChargeHeld
  <2>4. \A u \in Tokens : Surplus(u)' = Surplus(u) + (IF u = TokenOf[s] THEN a ELSE 0)
    BY <1>3, ChargeSurplus
  <2>5. Moved(TokenOf[s], y, a)
    BY <2>3, <2>4 DEF Moved, CreditCharge, Distribute
  <2> QED
    BY <1>1, <1>3, <2>2, <2>5 DEF Routing, Labelled
<1> QED
  BY <1>2, <1>3

\* A batch item on a missing sub-account credits without a debit.
LEMMA UnroutedFlow ==
    ASSUME TypeInv, NEW s \in Subs, NEW a \in ChargeAmounts, BatchChargeUnrouted(s, a)
    PROVE  Unrouted
<1>1. a \in Int /\ TokenOf[s] \in Tokens
  BY PayeesTypes
<1>2. \A u \in Tokens : Surplus(u)' = Surplus(u) + (IF u = TokenOf[s] THEN 0 - a ELSE 0)
  BY UnroutedSurplus
<1>3. /\ \A x \in Merchants \X Labels : Held(x)' = Held(x)
      /\ unbacked' = [unbacked EXCEPT ![TokenOf[s]] = @ + a]
      /\ LabelOf[s] # NoLabel
  BY DEF BatchChargeUnrouted, SubAccountExists, Held
<1>4. Missed(TokenOf[s], a)
  BY <1>2, <1>3 DEF Missed
<1> QED
  BY <1>1, <1>3, <1>4 DEF Unrouted, Labelled

\* A withdrawal from a sub-account routes back.
LEMMA SubAccountFlow ==
    ASSUME TypeInv, NEW m \in Merchants, NEW l \in Labels, NEW t \in Tokens, NEW a \in Nat,
           WithdrawSubAccountFunds(m, l, t, a)
    PROVE  Routing
<1>1. PICK y \in Merchants \X Labels : y = <<m, l>>
  OBVIOUS
<1>2. PICK v \in Int : v = 0 - a
  OBVIOUS
<1>3. /\ \A x \in Merchants \X Labels : Held(x)' = Held(x) + (IF x = y THEN v ELSE 0)
      /\ Held(y) > 0
  BY <1>1, <1>2, SubAccountHeld
<1>4. \A u \in Tokens : Surplus(u)' = Surplus(u) + (IF u = t THEN v ELSE 0)
  BY <1>2, SubAccountSurplus
<1>5. Moved(t, y, v)
  BY <1>3, <1>4 DEF Moved, WithdrawSubAccountFunds
<1> QED
  BY <1>3, <1>5 DEF Routing

\* A rotation of a merchant to its own address.
Vacated == \E r \in Rotations : r[1] = r[2] /\ RotateMerchantAddress(r[1], r[2])

\* Every step does one of them, but for rotations of a merchant to itself.
LEMMA FlowStep ==
    ASSUME TypeInv, [Next]_vars
    PROVE  Still \/ Routing \/ Unrouted \/ Vacated
<1> USE DEF disputes, books, money
<1>1. ASSUME UNCHANGED <<vault, prepaid, unbacked, bal, escrow, subAccount>>,
             DOMAIN dispute' = DOMAIN dispute,
             \A d \in DOMAIN dispute : dispute'[d].sub = dispute[d].sub
      PROVE  Still
  BY <1>1, SurplusSame DEF Still, Held
<1>2. ASSUME UNCHANGED <<subAccount, unbacked>>, \A u \in Tokens : Surplus(u)' = Surplus(u)
      PROVE  Still
  BY <1>2 DEF Still, Held
<1>3. CASE UNCHANGED vars
  BY <1>1, <1>3 DEF vars
<1>4. ASSUME NEW s \in Subs, SubscriptionStep(s) PROVE Still \/ Routing \/ Unrouted
  <2>1. ASSUME NEW a \in DisputeAmounts, OpenDispute(s, a) PROVE Still
    BY <1>2, <2>1, OpenSurplus DEF OpenDispute, RecordDispute
  <2>2. ASSUME NEW e \in Splits, UpdateSplitPayees(s, e) PROVE Still
    BY <1>1, <2>2 DEF UpdateSplitPayees
  <2> QED
    BY <1>4, <2>1, <2>2, ChargeFlow, UnroutedFlow DEF SubscriptionStep
<1>5. ASSUME NEW m \in Merchants, MerchantStep(m) PROVE Still \/ Routing
  <2>1. ASSUME NEW t \in Tokens, NEW a \in WithdrawAmounts \cup RefundAmounts,
               WithdrawMerchantFunds(m, t, a) \/ MerchantRefund(m, t, a)
        PROVE  Still
    <3>1. a \in Nat
      BY SettlementAssumption
    <3>2. UNCHANGED <<subAccount, unbacked>>
      BY <2>1 DEF WithdrawMerchantFunds, MerchantRefund
    <3> QED
      BY <1>2, <2>1, <3>1, <3>2, WithdrawSurplus
  <2>2. CASE FlushPayouts(m)
    BY <1>2, <2>2, PayoutSurplus DEF FlushPayouts
  <2>3. ASSUME NEW l \in Labels, RegisterSubAccount(m, l) PROVE Still
    <3>1. \A x \in Merchants \X Labels : Held(x)' = Held(x)
      <4>1. subAccount \in [Merchants \X Labels -> Nat \cup {None}]
        BY DEF TypeInv, MoneyTypes
      <4> QED
        BY <2>3, <4>1 DEF RegisterSubAccount, Held, None
    <3>2. \A u \in Tokens : Surplus(u)' = Surplus(u)
      BY <2>3, SurplusSame DEF RegisterSubAccount
    <3> QED
      BY <2>3, <3>1, <3>2 DEF Still, RegisterSubAccount
  <2>4. ASSUME NEW l \in Labels, NEW t \in Tokens, NEW a \in SubAccountAmounts,
               WithdrawSubAccountFunds(m, l, t, a)
        PROVE  Routing
    <3>1. a \in Nat
      BY SettlementAssumption
    <3> QED
      BY <2>4, <3>1, SubAccountFlow
  <2>5. CASE InitializeMerchantConfig(m) \/ \E c \in ScheduleChoices : SetPayoutSchedule(m, c)
    BY <1>1, <2>5 DEF InitializeMerchantConfig, SetPayoutSchedule
  <2> QED
    BY <1>5, <2>1, <2>2, <2>3, <2>4, <2>5 DEF MerchantStep
<1>6. ASSUME AdminStep PROVE Still \/ Vacated
  <2>1. ASSUME NEW d \in DOMAIN dispute, RespondDispute(d) PROVE Still
    <3>1. DOMAIN dispute' = DOMAIN dispute
      BY <2>1 DEF RespondDispute
    <3>2. \A i \in DOMAIN dispute : dispute'[i].sub = dispute[i].sub
      BY <2>1 DEF RespondDispute, TypeInv, DisputeInv, DisputeTypes, Dispute
    <3> QED
      BY <1>1, <2>1, <3>1, <3>2 DEF RespondDispute
  <2>2. ASSUME NEW d \in DOMAIN dispute, NEW b \in BOOLEAN, ResolveDispute(d, b) PROVE Still
    BY <1>2, <2>2, ResolveSurplus DEF ResolveDispute, Disburse
  <2>3. ASSUME NEW r \in Rotations, r[1] # r[2], RotateMerchantAddress(r[1], r[2]) PROVE Still
    <3>1. UNCHANGED <<subAccount, vault, prepaid, unbacked, dispute, escrow>>
      BY <2>3 DEF RotateMerchantAddress
    <3>2. \A u \in Tokens : MerchantClaims(u)' = MerchantClaims(u)
      BY <2>3, RotationClaims
    <3>3. \A u \in Tokens : Surplus(u)' = Surplus(u)
      BY <3>1, <3>2, DisputeClaimsSame DEF Surplus, Owed
    <3> QED
      BY <1>2, <3>1, <3>3
  <2>4. ASSUME (\E w \in Windows : SetDisputeWindowSecs(w)) \/ Tick PROVE Still
    BY <1>1, <2>4 DEF SetDisputeWindowSecs, Tick
  <2> QED
    BY <1>6, <2>1, <2>2, <2>3, <2>4 DEF AdminStep, Vacated
<1> QED
  BY <1>3, <1>4, <1>5, <1>6 DEF Next

\* Rotated to its own address, a merchant who is not in debt loses claims.
LEMMA VacatedSurplus ==
    ASSUME TypeInv, EarningsNonNegative, NEW r \in Rotations, r[1] = r[2],
           RotateMerchantAddress(r[1], r[2]), NEW t \in Tokens, Surplus(t) >= 0
    PROVE  Surplus(t)' >= 0
<1>1. r[1] \in Merchants /\ IsFiniteSet(Merchants) /\ r[2] = r[1]
  BY SettlementAssumption
<1>2. PICK old \in Merchants : old = r[1]
  BY <1>1
<1>3. bal \in [Accounts -> Int] /\ \A m \in Merchants : <<m, t>> \in Accounts
  BY DEF TypeInv, MoneyTypes, Accounts
<1>4. bal' = [x \in Accounts |->
                IF ~(x[2] \in tokensOf[old]) \/ x[1] \notin {old, old} THEN bal[x]
                ELSE IF x[1] = old THEN 0 ELSE bal[x] + bal[<<old, x[2]>>]]
  BY <1>1, <1>2 DEF RotateMerchantAddress
<1>5. PICK f : f = [m \in Merchants |-> bal[<<m, t>>]]
  OBVIOUS
<1>6. PICK h : h = [m \in Merchants |-> bal'[<<m, t>>]]
  OBVIOUS
<1>7. /\ MerchantClaims(t) = SumFunctionOnSet(f, Merchants)
      /\ MerchantClaims(t)' = SumFunctionOnSet(h, Merchants)
  BY <1>5, <1>6 DEF MerchantClaims, SumFunction
<1>8. /\ \A m \in Merchants : f[m] \in Int /\ f[m] >= 0
      /\ \A m \in Merchants \ {old} : h[m] = f[m]
      /\ h[old] \in Int /\ h[old] <= f[old]
  BY <1>3, <1>4, <1>5, <1>6 DEF EarningsNonNegative
<1>9. /\ SumFunctionOnSet(h, Merchants) = SumFunctionOnSet(f, Merchants) + h[old] - f[old]
      /\ SumFunctionOnSet(f, Merchants) \in Int
  BY <1>1, <1>8, SumChange
<1>10. PICK d \in Int, v \in Int, p \in Int :
          d = DisputeClaims(t) /\ v = vault[t] /\ p = prepaid[t]
  BY OwedTypes
<1>11. DisputeClaims(t)' = d /\ vault'[t] = v /\ prepaid'[t] = p
  <2>1. UNCHANGED <<vault, prepaid, dispute, escrow>>
    BY DEF RotateMerchantAddress, money, disputes
  <2> QED
    BY <1>10, <2>1, DisputeClaimsSame
<1>12. PICK i \in Int, j \in Int, k \in Int :
          i = SumFunctionOnSet(f, Merchants) /\ j = h[old] /\ k = f[old]
  BY <1>8, <1>9
<1>13. v - (p + i + d) >= 0 /\ j <= k
  BY <1>7, <1>8, <1>10, <1>12 DEF Surplus, Owed
<1>14. Surplus(t)' = v - (p + (i + j - k) + d)
  BY <1>7, <1>9, <1>11, <1>12 DEF Surplus, Owed
<1> QED
  BY <1>13, <1>14

\* Without labels and sub-account money there is enough of every token.
IsolationInv ==
    /\ TypeInv /\ EarningsNonNegative
    /\ \A t \in Tokens : Surplus(t) >= 0
    /\ \A x \in Merchants \X Labels : Held(x) = 0

\* The vault starts with the subscribers' money and nothing else.
LEMMA SurplusInit ==
    Init => /\ \A t \in Tokens : Surplus(t) = 0
            /\ \A x \in Merchants \X Labels : Held(x) = 0
<1> SUFFICES ASSUME Init
             PROVE  /\ \A t \in Tokens : Surplus(t) = 0
                    /\ \A x \in Merchants \X Labels : Held(x) = 0
  OBVIOUS
<1>1. TypeInv /\ IsFiniteSet(Merchants)
  BY TypeInit, SettlementAssumption
<1>2. ASSUME NEW t \in Tokens PROVE Surplus(t) = 0
  <2>1. MerchantClaims(t) = 0
    <3> DEFINE f == [m \in Merchants |-> bal[<<m, t>>]]
    <3>1. \A m \in Merchants : f[m] = 0
      BY DEF Init, Accounts
    <3>2. MerchantClaims(t) = SumFunctionOnSet(f, Merchants)
      BY ClaimsSum
    <3> HIDE DEF f
    <3> QED
      BY <1>1, <3>1, <3>2, SumZero
  <2>2. DisputeClaims(t) = 0
    <3> DEFINE g == [d \in Disputed(t) |-> escrow[d]]
    <3>1. DisputeClaims(t) = SumFunctionOnSet(g, Disputed(t)) /\ IsFiniteSet(Disputed(t))
      BY <1>1, DisputedFacts
    <3>2. Disputed(t) = {}
      BY DEF Init, Disputed
    <3> HIDE DEF g
    <3> QED
      BY <3>1, <3>2, SumRec
  <2>3. vault[t] = prepaid[t] /\ vault[t] \in Int
    BY <1>1, OwedTypes DEF Init
  <2> QED
    BY <2>1, <2>2, <2>3 DEF Surplus, Owed
<1>3. \A x \in Merchants \X Labels : Held(x) = 0
  BY DEF Init, Held, None
<1> QED
  BY <1>2, <1>3

\* So there is enough of every token at first.
LEMMA IsolationInit == Init => IsolationInv
<1> SUFFICES ASSUME Init PROVE IsolationInv
  OBVIOUS
<1>1. EarningsNonNegative
  BY DEF EarningsNonNegative, Init
<1>2. \A t \in Tokens : Surplus(t) >= 0
  BY SurplusInit
<1> QED
  BY <1>1, <1>2, SurplusInit, TypeInit DEF IsolationInv

\* Without labelled subscriptions nothing is ever routed.
LEMMA IsolationStep ==
    ASSUME \A s \in Subs : LabelOf[s] = NoLabel
    PROVE  IsolationInv /\ [Next]_vars => IsolationInv'
<1> SUFFICES ASSUME IsolationInv, [Next]_vars PROVE IsolationInv'
  OBVIOUS
<1>1. TypeInv /\ TypeInv' /\ EarningsNonNegative'
  BY TypeStep, DebtStep DEF IsolationInv, DebtInv
<1>2. ~Routing /\ ~Unrouted
  BY DEF Routing, Unrouted, Labelled, IsolationInv
<1>3. Still \/ Vacated
  BY <1>1, <1>2, FlowStep
<1>4. CASE Still
  <2>1. (\A t \in Tokens : Surplus(t)' >= 0) /\ \A x \in Merchants \X Labels : Held(x)' = 0
    BY <1>4 DEF Still, IsolationInv
  <2> QED
    BY <1>1, <2>1 DEF IsolationInv
<1>5. CASE Vacated
  <2>1. \A t \in Tokens : Surplus(t)' >= 0
    BY <1>5, VacatedSurplus DEF Vacated, IsolationInv
  <2>2. UNCHANGED subAccount
    BY <1>5 DEF Vacated, RotateMerchantAddress
  <2>3. \A x \in Merchants \X Labels : Held(x)' = 0
    BY <2>2 DEF Held, IsolationInv
  <2> QED
    BY <1>1, <2>1, <2>3 DEF IsolationInv
<1> QED
  BY <1>3, <1>4, <1>5

\* docs/multi_token.md: without labelled subscriptions, whose sub-accounts do
\* not know their token, the vault holds of each token what is owed in that
\* token to subscribers, merchants and open disputes, through charges, splits,
\* payouts, disputes and rotations, even of a merchant to its own address.
THEOREM TokensCorrect ==
    ASSUME \A s \in Subs : LabelOf[s] = NoLabel
    PROVE  Spec => []TokensIsolated
<1>1. IsolationInv => TokensIsolated
  <2> SUFFICES ASSUME IsolationInv, NEW t \in Tokens PROVE vault[t] >= Owed(t)
    BY DEF TokensIsolated
  <2>1. Surplus(t) >= 0 /\ TypeInv
    BY DEF IsolationInv
  <2>2. vault[t] \in Int /\ Owed(t) \in Int
    BY <2>1, OwedTypes DEF Owed
  <2> QED
    BY <2>1, <2>2 DEF Surplus
<1> QED
  BY IsolationInit, IsolationStep, <1>1, PTL DEF Spec

-----------------------------------------------------------------------------
\* The surpluses of all tokens together, and what was credited without a debit,
\* are what sub-accounts hold.
SubAccounts == Merchants \X Labels
Backed(t) == Surplus(t) + unbacked[t]
Balanced == SumFunctionOnSet([t \in Tokens |-> Backed(t)], Tokens)
              = SumFunctionOnSet([x \in SubAccounts |-> Held(x)], SubAccounts)
BalanceInv == TypeInv /\ Balanced

\* The sets that are added over are finite, and the terms are integers.
LEMMA BalanceTypes ==
    ASSUME TypeInv
    PROVE  /\ IsFiniteSet(Tokens) /\ IsFiniteSet(SubAccounts)
           /\ unbacked \in [Tokens -> Int]
           /\ \A t \in Tokens : Surplus(t) \in Int /\ Owed(t) \in Int /\ vault[t] \in Int
                                /\ Backed(t) \in Int
                                /\ vault[t] + unbacked[t] = Backed(t) + Owed(t)
           /\ \A x \in SubAccounts : Held(x) \in Nat
<1>1. IsFiniteSet(Tokens) /\ IsFiniteSet(SubAccounts)
  BY SettlementAssumption, FS_Product DEF SubAccounts
<1>2. unbacked \in [Tokens -> Int]
  BY SettlementAssumption DEF TypeInv, MoneyTypes
<1>3. ASSUME NEW t \in Tokens
      PROVE  /\ Surplus(t) \in Int /\ Owed(t) \in Int /\ vault[t] \in Int
             /\ Backed(t) \in Int
             /\ vault[t] + unbacked[t] = Backed(t) + Owed(t)
  <2>1. vault[t] \in Int /\ Owed(t) \in Int /\ unbacked[t] \in Int
    BY <1>2, OwedTypes DEF Owed
  <2> QED
    BY <2>1 DEF Surplus, Backed
<1>4. \A x \in SubAccounts : Held(x) \in Nat
  BY HeldTypes DEF SubAccounts
<1> QED
  BY <1>1, <1>2, <1>3, <1>4

\* A balanced vault is covered.
LEMMA BalancedCovers == BalanceInv => Covered
<1> SUFFICES ASSUME BalanceInv PROVE Covered
  OBVIOUS
<1> DEFINE f == [t \in Tokens |-> Backed(t)]
           g == [t \in Tokens |-> Owed(t)]
           h == [t \in Tokens |-> vault[t]]
           s == [t \in Tokens |-> vault[t] + unbacked[t]]
           k == [x \in SubAccounts |-> Held(x)]
<1>1. TypeInv /\ SumFunctionOnSet(f, Tokens) = SumFunctionOnSet(k, SubAccounts)
  BY DEF BalanceInv, Balanced
<1>2. /\ IsFiniteSet(Tokens) /\ unbacked \in [Tokens -> Int]
      /\ \A t \in Tokens : /\ f[t] \in Int /\ g[t] \in Int /\ h[t] \in Int
                           /\ s[t] = f[t] + g[t] /\ s[t] = h[t] + unbacked[t]
  BY <1>1, BalanceTypes
<1>3. Covered <=> SumFunctionOnSet(h, Tokens) + SumFunctionOnSet(unbacked, Tokens)
                    = SumFunctionOnSet(k, SubAccounts) + SumFunctionOnSet(g, Tokens)
  BY <1>2 DEF Covered, SubAccountClaims, SubAccounts, SumFunction
<1> HIDE DEF f, g, h, k, s
<1>4. SumFunctionOnSet(s, Tokens) = SumFunctionOnSet(f, Tokens) + SumFunctionOnSet(g, Tokens)
  BY <1>2, SumAdd
<1>5. SumFunctionOnSet(s, Tokens) = SumFunctionOnSet(h, Tokens) + SumFunctionOnSet(unbacked, Tokens)
  BY <1>2, SumAdd
<1> QED
  BY <1>1, <1>3, <1>4, <1>5

\* Without surplus, sub-account money and failed items the vault is balanced.
LEMMA BalanceInit == Init => BalanceInv
<1> SUFFICES ASSUME Init PROVE BalanceInv
  OBVIOUS
<1> DEFINE f == [t \in Tokens |-> Backed(t)]
           k == [x \in SubAccounts |-> Held(x)]
<1>1. TypeInv
  BY TypeInit
<1>2. (\A t \in Tokens : f[t] = 0) /\ \A x \in SubAccounts : k[x] = 0
  BY SurplusInit DEF SubAccounts, Backed, Init
<1>3. IsFiniteSet(Tokens) /\ IsFiniteSet(SubAccounts)
  BY <1>1, BalanceTypes
<1>4. Balanced <=> SumFunctionOnSet(f, Tokens) = SumFunctionOnSet(k, SubAccounts)
  BY DEF Balanced
<1> HIDE DEF f, k
<1>5. SumFunctionOnSet(f, Tokens) = 0 /\ SumFunctionOnSet(k, SubAccounts) = 0
  BY <1>2, <1>3, SumZero
<1> QED
  BY <1>1, <1>4, <1>5 DEF BalanceInv

\* What is backed stays but for what moves into a sub-account or out of it.
LEMMA BackedStep ==
    ASSUME TypeInv, NEW u \in Tokens
    PROVE  /\ Still => Backed(u)' = Backed(u)
           /\ Unrouted => Backed(u)' = Backed(u)
           /\ \A t \in Tokens, y \in SubAccounts, v \in Int :
                 Moved(t, y, v) => Backed(u)' = Backed(u) + (IF u = t THEN v ELSE 0)
<1>1. PICK p \in Int, q \in Int : p = Surplus(u) /\ q = unbacked[u]
  BY BalanceTypes
<1>2. unbacked \in [Tokens -> Int]
  BY BalanceTypes
<1>3. ASSUME Still PROVE Backed(u)' = Backed(u)
  BY <1>3 DEF Still, Backed
<1>4. ASSUME NEW t \in Tokens, NEW v \in Int, Missed(t, v) PROVE Backed(u)' = Backed(u)
  <2>1. Surplus(u)' = p + (IF u = t THEN 0 - v ELSE 0)
        /\ unbacked'[u] = q + (IF u = t THEN v ELSE 0)
    BY <1>1, <1>2, <1>4 DEF Missed
  <2> QED
    BY <1>1, <2>1 DEF Backed
<1>5. ASSUME NEW t \in Tokens, NEW y \in SubAccounts, NEW v \in Int, Moved(t, y, v)
      PROVE  Backed(u)' = Backed(u) + (IF u = t THEN v ELSE 0)
  <2>1. Surplus(u)' = p + (IF u = t THEN v ELSE 0) /\ unbacked'[u] = q
    BY <1>1, <1>5 DEF Moved
  <2> QED
    BY <1>1, <2>1 DEF Backed
<1> QED
  BY <1>3, <1>4, <1>5 DEF Unrouted

\* What moves between a surplus and a sub-account changes both sums alike.
LEMMA BalanceStep ==
    ASSUME \A r \in Rotations : r[1] # r[2]
    PROVE  BalanceInv /\ [Next]_vars => BalanceInv'
<1> SUFFICES ASSUME BalanceInv, [Next]_vars PROVE Balanced'
  BY TypeStep DEF BalanceInv
<1>1. TypeInv /\ TypeInv' /\ Balanced
  BY TypeStep DEF BalanceInv
<1>2. PICK f : f = [t \in Tokens |-> Backed(t)]
  OBVIOUS
<1>3. PICK k : k = [x \in SubAccounts |-> Held(x)]
  OBVIOUS
<1>4. PICK g : g = [t \in Tokens |-> Backed(t)']
  OBVIOUS
<1>5. PICK l : l = [x \in SubAccounts |-> Held(x)']
  OBVIOUS
<1>6. SumFunctionOnSet(f, Tokens) = SumFunctionOnSet(k, SubAccounts)
  BY <1>1, <1>2, <1>3 DEF Balanced
<1>7. Balanced' <=> SumFunctionOnSet(g, Tokens) = SumFunctionOnSet(l, SubAccounts)
  BY <1>4, <1>5 DEF Balanced
<1>8. /\ IsFiniteSet(Tokens) /\ IsFiniteSet(SubAccounts)
      /\ (\A t \in Tokens : f[t] \in Int) /\ \A x \in SubAccounts : k[x] \in Int
  BY <1>1, <1>2, <1>3, BalanceTypes
<1>9. CASE Still \/ Unrouted
  <2>1. (\A t \in Tokens : g[t] = f[t]) /\ \A x \in SubAccounts : l[x] = k[x]
    <3>1. \A t \in Tokens : Backed(t)' = Backed(t)
      BY <1>1, <1>9, BackedStep
    <3>2. \A x \in SubAccounts : Held(x)' = Held(x)
      BY <1>9 DEF Still, Unrouted, Missed, SubAccounts
    <3> QED
      BY <1>2, <1>3, <1>4, <1>5, <3>1, <3>2
  <2>2. SumFunctionOnSet(g, Tokens) = SumFunctionOnSet(f, Tokens)
    BY <1>8, <2>1, SumSame
  <2>3. SumFunctionOnSet(l, SubAccounts) = SumFunctionOnSet(k, SubAccounts)
    BY <1>8, <2>1, SumSame
  <2> QED
    BY <1>6, <1>7, <2>2, <2>3
<1>10. CASE Routing
  <2>1. PICK t \in Tokens, y \in SubAccounts, v \in Int : Moved(t, y, v)
    BY <1>10 DEF Routing, SubAccounts
  <2>2. \A u \in Tokens : g[u] = f[u] + (IF u = t THEN v ELSE 0)
    BY <1>1, <1>2, <1>4, <2>1, BackedStep
  <2>3. \A x \in SubAccounts : l[x] = k[x] + (IF x = y THEN v ELSE 0)
    BY <1>3, <1>5, <2>1 DEF Moved, SubAccounts
  <2>4. /\ f[t] \in Int /\ g[t] = f[t] + v /\ g[t] \in Int
        /\ \A u \in Tokens \ {t} : g[u] = f[u]
    BY <1>8, <2>2
  <2>5. /\ k[y] \in Int /\ l[y] = k[y] + v /\ l[y] \in Int
        /\ \A x \in SubAccounts \ {y} : l[x] = k[x]
    BY <1>8, <2>3
  <2>6. /\ SumFunctionOnSet(g, Tokens) = SumFunctionOnSet(f, Tokens) + g[t] - f[t]
        /\ SumFunctionOnSet(f, Tokens) \in Int
    BY <1>8, <2>4, SumChange
  <2>7. /\ SumFunctionOnSet(l, SubAccounts) = SumFunctionOnSet(k, SubAccounts) + l[y] - k[y]
        /\ SumFunctionOnSet(k, SubAccounts) \in Int
    BY <1>8, <2>5, SumChange
  <2>8. SumFunctionOnSet(g, Tokens) = SumFunctionOnSet(f, Tokens) + v
    BY <2>4, <2>6
  <2>9. SumFunctionOnSet(l, SubAccounts) = SumFunctionOnSet(k, SubAccounts) + v
    BY <2>5, <2>7
  <2> QED
    BY <1>6, <1>7, <2>8, <2>9
<1>11. ~Vacated
  BY DEF Vacated
<1> QED
  BY <1>1, <1>9, <1>10, <1>11, FlowStep

\* Tokens held, and the credits of batch items on an unregistered label, equal
\* what is owed to subscribers, merchants, sub-accounts and open disputes
\* together: charges with their truncated split shares and their routing to
\* sub-accounts, withdrawals, payouts, refunds, disputes and rotations between
\* different addresses neither create nor lose a unit, so what such items
\* credited is exactly what the vault is short of.
THEOREM CoverCorrect ==
    ASSUME \A r \in Rotations : r[1] # r[2]
    PROVE  Spec => []Covered
<1> QED
  BY BalanceInit, BalanceStep, BalancedCovers, PTL DEF Spec

\* What earnings record of an account beyond its balance: what was routed on
\* to sub-accounts.
Net(x) == earn[x].accrued - earn[x].withdrawn - earn[x].refunded
Onward(x) == Net(x) - bal[x]
RolledUp(m) == SumFunctionOnSet([t \in Tokens |-> Onward(<<m, t>>)], Tokens)
                 = SumFunctionOnSet([l \in Labels |-> Held(<<m, l>>)], Labels)
RollUpInv == /\ TypeInv /\ nextDispute = 0
             /\ \A m \in Merchants : RolledUp(m)

\* Earnings, balances and what lies between them are integers.
LEMMA OnwardTypes ==
    ASSUME TypeInv, NEW x \in Accounts
    PROVE  /\ earn[x].accrued \in Nat /\ earn[x].withdrawn \in Nat /\ earn[x].refunded \in Nat
           /\ bal[x] \in Int /\ Net(x) \in Int /\ Onward(x) \in Int
           /\ earn[x] \in Earnings
<1>1. earn[x] \in Earnings /\ bal[x] \in Int
  BY DEF TypeInv, MoneyTypes
<1>2. earn[x].accrued \in Nat /\ earn[x].withdrawn \in Nat /\ earn[x].refunded \in Nat
  BY <1>1 DEF Earnings
<1> QED
  BY <1>1, <1>2 DEF Net, Onward

\* The counters and the balance of an account change by known amounts.
LEMMA OnwardFrom ==
    ASSUME TypeInv, NEW x \in Accounts, NEW c \in Int, NEW w \in Int, NEW r \in Int, NEW b \in Int,
           earn'[x].accrued = earn[x].accrued + c, earn'[x].withdrawn = earn[x].withdrawn + w,
           earn'[x].refunded = earn[x].refunded + r, bal'[x] = bal[x] + b
    PROVE  Onward(x)' = Onward(x) + (c - w - r - b)
<1>1. PICK c0 \in Int, w0 \in Int, r0 \in Int, b0 \in Int :
        /\ c0 = earn[x].accrued /\ w0 = earn[x].withdrawn /\ r0 = earn[x].refunded /\ b0 = bal[x]
  BY OnwardTypes
<1>2. Onward(x) = c0 - w0 - r0 - b0
  BY <1>1 DEF Onward, Net
<1>3. Onward(x)' = (c0 + c) - (w0 + w) - (r0 + r) - (b0 + b)
  BY <1>1 DEF Onward, Net
<1> QED
  BY <1>2, <1>3

\* Adding to the counters of an earnings record.
LEMMA CountersAfter ==
    ASSUME NEW r \in Earnings, NEW a \in Nat
    PROVE  /\ [r EXCEPT !.accrued = @ + a].accrued = r.accrued + a
           /\ [r EXCEPT !.accrued = @ + a].withdrawn = r.withdrawn
           /\ [r EXCEPT !.accrued = @ + a].refunded = r.refunded
           /\ [r EXCEPT !.withdrawn = @ + a].accrued = r.accrued
           /\ [r EXCEPT !.withdrawn = @ + a].withdrawn = r.withdrawn + a
           /\ [r EXCEPT !.withdrawn = @ + a].refunded = r.refunded
           /\ [r EXCEPT !.refunded = @ + a].accrued = r.accrued
           /\ [r EXCEPT !.refunded = @ + a].withdrawn = r.withdrawn
           /\ [r EXCEPT !.refunded = @ + a].refunded = r.refunded + a
BY DEF Earnings

\* A charge credits what it accrues, less what it routes on.
LEMMA ChargeOnward ==
    ASSUME TypeInv, NEW s \in Subs, NEW a \in ChargeAmounts, CreditCharge(s, a), NEW x \in Accounts
    PROVE  Onward(x)' = Onward(x)
             + (IF LabelOf[s] # NoLabel /\ x = <<merchantOf[s], TokenOf[s]>> THEN a ELSE 0)
<1> DEFINE routed(y) == IF LabelOf[s] # NoLabel /\ y = <<merchantOf[s], TokenOf[s]>> THEN a ELSE 0
           due(y) == Due(s, a, y)
<1>1. /\ bal' = [y \in Accounts |-> bal[y] + due(y) - routed(y)]
      /\ earn' = [y \in Accounts |-> [earn[y] EXCEPT !.accrued = @ + due(y)]]
  BY DEF CreditCharge, Distribute, CreditPayees
<1>2. a \in Nat /\ merchantOf[s] \in Merchants /\ split[s] \in Splits /\ x[1] \in Merchants
  BY SettlementAssumption DEF TypeInv, SetupTypes, DisputeInv, DisputeTypes, Accounts
<1>3. Due(s, a, x) \in Nat
  BY PayeesTypes
<1>4. PICK d \in Nat : d = due(x)
  BY <1>3
<1>5. PICK r \in Nat : r = routed(x)
  BY <1>2
<1>6. bal'[x] = bal[x] + d - r /\ earn'[x] = [earn[x] EXCEPT !.accrued = @ + d]
  BY <1>1, <1>4, <1>5
<1> HIDE DEF due, routed
<1>7. earn'[x].accrued = earn[x].accrued + d /\ earn'[x].withdrawn = earn[x].withdrawn
      /\ earn'[x].refunded = earn[x].refunded
  BY <1>6, OnwardTypes, CountersAfter
<1>8. /\ d \in Int /\ 0 \in Int /\ d - r \in Int
      /\ earn'[x].accrued = earn[x].accrued + d /\ earn'[x].withdrawn = earn[x].withdrawn + 0
      /\ earn'[x].refunded = earn[x].refunded + 0 /\ bal'[x] = bal[x] + (d - r)
  BY <1>6, <1>7, OnwardTypes
<1>9. Onward(x)' = Onward(x) + (d - 0 - 0 - (d - r))
  BY <1>8, OnwardFrom, ZenonT(60)
<1>10. d - 0 - 0 - (d - r) = r
  OBVIOUS
<1>11. Onward(x)' = Onward(x) + r
  BY <1>9, <1>10
<1> QED
  BY <1>5, <1>11 DEF routed

\* So does a failed batch item, which routes nothing on.
LEMMA UnroutedOnward ==
    ASSUME TypeInv, NEW s \in Subs, NEW a \in ChargeAmounts, BatchChargeUnrouted(s, a),
           NEW x \in Accounts
    PROVE  Onward(x)' = Onward(x)
<1>1. PICK d \in Nat : d = Due(s, a, x)
  BY PayeesTypes
<1>2. bal'[x] = bal[x] + d /\ earn'[x] = [earn[x] EXCEPT !.accrued = @ + d]
  BY <1>1 DEF BatchChargeUnrouted, CreditPayees
<1>3. earn'[x].accrued = earn[x].accrued + d /\ earn'[x].withdrawn = earn[x].withdrawn
      /\ earn'[x].refunded = earn[x].refunded
  BY <1>2, OnwardTypes, CountersAfter
<1>4. PICK c0 \in Int, w0 \in Int, r0 \in Int, b0 \in Int :
        /\ c0 = earn[x].accrued /\ w0 = earn[x].withdrawn /\ r0 = earn[x].refunded
        /\ b0 = bal[x]
  BY OnwardTypes
<1>5. Onward(x) = c0 - w0 - r0 - b0
  BY <1>4 DEF Onward, Net
<1>6. Onward(x)' = (c0 + d) - w0 - r0 - (b0 + d)
  BY <1>2, <1>3, <1>4 DEF Onward, Net
<1> QED
  BY <1>5, <1>6

\* A refund is booked as such, a payout as withdrawn.
LEMMA PaidOnward ==
    ASSUME TypeInv, NEW m \in Merchants, NEW x \in Accounts,
           \/ \E t \in Tokens, a \in RefundAmounts : MerchantRefund(m, t, a)
           \/ FlushPayouts(m)
    PROVE  Onward(x)' = Onward(x)
<1>1. /\ earn[x] \in Earnings /\ bal[x] \in Int /\ Onward(x) \in Int
      /\ earn[x].accrued \in Nat /\ earn[x].withdrawn \in Nat /\ earn[x].refunded \in Nat
      /\ bal \in [Accounts -> Int] /\ earn \in [Accounts -> Earnings]
  BY OnwardTypes DEF TypeInv, MoneyTypes
<1>2. ASSUME NEW t \in Tokens, NEW a \in RefundAmounts, MerchantRefund(m, t, a)
      PROVE  Onward(x)' = Onward(x)
  <2>1. PICK y : y = <<m, t>>
    OBVIOUS
  <2>2. y \in Accounts /\ a \in Nat
    BY <2>1, SettlementAssumption DEF Accounts
  <2>3. /\ bal' = [bal EXCEPT ![y] = @ - a]
        /\ earn' = [earn EXCEPT ![y] = [earn[y] EXCEPT !.refunded = @ + a]]
    BY <1>2, <1>1, <2>1, <2>2 DEF MerchantRefund
  <2>4. CASE x = y
    <3>1. bal'[x] = bal[x] - a /\ earn'[x] = [earn[x] EXCEPT !.refunded = @ + a]
      BY <1>1, <2>2, <2>3, <2>4
    <3>2. earn'[x].accrued = earn[x].accrued /\ earn'[x].withdrawn = earn[x].withdrawn
          /\ earn'[x].refunded = earn[x].refunded + a
      BY <1>1, <2>2, <3>1, CountersAfter
    <3>3. /\ 0 \in Int /\ a \in Int /\ 0 - a \in Int
          /\ earn'[x].accrued = earn[x].accrued + 0 /\ earn'[x].withdrawn = earn[x].withdrawn + 0
          /\ earn'[x].refunded = earn[x].refunded + a /\ bal'[x] = bal[x] + (0 - a)
      BY <1>1, <2>2, <3>1, <3>2
    <3>4. Onward(x)' = Onward(x) + (0 - 0 - a - (0 - a))
      BY <3>3, OnwardFrom, ZenonT(60)
    <3> QED
      BY <1>1, <2>2, <3>4
  <2>5. CASE x # y
    <3>1. bal'[x] = bal[x] /\ earn'[x] = earn[x]
      BY <1>1, <2>3, <2>5
    <3> QED
      BY <3>1 DEF Onward, Net
  <2> QED
    BY <2>4, <2>5
<1>3. CASE FlushPayouts(m)
  <2> DEFINE paid(t) == IF Flushed(m, t) THEN bal[<<m, t>>] ELSE 0
             due(y) == IF y[1] = m THEN paid(y[2]) ELSE 0
  <2>1. /\ bal' = [y \in Accounts |-> bal[y] - due(y)]
        /\ earn' = [y \in Accounts |-> [earn[y] EXCEPT !.withdrawn = @ + due(y)]]
    BY <1>3 DEF FlushPayouts
  <2>2. \A t \in Tokens : paid(t) \in Nat
    BY <1>1 DEF Flushed, Accounts
  <2>3. PICK d \in Nat : d = due(x)
    BY <2>2 DEF Accounts
  <2>4. bal'[x] = bal[x] - d /\ earn'[x] = [earn[x] EXCEPT !.withdrawn = @ + d]
    BY <2>1, <2>3
  <2> HIDE DEF due
  <2>5. earn'[x].accrued = earn[x].accrued /\ earn'[x].withdrawn = earn[x].withdrawn + d
        /\ earn'[x].refunded = earn[x].refunded
    BY <1>1, <2>4, CountersAfter
  <2>6. /\ 0 \in Int /\ d \in Int /\ 0 - d \in Int
        /\ earn'[x].accrued = earn[x].accrued + 0 /\ earn'[x].withdrawn = earn[x].withdrawn + d
        /\ earn'[x].refunded = earn[x].refunded + 0 /\ bal'[x] = bal[x] + (0 - d)
    BY <1>1, <2>4, <2>5
  <2>7. Onward(x)' = Onward(x) + (0 - d - 0 - (0 - d))
    BY <2>6, OnwardFrom, ZenonT(60)
  <2> QED
    BY <1>1, <2>7
<1> QED
  BY <1>2, <1>3

\* A withdrawal from a sub-account is booked for the token it is paid in.
LEMMA SubAccountOnward ==
    ASSUME TypeInv, NEW m \in Merchants, NEW l \in Labels, NEW t \in Tokens, NEW a \in Nat,
           WithdrawSubAccountFunds(m, l, t, a), NEW x \in Accounts
    PROVE  Onward(x)' = Onward(x) + (IF x = <<m, t>> THEN 0 - a ELSE 0)
<1>1. /\ earn[x] \in Earnings /\ bal[x] \in Int /\ Onward(x) \in Int
      /\ earn[x].accrued \in Nat /\ earn[x].withdrawn \in Nat /\ earn[x].refunded \in Nat
      /\ earn \in [Accounts -> Earnings]
  BY OnwardTypes DEF TypeInv, MoneyTypes
<1>2. PICK y : y = <<m, t>>
  OBVIOUS
<1>3. y \in Accounts
  BY <1>2 DEF Accounts
<1>4. /\ UNCHANGED bal
      /\ earn' = [earn EXCEPT ![y] = [earn[y] EXCEPT !.withdrawn = @ + a]]
  BY <1>1, <1>2, <1>3 DEF WithdrawSubAccountFunds
<1>5. CASE x = y
  <2>1. earn'[x] = [earn[x] EXCEPT !.withdrawn = @ + a]
    BY <1>1, <1>4, <1>5
  <2>2. earn'[x].accrued = earn[x].accrued /\ earn'[x].withdrawn = earn[x].withdrawn + a
        /\ earn'[x].refunded = earn[x].refunded
    BY <1>1, <2>1, CountersAfter
  <2>3. /\ 0 \in Int /\ a \in Int
        /\ earn'[x].accrued = earn[x].accrued + 0 /\ earn'[x].withdrawn = earn[x].withdrawn + a
        /\ earn'[x].refunded = earn[x].refunded + 0 /\ bal'[x] = bal[x] + 0
    BY <1>1, <1>4, <2>2
  <2>4. Onward(x)' = Onward(x) + (0 - a - 0 - 0)
    BY <2>3, OnwardFrom, ZenonT(60)
  <2>5. 0 - a - 0 - 0 = 0 - a
    OBVIOUS
  <2> QED
    BY <1>2, <1>5, <2>4, <2>5
<1>6. CASE x # y
  <2>1. bal'[x] = bal[x] /\ earn'[x] = earn[x]
    BY <1>1, <1>4, <1>6
  <2>2. Onward(x)' = Onward(x)
    BY <2>1 DEF Onward, Net
  <2> QED
    BY <1>1, <1>2, <1>6, <2>2
<1> QED
  BY <1>5, <1>6

\* What rolls up earlier still does when nothing moves, or when money of one
\* account moves on to a sub-account of the same merchant or back.
LEMMA RolledStill ==
    ASSUME RollUpInv, \A x \in Accounts : Onward(x)' = Onward(x),
           \A x \in Merchants \X Labels : Held(x)' = Held(x)
    PROVE  \A m \in Merchants : RolledUp(m)'
<1> SUFFICES ASSUME NEW m \in Merchants PROVE RolledUp(m)'
  OBVIOUS
<1>1. [t \in Tokens |-> Onward(<<m, t>>)'] = [t \in Tokens |-> Onward(<<m, t>>)]
  BY DEF Accounts
<1>2. [l \in Labels |-> Held(<<m, l>>)'] = [l \in Labels |-> Held(<<m, l>>)]
  OBVIOUS
<1> QED
  BY <1>1, <1>2 DEF RollUpInv, RolledUp

\* So does a step that moves v both on from an account and into a label.
LEMMA RolledMoved ==
    ASSUME RollUpInv, NEW n \in Merchants, NEW t \in Tokens, NEW k \in Labels, NEW v \in Int,
           \A x \in Accounts : Onward(x)' = Onward(x) + (IF x = <<n, t>> THEN v ELSE 0),
           \A x \in Merchants \X Labels : Held(x)' = Held(x) + (IF x = <<n, k>> THEN v ELSE 0)
    PROVE  \A m \in Merchants : RolledUp(m)'
<1> SUFFICES ASSUME NEW m \in Merchants PROVE RolledUp(m)'
  OBVIOUS
<1>1. TypeInv /\ RolledUp(m) /\ IsFiniteSet(Tokens) /\ IsFiniteSet(Labels)
  BY SettlementAssumption DEF RollUpInv
<1>2. PICK f : f = [u \in Tokens |-> Onward(<<m, u>>)]
  OBVIOUS
<1>3. PICK h : h = [l \in Labels |-> Held(<<m, l>>)]
  OBVIOUS
<1>4. PICK f2 : f2 = [u \in Tokens |-> Onward(<<m, u>>)']
  OBVIOUS
<1>5. PICK h2 : h2 = [l \in Labels |-> Held(<<m, l>>)']
  OBVIOUS
<1>6. SumFunctionOnSet(f, Tokens) = SumFunctionOnSet(h, Labels)
  BY <1>1, <1>2, <1>3 DEF RolledUp
<1>7. RolledUp(m)' <=> SumFunctionOnSet(f2, Tokens) = SumFunctionOnSet(h2, Labels)
  BY <1>4, <1>5 DEF RolledUp
<1>8. (\A u \in Tokens : f[u] \in Int) /\ \A l \in Labels : h[l] \in Int
  <2>1. \A u \in Tokens : Onward(<<m, u>>) \in Int
    BY <1>1, OnwardTypes DEF Accounts
  <2>2. \A l \in Labels : Held(<<m, l>>) \in Nat
    BY <1>1, HeldTypes
  <2> QED
    BY <1>2, <1>3, <2>1, <2>2
<1>9. \A u \in Tokens : f2[u] = f[u] + (IF m = n /\ u = t THEN v ELSE 0)
  BY <1>2, <1>4 DEF Accounts
<1>10. \A l \in Labels : h2[l] = h[l] + (IF m = n /\ l = k THEN v ELSE 0)
  BY <1>3, <1>5
<1>11. CASE m # n
  <2>1. (\A u \in Tokens : f2[u] = f[u]) /\ \A l \in Labels : h2[l] = h[l]
    BY <1>8, <1>9, <1>10, <1>11
  <2>2. SumFunctionOnSet(f2, Tokens) = SumFunctionOnSet(f, Tokens)
    BY <1>1, <2>1, SumSame
  <2>3. SumFunctionOnSet(h2, Labels) = SumFunctionOnSet(h, Labels)
    BY <1>1, <2>1, SumSame
  <2> QED
    BY <1>6, <1>7, <2>2, <2>3
<1>12. CASE m = n
  <2>1. /\ f[t] \in Int /\ f2[t] = f[t] + v /\ f2[t] \in Int
        /\ \A u \in Tokens \ {t} : f2[u] = f[u]
    BY <1>8, <1>9, <1>12
  <2>2. /\ h[k] \in Int /\ h2[k] = h[k] + v /\ h2[k] \in Int
        /\ \A l \in Labels \ {k} : h2[l] = h[l]
    BY <1>8, <1>10, <1>12
  <2>3. /\ SumFunctionOnSet(f2, Tokens) = SumFunctionOnSet(f, Tokens) + f2[t] - f[t]
        /\ SumFunctionOnSet(f, Tokens) \in Int
    BY <1>1, <1>8, <2>1, SumChange
  <2>4. /\ SumFunctionOnSet(h2, Labels) = SumFunctionOnSet(h, Labels) + h2[k] - h[k]
        /\ SumFunctionOnSet(h, Labels) \in Int
    BY <1>1, <1>8, <2>2, SumChange
  <2>5. SumFunctionOnSet(f2, Tokens) = SumFunctionOnSet(f, Tokens) + v
    BY <2>1, <2>3
  <2>6. SumFunctionOnSet(h2, Labels) = SumFunctionOnSet(h, Labels) + v
    BY <2>2, <2>4
  <2> QED
    BY <1>6, <1>7, <2>5, <2>6
<1> QED
  BY <1>11, <1>12

\* Nothing is recorded at the start.
LEMMA RollUpInit == Init => RollUpInv
<1> SUFFICES ASSUME Init, NEW m \in Merchants PROVE RolledUp(m)
  BY TypeInit DEF RollUpInv, Init
<1> DEFINE f == [t \in Tokens |-> Onward(<<m, t>>)]
           h == [l \in Labels |-> Held(<<m, l>>)]
<1>1. \A t \in Tokens : f[t] = 0
  <2> SUFFICES ASSUME NEW t \in Tokens PROVE Onward(<<m, t>>) = 0
    OBVIOUS
  <2>1. bal[<<m, t>>] = 0 /\ earn[<<m, t>>] = NoEarnings
    BY DEF Init, Accounts
  <2> QED
    BY <2>1 DEF Onward, Net, NoEarnings
<1>2. \A l \in Labels : h[l] = 0
  BY DEF Init, Held, None
<1>3. RolledUp(m) <=> SumFunctionOnSet(f, Tokens) = SumFunctionOnSet(h, Labels)
  BY DEF RolledUp
<1>4. IsFiniteSet(Tokens) /\ IsFiniteSet(Labels)
  BY SettlementAssumption
<1> HIDE DEF f, h
<1>5. SumFunctionOnSet(f, Tokens) = 0 /\ SumFunctionOnSet(h, Labels) = 0
  BY <1>1, <1>2, <1>4, SumZero
<1> QED
  BY <1>3, <1>5

\* Without withdrawals (booked twice), disputes (not booked) and rotations
\* (earnings overwritten), every step keeps the roll-up.
LEMMA RollUpStep ==
    ASSUME WithdrawAmounts = {}, DisputeAmounts = {}, Rotations = {}
    PROVE  RollUpInv /\ [Next]_vars => RollUpInv'
<1> SUFFICES ASSUME RollUpInv, [Next]_vars
             PROVE  nextDispute' = 0 /\ \A m \in Merchants : RolledUp(m)'
  BY TypeStep DEF RollUpInv
<1> USE DEF disputes, books, money
<1>1. TypeInv /\ nextDispute = 0
  BY DEF RollUpInv
<1>2. DOMAIN dispute = {}
  BY <1>1 DEF TypeInv, DisputeInv, DisputeTypes
<1>3. ASSUME UNCHANGED <<bal, earn, subAccount>> PROVE \A m \in Merchants : RolledUp(m)'
  <2>1. \A x \in Accounts : Onward(x)' = Onward(x)
    BY <1>3 DEF Onward, Net
  <2>2. \A x \in Merchants \X Labels : Held(x)' = Held(x)
    BY <1>3 DEF Held
  <2> QED
    BY <2>1, <2>2, RolledStill
<1>4. CASE UNCHANGED vars
  BY <1>1, <1>3, <1>4 DEF vars
<1>5. ASSUME NEW s \in Subs, SubscriptionStep(s)
      PROVE  nextDispute' = 0 /\ \A m \in Merchants : RolledUp(m)'
  <2>1. ASSUME NEW a \in ChargeAmounts, CreditCharge(s, a)
        PROVE  nextDispute' = 0 /\ \A m \in Merchants : RolledUp(m)'
    <3>1. nextDispute' = 0
      BY <1>1, <2>1 DEF CreditCharge, Distribute
    <3>2. merchantOf[s] \in Merchants /\ TokenOf[s] \in Tokens /\ a \in Int
      BY <1>1, SettlementAssumption DEF TypeInv, DisputeInv, DisputeTypes
    <3>3. CASE LabelOf[s] = NoLabel
      <4>1. \A x \in Merchants \X Labels : Held(x)' = Held(x)
        BY <2>1, <3>3 DEF CreditCharge, Distribute, Held
      <4>2. ASSUME NEW x \in Accounts PROVE Onward(x)' = Onward(x)
        <5>1. Onward(x)' = Onward(x) + 0
          BY <1>1, <2>1, <3>3, ChargeOnward
        <5>2. Onward(x) \in Int
          BY <1>1, OnwardTypes
        <5> QED
          BY <5>1, <5>2
      <4> QED
        BY <3>1, <4>1, <4>2, RolledStill
    <3>4. CASE LabelOf[s] # NoLabel
      <4>1. LabelOf[s] \in Labels
        BY <3>4, SettlementAssumption
      <4>2. \A x \in Merchants \X Labels :
              Held(x)' = Held(x) + (IF x = <<merchantOf[s], LabelOf[s]>> THEN a ELSE 0)
        BY <1>1, <2>1, <3>4, ChargeHeld
      <4>3. \A x \in Accounts :
              Onward(x)' = Onward(x) + (IF x = <<merchantOf[s], TokenOf[s]>> THEN a ELSE 0)
        BY <1>1, <2>1, <3>4, ChargeOnward
      <4> QED
        BY <3>1, <3>2, <4>1, <4>2, <4>3, RolledMoved
    <3> QED
      BY <3>3, <3>4
  <2>2. ASSUME NEW e \in Splits, UpdateSplitPayees(s, e)
        PROVE  nextDispute' = 0 /\ \A m \in Merchants : RolledUp(m)'
    BY <1>1, <1>3, <2>2 DEF UpdateSplitPayees
  <2>3. ASSUME NEW a \in ChargeAmounts, BatchChargeUnrouted(s, a)
        PROVE  nextDispute' = 0 /\ \A m \in Merchants : RolledUp(m)'
    <3>1. nextDispute' = 0 /\ \A x \in Merchants \X Labels : Held(x)' = Held(x)
      BY <1>1, <2>3 DEF BatchChargeUnrouted, Held
    <3>2. \A x \in Accounts : Onward(x)' = Onward(x)
      BY <1>1, <2>3, UnroutedOnward
    <3> QED
      BY <3>1, <3>2, RolledStill
  <2> QED
    BY <1>5, <2>1, <2>2, <2>3 DEF SubscriptionStep
<1>6. ASSUME NEW n \in Merchants, MerchantStep(n)
      PROVE  nextDispute' = 0 /\ \A m \in Merchants : RolledUp(m)'
  <2>1. nextDispute' = 0
    BY <1>1, <1>6 DEF MerchantStep, InitializeMerchantConfig, FlushPayouts, SetPayoutSchedule,
                WithdrawMerchantFunds, MerchantRefund, RegisterSubAccount,
                WithdrawSubAccountFunds
  <2>2. ASSUME \/ \E t \in Tokens, a \in RefundAmounts : MerchantRefund(n, t, a)
               \/ FlushPayouts(n)
        PROVE  \A m \in Merchants : RolledUp(m)'
    <3>1. \A x \in Accounts : Onward(x)' = Onward(x)
      BY <1>1, <2>2, PaidOnward
    <3>2. UNCHANGED subAccount
      BY <2>2 DEF MerchantRefund, FlushPayouts
    <3> QED
      BY <3>1, <3>2, RolledStill DEF Held
  <2>3. ASSUME NEW l \in Labels, RegisterSubAccount(n, l)
        PROVE  \A m \in Merchants : RolledUp(m)'
    <3>1. \A x \in Merchants \X Labels : Held(x)' = Held(x)
      <4>1. subAccount \in [Merchants \X Labels -> Nat \cup {None}]
        BY <1>1 DEF TypeInv, MoneyTypes
      <4> QED
        BY <2>3, <4>1 DEF RegisterSubAccount, Held, None
    <3>2. \A x \in Accounts : Onward(x)' = Onward(x)
      BY <2>3 DEF RegisterSubAccount, Onward, Net
    <3> QED
      BY <3>1, <3>2, RolledStill
  <2>4. ASSUME NEW l \in Labels, NEW t \in Tokens, NEW a \in SubAccountAmounts,
               WithdrawSubAccountFunds(n, l, t, a)
        PROVE  \A m \in Merchants : RolledUp(m)'
    <3>1. a \in Nat
      BY SettlementAssumption
    <3>2. PICK v \in Int : v = 0 - a
      BY <3>1
    <3>3. \A x \in Merchants \X Labels : Held(x)' = Held(x) + (IF x = <<n, l>> THEN v ELSE 0)
      BY <1>1, <2>4, <3>1, <3>2, SubAccountHeld
    <3>4. \A x \in Accounts : Onward(x)' = Onward(x) + (IF x = <<n, t>> THEN v ELSE 0)
      BY <1>1, <2>4, <3>1, <3>2, SubAccountOnward
    <3> QED
      BY <3>3, <3>4, RolledMoved
  <2>5. ASSUME InitializeMerchantConfig(n) \/ \E c \in ScheduleChoices : SetPayoutSchedule(n, c)
        PROVE  \A m \in Merchants : RolledUp(m)'
    BY <1>3, <2>5 DEF InitializeMerchantConfig, SetPayoutSchedule
  <2> QED
    BY <1>6, <2>1, <2>2, <2>3, <2>4, <2>5 DEF MerchantStep
<1>7. ASSUME AdminStep PROVE nextDispute' = 0 /\ \A m \in Merchants : RolledUp(m)'
  <2>1. (\E w \in Windows : SetDisputeWindowSecs(w)) \/ Tick
    BY <1>2, <1>7 DEF AdminStep
  <2> QED
    BY <1>1, <1>3, <2>1 DEF SetDisputeWindowSecs, Tick
<1> QED
  BY <1>4, <1>5, <1>6, <1>7 DEF Next

\* What rolls up account by account rolls up in total.
LEMMA RolledIs == RollUpInv => RollUp
<1> SUFFICES ASSUME RollUpInv, NEW m \in Merchants
             PROVE  SumFunction([t \in Tokens |-> earn[<<m, t>>].accrued - earn[<<m, t>>].withdrawn
                                                    - earn[<<m, t>>].refunded])
                      = SumFunction([t \in Tokens |-> bal[<<m, t>>]])
                      + SumFunction([l \in Labels |-> Held(<<m, l>>)])
  BY DEF RollUp
<1> DEFINE f == [t \in Tokens |-> Onward(<<m, t>>)]
           g == [t \in Tokens |-> bal[<<m, t>>]]
           k == [t \in Tokens |-> earn[<<m, t>>].accrued - earn[<<m, t>>].withdrawn
                                    - earn[<<m, t>>].refunded]
           h == [l \in Labels |-> Held(<<m, l>>)]
<1>1. SumFunctionOnSet(f, Tokens) = SumFunctionOnSet(h, Labels) /\ IsFiniteSet(Tokens) /\ TypeInv
  BY SettlementAssumption DEF RollUpInv, RolledUp
<1>2. \A t \in Tokens : f[t] \in Int /\ g[t] \in Int /\ k[t] = f[t] + g[t]
  <2> SUFFICES ASSUME NEW t \in Tokens
               PROVE  Onward(<<m, t>>) \in Int /\ bal[<<m, t>>] \in Int
                      /\ Net(<<m, t>>) = Onward(<<m, t>>) + bal[<<m, t>>]
    BY DEF Net
  <2>1. <<m, t>> \in Accounts
    BY DEF Accounts
  <2>2. Onward(<<m, t>>) \in Int /\ bal[<<m, t>>] \in Int /\ Net(<<m, t>>) \in Int
    BY <1>1, <2>1, OnwardTypes
  <2> QED
    BY <2>2 DEF Onward
<1>3. SumFunction(k) = SumFunctionOnSet(k, Tokens) /\ SumFunction(g) = SumFunctionOnSet(g, Tokens)
      /\ SumFunction(h) = SumFunctionOnSet(h, Labels)
  BY DEF SumFunction
<1>4. SumFunctionOnSet(g, Tokens) \in Int /\ SumFunctionOnSet(f, Tokens) \in Int
  <2> HIDE DEF f, g
  <2> QED
    BY <1>1, <1>2, SumType
<1>5. SumFunctionOnSet(k, Tokens) = SumFunctionOnSet(f, Tokens) + SumFunctionOnSet(g, Tokens)
  <2> HIDE DEF f, g, k
  <2> QED
    BY <1>1, <1>2, SumAdd
<1> HIDE DEF f, g, k, h
<1>6. SumFunction(k) = SumFunction(g) + SumFunction(h)
  BY <1>1, <1>3, <1>4, <1>5
<1> QED
  BY <1>6 DEF g, h, k

\* docs/merchant_earnings.md and docs/merchant_earnings_sub_accounts.md: as
\* long as merchants neither withdraw (booked under two counters) nor lose
\* disputes nor are rotated, accruals less withdrawals and refunds are what a
\* merchant's balances and sub-accounts hold.
THEOREM RollUpCorrect ==
    ASSUME WithdrawAmounts = {}, DisputeAmounts = {}, Rotations = {}
    PROVE  Spec => []RollUp
<1> QED
  BY RollUpInit, RollUpStep, RolledIs, PTL DEF Spec

-----------------------------------------------------------------------------
(* Settlement implements Arbitration.                                      *)

\* What both sides see does not depend on anything but the dispute keys.
LEMMA CourtSame ==
    ASSUME UNCHANGED <<dispute, escrow, disputeOf>>
    PROVE  UNCHANGED Court!vars
BY DEF Court!vars, Claims, Claim, Answered, Decided, Verdict, Winner

\* open_dispute puts a new claim on record and leaves the others as they are.
LEMMA OpenCourt ==
    ASSUME DisputeInv, NEW s \in Subs, NEW a \in DisputeAmounts, OpenDispute(s, a)
    PROVE  nextDispute \in DisputeIds /\ Court!Open(s, nextDispute)
<1> USE DEF DisputeInv, DisputeTypes
<1>0. PICK n : n = nextDispute
  OBVIOUS
<1> DEFINE new == [sub |-> s, merchant |-> merchantOf[s], amount |-> a, openedAt |-> now,
                   status |-> "Open"]
           claim == [sub |-> s, merchant |-> merchantOf[s], amount |-> a]
<1>1. n \in DisputeIds /\ n \in Nat /\ n < MaxDisputes
  BY <1>0, SettlementAssumption DEF OpenDispute, DisputeIds
<1>2. /\ disputeOf[s] = None /\ a \in DisputeAmounts \ {0} /\ merchantOf[s] \in Merchants
      /\ dispute' = [i \in 0..n |-> IF i = n THEN new ELSE dispute[i]]
      /\ escrow' = [escrow EXCEPT ![n] = a]
      /\ disputeOf' = [disputeOf EXCEPT ![s] = n]
  BY <1>0, SettlementAssumption DEF OpenDispute, RecordDispute
<1>3. new.status = "Open" /\ new.sub = s /\ new.merchant = merchantOf[s] /\ new.amount = a
  OBVIOUS
<1> HIDE DEF new
<1>4. DOMAIN dispute = 0..(n - 1) /\ DOMAIN dispute' = 0..n /\ n \notin DOMAIN dispute
  BY <1>0, <1>1, <1>2
<1>5. dispute'[n] = new /\ \A d \in DOMAIN dispute : dispute'[d] = dispute[d]
  BY <1>1, <1>2, <1>4
<1>6. DOMAIN dispute' = DOMAIN dispute \cup {n}
  BY <1>1, <1>4
<1>7. Answered' = Answered /\ Decided' = Decided
  BY <1>3, <1>4, <1>5, <1>6 DEF Answered, Decided, Unresolved
<1>8. Verdict' = Verdict
  <2>1. \A d \in Decided : Winner(d)' = Winner(d)
    BY <1>5 DEF Winner, Decided
  <2> QED
    BY <1>7, <2>1 DEF Verdict
<1>9. Claims' = Court!With(Claims, n, claim)
  <2>1. Claim(n)' = claim
    BY <1>3, <1>5 DEF Claim
  <2>2. \A d \in DOMAIN dispute : Claim(d)' = Claim(d)
    BY <1>5 DEF Claim
  <2>3. Claims' = [d \in DOMAIN dispute \cup {n} |-> Claim(d)']
    BY <1>6 DEF Claims
  <2>4. DOMAIN Claims = DOMAIN dispute /\ \A d \in DOMAIN dispute : Claims[d] = Claim(d)
    BY DEF Claims
  <2> HIDE DEF claim
  <2> QED
    BY <1>4, <2>1, <2>2, <2>3, <2>4 DEF Court!With
<1>10. n \notin DOMAIN Claims
  BY <1>4 DEF Claims
<1> QED
  BY <1>0, <1>1, <1>2, <1>7, <1>8, <1>9, <1>10 DEF Court!Open

\* An unresolved dispute is the current one of its subscription.
LEMMA UnresolvedCurrent ==
    ASSUME DisputeInv, NEW d \in DOMAIN dispute, dispute[d].status \in Unresolved
    PROVE  /\ dispute[d].sub \in Subs /\ disputeOf[dispute[d].sub] = d /\ d # None
           /\ d \in DisputeIds /\ escrow[d] = dispute[d].amount
           /\ d \notin DOMAIN Verdict
<1> USE DEF DisputeInv, DisputeTypes
<1>1. d \in DisputeIds /\ d \in Nat /\ dispute[d] \in Dispute
  BY SettlementAssumption DEF DisputeIds
<1>2. d \notin Decided /\ DOMAIN Verdict = Decided
  BY DEF Decided, Verdict
<1> QED
  BY <1>1, <1>2 DEF DisputesConsistent, EscrowedDispute, Dispute, None

\* respond_dispute answers an open dispute and changes nothing else of it.
LEMMA RespondCourt ==
    ASSUME DisputeInv, NEW d \in DOMAIN dispute, RespondDispute(d)
    PROVE  \E s \in Subs : Court!Answer(s)
<1> USE DEF DisputeInv, DisputeTypes
<1> DEFINE s == dispute[d].sub
<1>1. /\ dispute[d].status = "Open" /\ UNCHANGED <<escrow, disputeOf>>
      /\ dispute' = [dispute EXCEPT ![d].status = "Responded"]
  BY DEF RespondDispute
<1>2. s \in Subs /\ disputeOf[s] = d /\ d # None
  BY <1>1, UnresolvedCurrent DEF Unresolved
<1>3. /\ DOMAIN dispute' = DOMAIN dispute
      /\ \A i \in DOMAIN dispute : i # d => dispute'[i] = dispute[i]
      /\ dispute'[d].status = "Responded" /\ dispute'[d].sub = s
      /\ dispute'[d].merchant = dispute[d].merchant /\ dispute'[d].amount = dispute[d].amount
  BY <1>1 DEF Dispute
<1>4. Claims' = Claims
  <2>1. \A i \in DOMAIN dispute : Claim(i)' = Claim(i)
    BY <1>3 DEF Claim
  <2> QED
    BY <1>3, <2>1 DEF Claims
<1>5. Answered' = Answered \cup {d} /\ d \notin Answered
  BY <1>1, <1>3 DEF Answered
<1>6. Decided' = Decided /\ d \notin Decided
  BY <1>1, <1>3 DEF Decided, Unresolved
<1>7. Verdict' = Verdict
  <2>1. \A i \in Decided : Winner(i)' = Winner(i)
    BY <1>3, <1>6 DEF Winner, Decided
  <2> QED
    BY <1>6, <2>1 DEF Verdict
<1>8. Court!Answer(s)
  BY <1>1, <1>2, <1>4, <1>5, <1>7 DEF Court!Answer
<1> QED
  BY <1>2, <1>8

\* resolve_dispute decides for good: for the merchant only what was answered.
LEMMA ResolveCourt ==
    ASSUME DisputeInv, NEW d \in DOMAIN dispute, NEW b \in BOOLEAN, ResolveDispute(d, b)
    PROVE  \E s \in Subs, winner \in {"merchant", "subscriber"} : Court!Decide(s, winner)
<1> USE DEF DisputeInv, DisputeTypes
<1> DEFINE s == dispute[d].sub
           r == Resolution(d, b)
           w == IF r = "ResolvedToMerchant" THEN "merchant" ELSE "subscriber"
<1>1. /\ dispute[d].status \in Unresolved
      /\ escrow' = [escrow EXCEPT ![d] = 0]
      /\ dispute' = [dispute EXCEPT ![d].status = r]
      /\ disputeOf' = [disputeOf EXCEPT ![s] = None]
  BY DEF ResolveDispute, Resolvable, Disburse
<1>2. /\ s \in Subs /\ disputeOf[s] = d /\ d # None /\ d \notin DOMAIN Verdict
      /\ escrow[d] = dispute[d].amount
  BY <1>1, UnresolvedCurrent
<1>3. /\ r \in {"ResolvedToMerchant", "ResolvedToSubscriber"}
      /\ r = "ResolvedToMerchant" => dispute[d].status = "Responded"
  BY <1>1 DEF Resolution, Unresolved
<1> HIDE DEF r
<1>4. /\ DOMAIN dispute' = DOMAIN dispute
      /\ \A i \in DOMAIN dispute : i # d => dispute'[i] = dispute[i]
      /\ dispute'[d].status = r /\ dispute'[d].sub = s
      /\ dispute'[d].merchant = dispute[d].merchant /\ dispute'[d].amount = dispute[d].amount
  BY <1>1 DEF Dispute
<1>5. Claims' = Claims /\ Claims[d].amount = dispute[d].amount
  <2>1. \A i \in DOMAIN dispute : Claim(i)' = Claim(i)
    BY <1>4 DEF Claim
  <2>2. Claim(d).amount = dispute[d].amount
    BY DEF Claim
  <2> QED
    BY <1>4, <2>1, <2>2 DEF Claims
<1>6. Answered' = Answered \ {d} /\ (w = "merchant" => d \in Answered)
  BY <1>3, <1>4 DEF Answered
<1>7. Decided' = Decided \cup {d} /\ d \notin Decided
  BY <1>1, <1>3, <1>4 DEF Decided, Unresolved
<1>8. Verdict' = Court!With(Verdict, d, w)
  <2>1. \A i \in Decided : Winner(i)' = Winner(i)
    BY <1>4, <1>7 DEF Winner, Decided
  <2>2. Winner(d)' = w
    BY <1>4 DEF Winner
  <2>3. Verdict' = [i \in Decided \cup {d} |-> Winner(i)']
    BY <1>7 DEF Verdict
  <2>4. DOMAIN Verdict = Decided /\ \A i \in Decided : Verdict[i] = Winner(i)
    BY DEF Verdict
  <2> HIDE DEF w
  <2> QED
    BY <1>7, <2>1, <2>2, <2>3, <2>4 DEF Court!With
<1>9. w \in {"merchant", "subscriber"}
  OBVIOUS
<1> HIDE DEF w
<1>10. Court!Decide(s, w)
  BY <1>1, <1>2, <1>5, <1>6, <1>8 DEF Court!Decide
<1> QED
  BY <1>2, <1>9, <1>10

\* Every step of Settlement is one of Arbitration, or invisible to it.
LEMMA CourtStep == DisputeInv /\ [Next]_vars => [Court!Next]_(Court!vars)
<1> SUFFICES ASSUME DisputeInv, [Next]_vars PROVE Court!Next \/ UNCHANGED Court!vars
  OBVIOUS
<1>1. ASSUME UNCHANGED <<dispute, escrow, disputeOf>> PROVE UNCHANGED Court!vars
  BY <1>1, CourtSame
<1>2. ASSUME NEW s \in Subs, SubscriptionStep(s) PROVE Court!Next \/ UNCHANGED Court!vars
  <2>1. ASSUME NEW a \in DisputeAmounts, OpenDispute(s, a) PROVE Court!Next
    BY <2>1, OpenCourt DEF Court!Next
  <2>2. CASE UNCHANGED disputes
    BY <1>1, <2>2 DEF disputes
  <2> QED
    BY <1>2, <2>1, <2>2 DEF SubscriptionStep, CreditCharge, Distribute,
                              BatchChargeUnrouted, UpdateSplitPayees
<1>3. ASSUME NEW m \in Merchants, MerchantStep(m) PROVE UNCHANGED Court!vars
  <2>1. UNCHANGED disputes
    BY <1>3 DEF MerchantStep, InitializeMerchantConfig, FlushPayouts, SetPayoutSchedule,
                WithdrawMerchantFunds, MerchantRefund, RegisterSubAccount,
                WithdrawSubAccountFunds
  <2> QED
    BY <1>1, <2>1 DEF disputes
<1>4. CASE AdminStep
  <2>1. ASSUME NEW d \in DOMAIN dispute, RespondDispute(d) PROVE Court!Next
    BY <2>1, RespondCourt DEF Court!Next
  <2>2. ASSUME NEW d \in DOMAIN dispute, NEW b \in BOOLEAN, ResolveDispute(d, b)
        PROVE  Court!Next
    BY <2>2, ResolveCourt DEF Court!Next
  <2>3. CASE UNCHANGED <<dispute, escrow, disputeOf>>
    BY <1>1, <2>3
  <2> QED
    BY <1>4, <2>1, <2>2, <2>3
    DEF AdminStep, SetDisputeWindowSecs, RotateMerchantAddress, Tick, disputes
<1>5. CASE UNCHANGED vars
  BY <1>1, <1>5 DEF vars, disputes
<1> QED
  BY <1>2, <1>3, <1>4, <1>5 DEF Next

\* Settlement implements Arbitration: a dispute keeps its terms, holds its amount until
\* it is decided, and is decided once, for the merchant only after an answer.
THEOREM ArbitrationCorrect == Spec => DisputesArbitrated
<1>1. Init => Court!Init
  <2> SUFFICES ASSUME Init PROVE Court!Init
    OBVIOUS
  <2>1. DOMAIN dispute = {} /\ disputeOf = [s \in Subs |-> None] /\ escrow = [d \in DisputeIds |-> 0]
    BY DEF Init
  <2>2. Claims = Court!Nothing /\ Verdict = Court!Nothing /\ Answered = {}
    BY <2>1 DEF Claims, Verdict, Answered, Decided, Court!Nothing
  <2> QED
    BY <2>1, <2>2 DEF Court!Init
<1> QED
  BY <1>1, DisputeInit, DisputeStep, CourtStep, PTL DEF Spec, DisputesArbitrated, Court!Spec
=============================================================================
