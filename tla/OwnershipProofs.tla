--------------------------- MODULE OwnershipProofs ---------------------------
(***************************************************************************)
(* Proofs about Ownership: for every set of subscriptions, subscribers,    *)
(* payers and coupons, transfer intents are the owner's, the subscribers'  *)
(* lists and active counters follow the owner, payers stay within their    *)
(* grants, and redemptions are counted.                                    *)
(***************************************************************************)
EXTENDS Ownership, FiniteSetTheorems, TLAPS

\* The types the argument about owners needs.
OwnerTypes ==
    /\ sub \in [Subs -> Subscription]
    /\ index \in [Subscribers -> [Subs -> Nat]]
    /\ intent \in [Subs -> TransferIntent]
    /\ coupon \in [Codes -> Coupon]
    /\ bound \in [Subs -> Codes \cup {NoOne}]

\* Exactly the ids that have not been given out have no owner, and there is no
\* pending transfer of one.
Fresh(s) ==
    /\ sub[s].status = "Absent" <=> sub[s].owner = NoOne
    /\ sub[s].status = "Absent" => intent[s].to = NoOne

Ended == {"Cancelled", "Archived"}

\* The three parts of ListsFollowOwner, for one subscriber and one id.
Listed(u, s) ==
    /\ index[u][s] <= 1
    /\ index[u][s] = 1 => sub[s].owner = u
    /\ sub[s].owner = u /\ sub[s].status \notin Ended => index[u][s] = 1

Intended(s) == intent[s].to # NoOne =>
    intent[s].from = sub[s].owner /\ intent[s].to # sub[s].owner

\* The inductive invariant.
OwnerInv ==
    /\ OwnerTypes
    /\ \A s \in Subs : Fresh(s) /\ Intended(s)
    /\ \A u \in Subscribers, s \in Subs : Listed(u, s)

\* Nothing is owned, listed or pending at first.
LEMMA OwnerInit == Init => OwnerInv
<1> SUFFICES ASSUME Init PROVE OwnerInv
  OBVIOUS
<1>1. Absent \in Subscription /\ NoIntent \in TransferIntent /\ NoCoupon \in Coupon
  BY DEF Absent, Subscription, Status, NoIntent, TransferIntent, NoCoupon, Coupon
<1>2. OwnerTypes
  BY <1>1 DEF Init, OwnerTypes
<1>3. \A s \in Subs : Fresh(s) /\ Intended(s)
  BY DEF Init, Fresh, Intended, Absent, NoIntent
<1>4. \A u \in Subscribers, s \in Subs : Listed(u, s)
  BY NoOneAssumption DEF Init, Listed, Absent
<1> QED
  BY <1>2, <1>3, <1>4 DEF OwnerInv

\* A step that moves no ownership: owners, lists and intents stay, no id comes
\* into being, and an ended subscription stays ended.
LEMMA QuietStep ==
    ASSUME OwnerInv, UNCHANGED <<index, intent>>,
           sub' \in [Subs -> Subscription],
           coupon' \in [Codes -> Coupon], bound' \in [Subs -> Codes \cup {NoOne}],
           \A s \in Subs : /\ sub'[s].owner = sub[s].owner
                           /\ sub'[s].status = "Absent" <=> sub[s].status = "Absent"
                           /\ sub[s].status \in Ended => sub'[s].status \in Ended
    PROVE  OwnerInv'
<1>1. OwnerTypes'
  BY DEF OwnerInv, OwnerTypes
<1>2. ASSUME NEW s \in Subs PROVE Fresh(s)' /\ Intended(s)'
  BY <1>2 DEF OwnerInv, Fresh, Intended
<1>3. ASSUME NEW u \in Subscribers, NEW s \in Subs PROVE Listed(u, s)'
  BY <1>3 DEF OwnerInv, Listed
<1> QED
  BY <1>1, <1>2, <1>3 DEF OwnerInv

\* Pause, resume, archival, charges and deposits write the status and the
\* prepaid balance of one subscription.
LEMMA StatusStep ==
    ASSUME OwnerInv, UNCHANGED <<index, intent, coupon, bound>>,
           NEW s \in Subs, NEW st \in Status, NEW p \in Nat,
           sub' = [sub EXCEPT ![s] = [sub[s] EXCEPT !.status = st, !.prepaid = p]],
           sub[s].status # "Absent", sub[s].status \in Ended => st \in Ended
    PROVE  OwnerInv'
<1>1. sub[s] \in Subscription
  BY DEF OwnerInv, OwnerTypes
<1>2. [sub[s] EXCEPT !.status = st, !.prepaid = p] \in Subscription
  BY <1>1 DEF Subscription
<1>3. sub' \in [Subs -> Subscription]
  BY <1>2 DEF OwnerInv, OwnerTypes
<1>4. /\ sub'[s].owner = sub[s].owner /\ sub'[s].status = st
      /\ \A t \in Subs : t # s => sub'[t] = sub[t]
  BY <1>1 DEF OwnerInv, OwnerTypes, Subscription
<1>5. st # "Absent"
  BY DEF Status
<1> QED
  BY <1>3, <1>4, <1>5, QuietStep DEF OwnerInv, OwnerTypes

\* The numbers a coupon holds, and its revocation.
LEMMA CouponFields ==
    ASSUME NEW c \in Coupon
    PROVE  /\ c.percent \in Int /\ c.fixed \in Int
           /\ [c EXCEPT !.revoked = TRUE] \in Coupon
<1> DEFINE Percents == 0..10000
           Flags == BOOLEAN
           Yes == TRUE
<1>1. Yes \in Flags /\ Percents \subseteq Int /\ Nat \subseteq Int
  OBVIOUS
<1>2. Coupon = [percent : Percents, fixed : Nat, max : Nat, expiresAt : Nat, revoked : Flags]
  BY DEF Coupon
<1> HIDE DEF Percents, Flags, Yes
<1>3. c.percent \in Percents /\ c.fixed \in Nat
  BY <1>2, Zenon
<1>4. [c EXCEPT !.revoked = Yes] \in Coupon
  BY <1>1, <1>2, Zenon
<1> QED
  BY <1>1, <1>3, <1>4 DEF Yes

\* Payable amounts are integers.
LEMMA PayableInt ==
    ASSUME OwnerInv, NEW s \in Subs PROVE Payable(s) \in Int
<1>1. Amount \in Int
  BY OwnershipAssumption
<1>2. CASE bound[s] = NoOne \/ ~validate_coupon(bound[s])
  BY <1>1, <1>2 DEF Payable
<1>3. CASE bound[s] # NoOne /\ validate_coupon(bound[s])
  <2>1. bound[s] \in Codes /\ coupon[bound[s]] \in Coupon
    BY <1>3 DEF OwnerInv, OwnerTypes
  <2> DEFINE c == coupon[bound[s]]
             x == Amount * (10000 - c.percent)
  <2>2. c.percent \in Int /\ c.fixed \in Int
    BY <2>1, CouponFields
  <2>3. x \in Int
    BY <1>1, <2>2
  <2>4. x \div 10000 \in Int
    BY <2>3
  <2>5. compute_payable(Amount, c) \in Int
    BY <2>2, <2>4 DEF compute_payable
  <2> QED
    BY <2>5, <1>3 DEF Payable
<1> QED
  BY <1>2, <1>3

\* An ended subscription has no edge but to Archived.
LEMMA EndedStays ==
    ASSUME NEW from \in Ended, NEW to, can_transition(from, to) PROVE to \in Ended
BY DEF Ended, can_transition, get_allowed_transitions

\* Steps that write one status.
LEMMA WriteStatus ==
    ASSUME OwnerInv, UNCHANGED <<index, intent, coupon, bound>>,
           NEW s \in Subs, NEW st \in Status, write_status(s, st),
           sub[s].status # "Absent", sub[s].status \in Ended => st \in Ended
    PROVE  OwnerInv'
<1>1. sub[s] \in Subscription
  BY DEF OwnerInv, OwnerTypes
<1>2. [sub[s] EXCEPT !.status = st] \in Subscription
  BY <1>1 DEF Subscription
<1>3. sub' = [sub EXCEPT ![s] = [sub[s] EXCEPT !.status = st]]
  BY DEF write_status
<1>4. sub' \in [Subs -> Subscription]
  BY <1>2, <1>3 DEF OwnerInv, OwnerTypes
<1>5. /\ sub'[s].owner = sub[s].owner /\ sub'[s].status = st
      /\ \A t \in Subs : t # s => sub'[t] = sub[t]
  BY <1>1, <1>3 DEF OwnerInv, OwnerTypes, Subscription
<1>6. st # "Absent"
  BY DEF Status
<1> QED
  BY <1>4, <1>5, <1>6, QuietStep DEF OwnerInv, OwnerTypes

\* Everything in a subscription's life but creation and cancellation leaves
\* owner, list and intent alone.
LEMMA LifeStep ==
    ASSUME OwnerInv, NEW s \in Subs,
           \/ PauseSubscription(s) \/ ResumeSubscription(s) \/ CleanupSubscription(s)
           \/ GraceElapses(s) \/ ChargeCollects(s)
           \/ \E st \in Status : ChargeUnderfunded(s, st)
           \/ \E st \in {"Cancelled", "Expired"}, left \in {0, sub[s].prepaid} :
                 ChargeEnds(s, st, left)
    PROVE  OwnerInv'
<1>1. CASE PauseSubscription(s)
  BY <1>1, WriteStatus, EndedStays DEF PauseSubscription, Exists, coupon_vars, Status, Ended
<1>2. CASE ResumeSubscription(s)
  BY <1>2, WriteStatus, EndedStays DEF ResumeSubscription, Exists, coupon_vars, Status, Ended
<1>3. CASE CleanupSubscription(s)
  BY <1>3, WriteStatus DEF CleanupSubscription, Exists, coupon_vars, Status, Ended
<1>4. CASE GraceElapses(s)
  BY <1>4, WriteStatus DEF GraceElapses, coupon_vars, Status, Ended
<1>5. CASE ChargeCollects(s)
  <2>1. sub[s].prepaid - Payable(s) \in Nat
    BY <1>5, PayableInt DEF ChargeCollects, OwnerInv, OwnerTypes, Subscription
  <2>2. sub' = [sub EXCEPT ![s] = [sub[s] EXCEPT !.status = "Active",
                                                 !.prepaid = sub[s].prepaid - Payable(s)]]
    BY <1>5 DEF ChargeCollects, OwnerInv, OwnerTypes, Subscription
  <2> QED
    BY <1>5, <2>1, <2>2, StatusStep DEF ChargeCollects, coupon_vars, Status, Ended, Live
<1>6. CASE \E st \in Status : ChargeUnderfunded(s, st)
  BY <1>6, WriteStatus DEF ChargeUnderfunded, coupon_vars, Ended, Live
<1>7. CASE \E st \in {"Cancelled", "Expired"}, left \in {0, sub[s].prepaid} :
              ChargeEnds(s, st, left)
  <2>1. PICK st \in {"Cancelled", "Expired"}, left \in {0, sub[s].prepaid} :
           ChargeEnds(s, st, left)
    BY <1>7
  <2>2. left \in Nat /\ st \in Status
    BY DEF OwnerInv, OwnerTypes, Subscription, Status
  <2>3. sub' = [sub EXCEPT ![s] = [sub[s] EXCEPT !.status = st, !.prepaid = left]]
    BY <2>1 DEF ChargeEnds, OwnerInv, OwnerTypes, Subscription
  <2>4. sub[s].status \in Ended => st \in Ended
    BY <2>1, EndedStays DEF ChargeEnds
  <2> QED
    BY <2>1, <2>2, <2>3, <2>4, StatusStep DEF ChargeEnds, Exists, coupon_vars
<1> QED
  BY <1>1, <1>2, <1>3, <1>4, <1>5, <1>6, <1>7

\* A new id is put on its owner's list, which cannot have it yet.
LEMMA CreateStep ==
    ASSUME OwnerInv, NEW s \in Subs, NEW u \in Subscribers, NEW t \in ExpiryChoices,
           CreateSubscription(s, u, t)
    PROVE  OwnerInv'
<1> DEFINE r == [owner |-> u, status |-> "Active", prepaid |-> 0, expiresAt |-> t]
<1>1. r \in Subscription
  BY OwnershipAssumption DEF Subscription, Status
<1>2. /\ sub' = [sub EXCEPT ![s] = r]
      /\ index' = [index EXCEPT ![u] = [index[u] EXCEPT ![s] = index[u][s] + 1]]
      /\ UNCHANGED <<intent, coupon, bound>> /\ sub[s].status = "Absent"
  BY DEF CreateSubscription, push_id, coupon_vars, Exists
<1>3. r.owner = u /\ r.status = "Active"
  OBVIOUS
<1>4. /\ sub \in [Subs -> Subscription] /\ index \in [Subscribers -> [Subs -> Nat]]
      /\ u # NoOne /\ sub[s].owner = NoOne /\ intent[s].to = NoOne
  BY <1>2, NoOneAssumption DEF OwnerInv, OwnerTypes, Fresh
<1> HIDE DEF r
<1>5. sub'[s] = r /\ \A v \in Subs : v # s => sub'[v] = sub[v]
  BY <1>2, <1>4
<1>6. \A w \in Subscribers : index[w][s] = 0
  <2> SUFFICES ASSUME NEW w \in Subscribers PROVE index[w][s] = 0
    OBVIOUS
  <2>1. index[w][s] \in Nat /\ w # NoOne
    BY <1>4, NoOneAssumption
  <2>2. index[w][s] <= 1 /\ (index[w][s] = 1 => sub[s].owner = w)
    BY DEF OwnerInv, Listed
  <2> QED
    BY <1>4, <2>1, <2>2
<1>7. \A w \in Subscribers, v \in Subs :
         index'[w][v] = IF w = u /\ v = s THEN 1 ELSE index[w][v]
  BY <1>2, <1>4, <1>6
<1>8. OwnerTypes'
  BY <1>1, <1>2, <1>4 DEF OwnerInv, OwnerTypes
<1>9. ASSUME NEW v \in Subs PROVE Fresh(v)' /\ Intended(v)'
  BY <1>9, <1>2, <1>3, <1>4, <1>5 DEF OwnerInv, Fresh, Intended
<1>10. ASSUME NEW w \in Subscribers, NEW v \in Subs PROVE Listed(w, v)'
  <2>1. CASE v = s
    BY <2>1, <1>3, <1>5, <1>6, <1>7 DEF Listed
  <2>2. CASE v # s
    BY <2>2, <1>5, <1>7 DEF OwnerInv, Listed
  <2> QED
    BY <2>1, <2>2
<1> QED
  BY <1>8, <1>9, <1>10 DEF OwnerInv

\* What taking an id off a list leaves, also when there is no such list.
LEMMA RemoveId ==
    ASSUME NEW idx \in [Subscribers -> [Subs -> Nat]], NEW o, NEW s \in Subs
    PROVE  /\ remove_id(idx, o, s) \in [Subscribers -> [Subs -> Nat]]
           /\ \A w \in Subscribers, v \in Subs :
                 remove_id(idx, o, s)[w][v] =
                    IF w = o /\ v = s THEN (IF idx[w][v] = 0 THEN 0 ELSE idx[w][v] - 1)
                                      ELSE idx[w][v]
<1> DEFINE n == IF idx[o][s] = 0 THEN 0 ELSE idx[o][s] - 1
           l == [idx[o] EXCEPT ![s] = n]
<1>1. remove_id(idx, o, s) = [idx EXCEPT ![o] = l]
  BY DEF remove_id
<1>2. CASE o \in Subscribers
  <2>1. n \in Nat /\ idx[o] \in [Subs -> Nat]
    BY <1>2
  <2> HIDE DEF n
  <2>2. l \in [Subs -> Nat] /\ \A v \in Subs : l[v] = IF v = s THEN n ELSE idx[o][v]
    BY <2>1
  <2> HIDE DEF l
  <2>3. remove_id(idx, o, s) \in [Subscribers -> [Subs -> Nat]]
    BY <1>1, <1>2, <2>2
  <2>4. \A w \in Subscribers : remove_id(idx, o, s)[w] = IF w = o THEN l ELSE idx[w]
    BY <1>1, <1>2
  <2> QED
    BY <2>2, <2>3, <2>4 DEF n
<1>3. CASE o \notin Subscribers
  <2> HIDE DEF l
  <2>1. remove_id(idx, o, s) = idx
    BY <1>1, <1>3
  <2> QED
    BY <1>3, <2>1
<1> QED
  BY <1>2, <1>3

\* Cancellation takes the id off its owner's list; it is on no other.
LEMMA CancelStep ==
    ASSUME OwnerInv, NEW s \in Subs, CancelSubscription(s)
    PROVE  OwnerInv'
<1> DEFINE r == [sub[s] EXCEPT !.status = "Cancelled", !.prepaid = 0]
           o == sub[s].owner
<1>1. sub[s] \in Subscription
  BY DEF OwnerInv, OwnerTypes
<1>2. r \in Subscription /\ r.owner = o /\ r.status = "Cancelled"
  BY <1>1 DEF Subscription, Status
<1>3. sub' = [sub EXCEPT ![s] = r]
  BY DEF CancelSubscription, OwnerInv, OwnerTypes, Subscription
<1>4. /\ index' = remove_id(index, o, s)
      /\ UNCHANGED <<intent, coupon, bound>> /\ sub[s].status # "Absent"
  BY DEF CancelSubscription, coupon_vars, Exists
<1>5. sub \in [Subs -> Subscription] /\ index \in [Subscribers -> [Subs -> Nat]]
  BY DEF OwnerInv, OwnerTypes
<1>6. \A w \in Subscribers, v \in Subs :
         index'[w][v] = IF w = o /\ v = s THEN (IF index[w][v] = 0 THEN 0 ELSE index[w][v] - 1)
                                          ELSE index[w][v]
  BY <1>4, <1>5, RemoveId
<1>7. index' \in [Subscribers -> [Subs -> Nat]]
  BY <1>4, <1>5, RemoveId
<1> HIDE DEF r
<1>8. sub'[s] = r /\ \A v \in Subs : v # s => sub'[v] = sub[v]
  BY <1>3, <1>5
<1>9. OwnerTypes'
  BY <1>2, <1>3, <1>4, <1>5, <1>7 DEF OwnerInv, OwnerTypes
<1>10. ASSUME NEW v \in Subs PROVE Fresh(v)' /\ Intended(v)'
  BY <1>10, <1>2, <1>4, <1>8 DEF OwnerInv, Fresh, Intended
<1>11. ASSUME NEW w \in Subscribers, NEW v \in Subs PROVE Listed(w, v)'
  <2>1. CASE v = s
    BY <2>1, <1>2, <1>5, <1>6, <1>8 DEF OwnerInv, Listed, Ended
  <2>2. CASE v # s
    BY <2>2, <1>6, <1>8 DEF OwnerInv, Listed
  <2> QED
    BY <2>1, <2>2
<1> QED
  BY <1>9, <1>10, <1>11 DEF OwnerInv

\* A transfer: the intent is the owner's and to somebody else, so the id leaves
\* one list and is new on the other.
LEMMA AcceptStep ==
    ASSUME OwnerInv, NEW s \in Subs, AcceptTransfer(s)
    PROVE  OwnerInv'
<1> DEFINE to == intent[s].to
           o == sub[s].owner
           r == [sub[s] EXCEPT !.owner = to]
<1>1. /\ sub[s] \in Subscription /\ intent[s] \in TransferIntent
      /\ sub \in [Subs -> Subscription] /\ index \in [Subscribers -> [Subs -> Nat]]
      /\ intent \in [Subs -> TransferIntent]
  BY DEF OwnerInv, OwnerTypes
<1>2. to # NoOne /\ to \in Subscribers /\ to # o
  BY <1>1 DEF AcceptTransfer, TransferReady, OwnerInv, Intended, TransferIntent
<1>3. sub[s].status # "Absent"
  BY <1>2 DEF OwnerInv, Fresh
<1>4. /\ sub' = [sub EXCEPT ![s] = r]
      /\ index' = push_id(remove_id(index, o, s), to, s)
      /\ intent' = [intent EXCEPT ![s] = NoIntent]
      /\ UNCHANGED <<coupon, bound>>
  BY DEF AcceptTransfer, MoveTo, MovedIndex, coupon_vars
<1>5. r \in Subscription /\ r.owner = to /\ r.status = sub[s].status
  BY <1>1, <1>2 DEF Subscription
<1>6. \A w \in Subscribers, v \in Subs :
         remove_id(index, o, s)[w][v] =
            IF w = o /\ v = s THEN (IF index[w][v] = 0 THEN 0 ELSE index[w][v] - 1)
                              ELSE index[w][v]
  BY <1>1, RemoveId
<1>7. remove_id(index, o, s) \in [Subscribers -> [Subs -> Nat]]
  BY <1>1, RemoveId
<1> HIDE DEF r, o, to
<1>8. \A w \in Subscribers, v \in Subs :
         index'[w][v] = IF w = to /\ v = s THEN remove_id(index, o, s)[w][v] + 1
                                           ELSE remove_id(index, o, s)[w][v]
  BY <1>2, <1>4, <1>7 DEF push_id
<1>9. index' \in [Subscribers -> [Subs -> Nat]]
  BY <1>2, <1>4, <1>7 DEF push_id
<1>10. NoIntent \in TransferIntent /\ NoIntent.to = NoOne
  BY DEF NoIntent, TransferIntent
<1>11. /\ sub'[s] = r /\ intent'[s] = NoIntent
       /\ \A v \in Subs : v # s => sub'[v] = sub[v] /\ intent'[v] = intent[v]
  BY <1>1, <1>4
<1>12. OwnerTypes'
  BY <1>1, <1>4, <1>5, <1>9, <1>10 DEF OwnerInv, OwnerTypes
<1>13. ASSUME NEW v \in Subs PROVE Fresh(v)' /\ Intended(v)'
  BY <1>13, <1>2, <1>3, <1>5, <1>10, <1>11 DEF OwnerInv, Fresh, Intended
<1>14. ASSUME NEW w \in Subscribers, NEW v \in Subs PROVE Listed(w, v)'
  <2>1. CASE v = s
    <3>1. index[w][s] \in Nat /\ index[w][s] <= 1 /\ (index[w][s] = 1 => o = w)
      BY <1>1 DEF OwnerInv, Listed, o
    <3>2. index'[w][s] = IF w = to THEN 1 ELSE 0
      BY <3>1, <1>2, <1>6, <1>8
    <3> QED
      BY <2>1, <3>2, <1>5, <1>11 DEF Listed
  <2>2. CASE v # s
    BY <2>2, <1>6, <1>8, <1>11 DEF OwnerInv, Listed
  <2> QED
    BY <2>1, <2>2
<1> QED
  BY <1>12, <1>13, <1>14 DEF OwnerInv

\* An intent is made by the owner, to somebody else; a veto drops it.
LEMMA IntentStep ==
    ASSUME OwnerInv, NEW s \in Subs,
           \/ \E u \in Subscribers, t \in Deadlines : InitiateTransfer(s, u, t)
           \/ VetoTransfer(s)
    PROVE  OwnerInv'
<1>1. /\ UNCHANGED <<sub, index, coupon, bound>>
      /\ sub \in [Subs -> Subscription] /\ intent \in [Subs -> TransferIntent]
  BY DEF InitiateTransfer, VetoTransfer, owner_vars, coupon_vars, OwnerInv, OwnerTypes
<1>2. PICK i \in TransferIntent :
         /\ intent' = [intent EXCEPT ![s] = i]
         /\ i.to # NoOne => /\ i.from = sub[s].owner /\ i.to # sub[s].owner
                            /\ sub[s].status # "Absent"
  <2>1. CASE VetoTransfer(s)
    <3>1. NoIntent \in TransferIntent /\ NoIntent.to = NoOne
      BY DEF NoIntent, TransferIntent
    <3> QED
      BY <2>1, <3>1 DEF VetoTransfer
  <2>2. CASE \E u \in Subscribers, t \in Deadlines : InitiateTransfer(s, u, t)
    <3>1. PICK u \in Subscribers, t \in Deadlines : InitiateTransfer(s, u, t)
      BY <2>2
    <3> DEFINE i == [from |-> sub[s].owner, to |-> u, expiresAt |-> t]
    <3>2. i \in TransferIntent
      BY <1>1, OwnershipAssumption DEF TransferIntent, Subscription
    <3>3. /\ intent' = [intent EXCEPT ![s] = i]
          /\ u # sub[s].owner /\ sub[s].status # "Absent"
      BY <3>1 DEF InitiateTransfer, Exists
    <3>4. i.from = sub[s].owner /\ i.to = u
      OBVIOUS
    <3> HIDE DEF i
    <3> QED
      BY <3>2, <3>3, <3>4
  <2> QED
    BY <2>1, <2>2
<1>3. intent'[s] = i /\ \A v \in Subs : v # s => intent'[v] = intent[v]
  BY <1>1, <1>2
<1>4. OwnerTypes'
  BY <1>1, <1>2 DEF OwnerInv, OwnerTypes
<1>5. ASSUME NEW v \in Subs PROVE Fresh(v)' /\ Intended(v)'
  BY <1>1, <1>2, <1>3 DEF OwnerInv, Fresh, Intended
<1>6. ASSUME NEW u \in Subscribers, NEW v \in Subs PROVE Listed(u, v)'
  BY <1>1 DEF OwnerInv, Listed
<1> QED
  BY <1>4, <1>5, <1>6 DEF OwnerInv

\* A payer's deposit adds to the balance and may resume the subscription.
LEMMA DepositStep ==
    ASSUME OwnerInv, NEW s \in Subs, NEW p \in Payers, NEW a \in DepositAmounts,
           DepositFundsOnBehalf(s, p, a)
    PROVE  OwnerInv'
<1>1. sub[s] \in Subscription /\ sub \in [Subs -> Subscription] /\ a \in Nat
  BY OwnershipAssumption DEF OwnerInv, OwnerTypes
<1>2. PICK st \in Status :
         /\ st = sub[s].status \/ (st = "Active" /\ sub[s].status \notin Ended)
         /\ sub' = [sub EXCEPT ![s].prepaid = @ + a, ![s].status = st]
  <2>1. sub[s].status \in Status /\ "Active" \in Status
    BY <1>1 DEF DepositFundsOnBehalf, DepositsOnBehalf, Exists, Subscription, Status
  <2> DEFINE recovers == /\ sub[s].status \in {"InsufficientBalance", "GracePeriod"}
                         /\ sub[s].prepaid + a >= Amount
             st == IF recovers THEN "Active" ELSE sub[s].status
  <2>2. sub' = [sub EXCEPT ![s].prepaid = @ + a,
                           ![s].status = IF recovers THEN "Active" ELSE @]
    BY DEF DepositFundsOnBehalf, DepositsOnBehalf
  <2>3. sub' = [sub EXCEPT ![s].prepaid = @ + a, ![s].status = st]
    BY <1>1, <2>2 DEF Subscription
  <2>4. st = sub[s].status \/ (st = "Active" /\ sub[s].status \notin Ended)
    BY DEF Ended
  <2> HIDE DEF st
  <2> QED
    BY <2>1, <2>3, <2>4
<1>3. sub' = [sub EXCEPT ![s] = [sub[s] EXCEPT !.status = st, !.prepaid = sub[s].prepaid + a]]
  BY <1>1, <1>2 DEF Subscription
<1>4. sub[s].prepaid + a \in Nat
  BY <1>1 DEF Subscription
<1> QED
  BY <1>2, <1>3, <1>4, StatusStep
     DEF DepositFundsOnBehalf, DepositsOnBehalf, Exists, coupon_vars

\* Coupons touch no ownership.
LEMMA DiscountStep ==
    ASSUME OwnerInv, Discounts PROVE OwnerInv'
<1>1. PICK c \in Codes :
         \/ \E choice \in CouponChoices, t \in Deadlines : CreateCoupon(c, choice, t)
         \/ RevokeCoupon(c)
         \/ \E s \in Subs : ApplyCoupon(s, c)
  BY DEF Discounts
<1>2. /\ UNCHANGED <<sub, index, intent>>
      /\ coupon \in [Codes -> Coupon] /\ bound \in [Subs -> Codes \cup {NoOne}]
      /\ sub \in [Subs -> Subscription]
  BY <1>1 DEF CreateCoupon, RevokeCoupon, ApplyCoupon, owner_vars, OwnerInv, OwnerTypes
<1>3. coupon' \in [Codes -> Coupon] /\ bound' \in [Subs -> Codes \cup {NoOne}]
  <2>1. CASE \E choice \in CouponChoices, t \in Deadlines : CreateCoupon(c, choice, t)
    <3>1. PICK choice \in CouponChoices, t \in Deadlines : CreateCoupon(c, choice, t)
      BY <2>1
    <3> DEFINE k == [percent |-> choice.percent, fixed |-> choice.fixed,
                     max |-> choice.max, expiresAt |-> t, revoked |-> FALSE]
    <3>2. /\ choice.percent \in 0..10000 /\ choice.fixed \in Nat /\ choice.max \in Nat
          /\ t \in Nat
      BY OwnershipAssumption
    <3>3. k \in Coupon
      BY <3>2 DEF Coupon
    <3>4. coupon' = [coupon EXCEPT ![c] = k] /\ bound' = bound
      BY <3>1 DEF CreateCoupon
    <3> HIDE DEF k
    <3> QED
      BY <1>2, <3>3, <3>4
  <2>2. CASE RevokeCoupon(c)
    <3> DEFINE k == [coupon[c] EXCEPT !.revoked = TRUE]
    <3>1. k \in Coupon
      BY <1>2, CouponFields
    <3>2. coupon' = [coupon EXCEPT ![c] = k] /\ bound' = bound
      BY <2>2 DEF RevokeCoupon
    <3> HIDE DEF k
    <3> QED
      BY <1>2, <3>1, <3>2
  <2>3. CASE \E s \in Subs : ApplyCoupon(s, c)
    BY <1>2, <2>3 DEF ApplyCoupon
  <2> QED
    BY <1>1, <2>1, <2>2, <2>3
<1> QED
  BY <1>2, <1>3, QuietStep

\* Every step keeps the invariant.
LEMMA OwnerNext == OwnerInv /\ [Next]_vars => OwnerInv'
<1> SUFFICES ASSUME OwnerInv, [Next]_vars PROVE OwnerInv'
  OBVIOUS
<1>1. CASE UNCHANGED <<sub, index, intent, coupon, bound>>
  BY <1>1, QuietStep DEF OwnerInv, OwnerTypes
<1>2. CASE Tick
  BY <1>1, <1>2 DEF Tick, owner_vars, coupon_vars
<1>3. CASE Delegation
  <2>1. CASE \E p \in Payers, s \in Subs, a \in DepositAmounts : DepositFundsOnBehalf(s, p, a)
    BY <2>1, DepositStep
  <2>2. CASE \E p \in Payers, u \in Subscribers :
                \/ RevokeDelegatedPayer(u, p)
                \/ \E a \in GrantAmounts, t \in Deadlines : GrantDelegatedPayer(u, p, a, t)
    BY <1>1, <2>2 DEF RevokeDelegatedPayer, GrantDelegatedPayer, owner_vars, coupon_vars
  <2> QED
    BY <1>3, <2>1, <2>2 DEF Delegation
<1>4. CASE Discounts
  BY <1>4, DiscountStep
<1>5. CASE \E s \in Subs : Life(s)
  BY <1>5, CreateStep, CancelStep, LifeStep DEF Life
<1>6. CASE \E s \in Subs : Transfers(s)
  BY <1>6, AcceptStep, IntentStep DEF Transfers
<1>7. CASE UNCHANGED vars
  BY <1>1, <1>7 DEF vars
<1> QED
  BY <1>2, <1>3, <1>4, <1>5, <1>6, <1>7 DEF Next

\* For any number of subscribers and transfers, lists follow the owner.
THEOREM ListsFollow == Spec => []ListsFollowOwner
<1>1. OwnerInv => ListsFollowOwner
  BY DEF OwnerInv, Listed, ListsFollowOwner, Ended
<1> QED
  BY <1>1, OwnerInit, OwnerNext, PTL DEF Spec

\* What accept_transfer does not check always holds: a pending intent is the
\* present owner's, to somebody else.
THEOREM IntentsAreOwners == Spec => []IntentIsOwners
<1>1. OwnerInv => IntentIsOwners
  BY DEF OwnerInv, Intended, IntentIsOwners
<1> QED
  BY <1>1, OwnerInit, OwnerNext, PTL DEF Spec

-----------------------------------------------------------------------------
(* Delegated payers. Deposits are made under the owner's grant, so that    *)
(* every existing subscription has an owner (OwnerInv) is needed here.     *)

\* The inductive invariant: types, and the property for one pair.
Paying(u, p) == paid[u][p] + grant[u][p].max <= granted[u][p]

PayerInv ==
    /\ grant \in [Subscribers -> [Payers -> Grant]]
    /\ granted \in [Subscribers -> [Payers -> Nat]]
    /\ paid \in [Subscribers -> [Payers -> Nat]]
    /\ \A u \in Subscribers, p \in Payers : Paying(u, p)

\* Updating one entry of a table of tables.
LEMMA UpdateEntry ==
    ASSUME NEW T, NEW f \in [Subscribers -> [Payers -> T]],
           NEW u \in Subscribers, NEW p \in Payers, NEW x \in T
    PROVE  LET g == [f EXCEPT ![u][p] = x] IN
           /\ g \in [Subscribers -> [Payers -> T]]
           /\ g[u][p] = x
           /\ \A w \in Subscribers, q \in Payers : w # u \/ q # p => g[w][q] = f[w][q]
<1> DEFINE l == [f[u] EXCEPT ![p] = x]
<1>1. l \in [Payers -> T] /\ l[p] = x /\ \A q \in Payers : q # p => l[q] = f[u][q]
  OBVIOUS
<1>2. [f EXCEPT ![u][p] = x] = [f EXCEPT ![u] = l]
  OBVIOUS
<1> HIDE DEF l
<1> QED
  BY <1>1, <1>2

\* A step that changes only the entries of one pair, and keeps them in order.
LEMMA PayerEntry ==
    ASSUME PayerInv, NEW u \in Subscribers, NEW p \in Payers,
           NEW g \in Grant, NEW n \in Nat, NEW d \in Nat, d + g.max <= n,
           grant' = [grant EXCEPT ![u][p] = g],
           granted' = [granted EXCEPT ![u][p] = n],
           paid' = [paid EXCEPT ![u][p] = d]
    PROVE  PayerInv'
<1>1. /\ grant' \in [Subscribers -> [Payers -> Grant]] /\ grant'[u][p] = g
      /\ \A w \in Subscribers, q \in Payers : w # u \/ q # p => grant'[w][q] = grant[w][q]
  BY UpdateEntry DEF PayerInv
<1>2. /\ granted' \in [Subscribers -> [Payers -> Nat]] /\ granted'[u][p] = n
      /\ \A w \in Subscribers, q \in Payers : w # u \/ q # p => granted'[w][q] = granted[w][q]
  BY UpdateEntry DEF PayerInv
<1>3. /\ paid' \in [Subscribers -> [Payers -> Nat]] /\ paid'[u][p] = d
      /\ \A w \in Subscribers, q \in Payers : w # u \/ q # p => paid'[w][q] = paid[w][q]
  BY UpdateEntry DEF PayerInv
<1>4. ASSUME NEW w \in Subscribers, NEW q \in Payers PROVE Paying(w, q)'
  <2>1. CASE w = u /\ q = p
    BY <2>1, <1>1, <1>2, <1>3 DEF Paying
  <2>2. CASE w # u \/ q # p
    BY <2>2, <1>1, <1>2, <1>3 DEF PayerInv, Paying
  <2> QED
    BY <2>1, <2>2
<1> QED
  BY <1>1, <1>2, <1>3, <1>4 DEF PayerInv

\* Writing an entry back changes nothing.
LEMMA SameEntry ==
    ASSUME NEW T, NEW f \in [Subscribers -> [Payers -> T]],
           NEW u \in Subscribers, NEW p \in Payers
    PROVE  f = [f EXCEPT ![u][p] = f[u][p]]
<1>1. f[u] = [f[u] EXCEPT ![p] = f[u][p]]
  OBVIOUS
<1> QED
  BY <1>1

\* Every step keeps payers within their grants.
LEMMA PayerNext == OwnerInv /\ PayerInv /\ [Next]_vars => PayerInv'
<1> SUFFICES ASSUME OwnerInv, PayerInv, [Next]_vars PROVE PayerInv'
  OBVIOUS
<1>1. CASE UNCHANGED grant_vars
  BY <1>1 DEF grant_vars, PayerInv, Paying
<1>2. CASE Tick \/ Discounts \/ UNCHANGED vars
  BY <1>1, <1>2 DEF Tick, Discounts, CreateCoupon, RevokeCoupon, ApplyCoupon, grant_vars, vars
<1>3. CASE \E s \in Subs : Life(s)
  BY <1>1, <1>3 DEF Life, CreateSubscription, CancelSubscription, PauseSubscription,
     ResumeSubscription, CleanupSubscription, GraceElapses, ChargeCollects,
     ChargeUnderfunded, ChargeEnds
<1>4. CASE \E s \in Subs : Transfers(s)
  BY <1>1, <1>4 DEF Transfers, InitiateTransfer, AcceptTransfer, MoveTo, VetoTransfer
<1>5. ASSUME NEW u \in Subscribers, NEW p \in Payers
      PROVE  /\ grant[u][p] \in Grant /\ grant[u][p].max \in Nat
             /\ granted[u][p] \in Nat /\ paid[u][p] \in Nat
             /\ paid[u][p] + grant[u][p].max <= granted[u][p]
  BY <1>5 DEF PayerInv, Paying, Grant
<1>6. NoGrant \in Grant /\ NoGrant.max = 0
  BY DEF NoGrant, Grant
<1>7. ASSUME NEW u \in Subscribers, NEW p \in Payers, RevokeDelegatedPayer(u, p)
      PROVE  PayerInv'
  <2>1. /\ grant' = [grant EXCEPT ![u][p] = NoGrant]
        /\ granted' = granted /\ paid' = paid
    BY <1>7 DEF RevokeDelegatedPayer
  <2>2. /\ grant' = [grant EXCEPT ![u][p] = NoGrant]
        /\ granted' = [granted EXCEPT ![u][p] = granted[u][p]]
        /\ paid' = [paid EXCEPT ![u][p] = paid[u][p]]
    BY <2>1, SameEntry DEF PayerInv
  <2>3. paid[u][p] + NoGrant.max <= granted[u][p]
    BY <1>5, <1>6
  <2>4. granted[u][p] \in Nat /\ paid[u][p] \in Nat
    BY <1>5
  <2> QED
    BY <1>6, <2>2, <2>3, <2>4, PayerEntry
<1>8. ASSUME NEW u \in Subscribers, NEW p \in Payers, NEW a \in GrantAmounts,
             NEW t \in Deadlines, GrantDelegatedPayer(u, p, a, t)
      PROVE  PayerInv'
  <2> DEFINE g == [max |-> a, expiresAt |-> t]
             n == granted[u][p] + a
  <2>1. g \in Grant /\ g.max = a /\ a \in Nat
    BY OwnershipAssumption DEF Grant
  <2>2. /\ grant' = [grant EXCEPT ![u][p] = g] /\ paid' = paid
        /\ granted' = [granted EXCEPT ![u][p] = n]
    BY <1>8 DEF GrantDelegatedPayer
  <2>3. n \in Nat /\ paid[u][p] + a <= n
    BY <1>5, <2>1
  <2>4. paid' = [paid EXCEPT ![u][p] = paid[u][p]]
    BY <2>2, SameEntry DEF PayerInv
  <2> HIDE DEF g, n
  <2> QED
    BY <1>5, <2>1, <2>2, <2>3, <2>4, PayerEntry
<1>9. ASSUME NEW s \in Subs, NEW p \in Payers, NEW a \in DepositAmounts,
             DepositFundsOnBehalf(s, p, a)
      PROVE  PayerInv'
  <2> DEFINE u == sub[s].owner
             d == paid[u][p] + a
  <2>1. /\ sub[s].status # "Absent" /\ a <= grant[u][p].max
        /\ grant' = [grant EXCEPT ![u][p] = NoGrant]
        /\ granted' = granted
        /\ paid' = [paid EXCEPT ![u][p] = d]
    BY <1>9 DEF DepositFundsOnBehalf, DepositsOnBehalf, Exists
  <2>2. u \in Subscribers
    BY <2>1 DEF OwnerInv, OwnerTypes, Fresh, Subscription
  <2>3. a \in Nat
    BY OwnershipAssumption
  <2> HIDE DEF u
  <2>4. d \in Nat /\ d + NoGrant.max <= granted[u][p]
    BY <1>5, <1>6, <2>1, <2>2, <2>3
  <2>5. granted' = [granted EXCEPT ![u][p] = granted[u][p]]
    BY <2>1, <2>2, SameEntry DEF PayerInv
  <2> HIDE DEF d
  <2> QED
    BY <1>5, <1>6, <2>1, <2>2, <2>4, <2>5, PayerEntry
<1>10. CASE Delegation
  BY <1>7, <1>8, <1>9, <1>10 DEF Delegation
<1> QED
  BY <1>2, <1>3, <1>4, <1>10 DEF Next

\* No grant has been made or used at first.
LEMMA PayerInit == Init => PayerInv
<1>1. NoGrant \in Grant /\ NoGrant.max = 0
  BY DEF NoGrant, Grant
<1> HAVE Init
<1>2. /\ grant \in [Subscribers -> [Payers -> Grant]]
      /\ granted \in [Subscribers -> [Payers -> Nat]]
      /\ paid \in [Subscribers -> [Payers -> Nat]]
  BY <1>1 DEF Init
<1>3. ASSUME NEW u \in Subscribers, NEW p \in Payers PROVE Paying(u, p)
  BY <1>1 DEF Init, Paying
<1> QED
  BY <1>2, <1>3 DEF PayerInv

\* What a payer deposits for a subscriber stays within what was granted, also when
\* the subscription it pays for has changed hands since the grant.
THEOREM PayersWithinGrants == Spec => []PayerWithinGrants
<1>1. PayerInv => PayerWithinGrants
  BY DEF PayerInv, Paying, PayerWithinGrants
<1> QED
  BY <1>1, OwnerInit, OwnerNext, PayerInit, PayerNext, PTL DEF Spec

-----------------------------------------------------------------------------
(* The counter behind the active cap. It may run ahead of the live         *)
(* subscriptions (auto-pause, expiry, archival leave it), never behind.    *)

LiveIn(f, u) == {s \in Subs : f[s].owner = u /\ f[s].status \in Live}

CountInv ==
    /\ activeCount \in [Subscribers -> Nat]
    /\ \A u \in Subscribers : Cardinality(LiveIn(sub, u)) <= activeCount[u]

\* What a step that writes one subscription owes the counter of one subscriber: it
\* grows by a subscription that becomes live for them, or has reached u32::MAX, and
\* falls by no more than the one that ceases to be.
Kept(s, u) ==
    \/ activeCount'[u] >= activeCount[u] /\ LiveIn(sub', u) \subseteq LiveIn(sub, u)
    \/ activeCount'[u] >= activeCount[u] - 1 /\ s \in LiveIn(sub, u) \ LiveIn(sub', u)
    \/ activeCount'[u] >= activeCount[u] + 1
    \/ activeCount'[u] >= MaxCount

\* A step that writes one subscription, if every counter follows it.
LEMMA CountOne ==
    ASSUME CountInv, NEW s \in Subs, \A t \in Subs \ {s} : sub'[t] = sub[t],
           activeCount' \in [Subscribers -> Nat],
           \A u \in Subscribers : Kept(s, u)
    PROVE  CountInv'
<1> SUFFICES ASSUME NEW u \in Subscribers
             PROVE  Cardinality(LiveIn(sub', u)) <= activeCount'[u]
  BY DEF CountInv, LiveIn
<1> DEFINE A == LiveIn(sub, u)
           B == LiveIn(sub', u)
<1>1. /\ A \subseteq Subs /\ B \subseteq Subs /\ IsFiniteSet(Subs)
      /\ B \ {s} = A \ {s}
  BY OwnershipAssumption DEF LiveIn
<1> HIDE DEF A, B
<1>2. PICK m \in Nat, n \in Nat : m = activeCount[u] /\ n = activeCount'[u]
  BY DEF CountInv
<1>3. Kept(s, u)
  OBVIOUS
<1>4. /\ IsFiniteSet(A) /\ IsFiniteSet(B)
      /\ Cardinality(A) \in Nat /\ Cardinality(B) \in Nat /\ Cardinality(Subs) \in Nat
      /\ Cardinality(B) <= Cardinality(Subs)
  BY <1>1, FS_Subset, FS_CardinalityType
<1>5. Cardinality(A) <= m
  BY <1>2 DEF CountInv, A
<1>6. B \subseteq A => Cardinality(B) <= Cardinality(A)
  BY <1>4, FS_Subset
<1>7. s \in A \ B => Cardinality(B) = Cardinality(A) - 1
  <2> SUFFICES ASSUME s \in A \ B PROVE Cardinality(B) = Cardinality(A) - 1
    OBVIOUS
  <2>1. B = A \ {s}
    BY <1>1
  <2> QED
    BY <1>4, <2>1, FS_RemoveElement
<1>8. Cardinality(B) <= Cardinality(A) + 1
  <2>1. /\ IsFiniteSet(A \cup {s})
        /\ Cardinality(A \cup {s}) = IF s \in A THEN Cardinality(A) ELSE Cardinality(A) + 1
    BY <1>4, FS_AddElement
  <2>2. B \subseteq A \cup {s}
    BY <1>1
  <2>3. Cardinality(B) <= Cardinality(A \cup {s})
    BY <2>1, <2>2, FS_Subset
  <2> QED
    BY <1>4, <2>1, <2>3
<1>9. \/ n >= m /\ B \subseteq A
      \/ n >= m - 1 /\ s \in A \ B
      \/ n >= m + 1
      \/ n >= MaxCount
  BY <1>2, <1>3 DEF Kept, A, B
<1>10. MaxCount \in Nat /\ Cardinality(Subs) <= MaxCount
  BY OwnershipAssumption
<1>11. Cardinality(B) <= n
  BY <1>4, <1>5, <1>6, <1>7, <1>8, <1>9, <1>10
<1> QED
  BY <1>2, <1>11 DEF B

\* What the counter does: it only ever changes one entry.
LEMMA Counting ==
    ASSUME NEW f \in [Subscribers -> Nat], NEW u \in Subscribers
    PROVE  /\ increment(f, u) \in [Subscribers -> Nat]
           /\ decrement(f, u) \in [Subscribers -> Nat]
           /\ \A v \in Subscribers \ {u} :
                 increment(f, u)[v] = f[v] /\ decrement(f, u)[v] = f[v]
           /\ increment(f, u)[u] >= f[u] + 1 \/ increment(f, u)[u] >= MaxCount
           /\ increment(f, u)[u] >= f[u]
           /\ decrement(f, u)[u] >= f[u] - 1
BY OwnershipAssumption DEF increment, decrement

\* Nobody's live subscriptions become more, and no counter falls.
LEMMA CountStays ==
    ASSUME OwnerInv, CountInv, activeCount' = activeCount, NEW s \in Subs,
           \A t \in Subs \ {s} : sub'[t] = sub[t],
           sub'[s].owner = sub[s].owner,
           sub'[s].status \in Live => sub[s].status \in Live
    PROVE  CountInv'
<1>1. \A u \in Subscribers : LiveIn(sub', u) \subseteq LiveIn(sub, u)
  BY DEF LiveIn
<1>2. activeCount \in [Subscribers -> Nat]
  BY DEF CountInv
<1>3. \A u \in Subscribers : Kept(s, u)
  BY <1>1, <1>2 DEF Kept
<1> QED
  BY <1>2, <1>3, CountOne

\* A subscription is counted for u, and is live for nobody else that it was not.
LEMMA CountUp ==
    ASSUME CountInv, NEW s \in Subs, \A t \in Subs \ {s} : sub'[t] = sub[t],
           NEW u \in Subscribers, activeCount' = increment(activeCount, u),
           \A w \in Subscribers \ {u} : LiveIn(sub', w) \subseteq LiveIn(sub, w)
    PROVE  CountInv'
<1>1. activeCount \in [Subscribers -> Nat]
  BY DEF CountInv
<1>2. activeCount' \in [Subscribers -> Nat]
  BY <1>1, Counting
<1>3. Kept(s, u)
  BY <1>1, Counting DEF Kept
<1>4. ASSUME NEW w \in Subscribers \ {u} PROVE Kept(s, w)
  <2>1. activeCount'[w] = activeCount[w] /\ activeCount[w] \in Nat
    BY <1>1, Counting
  <2> QED
    BY <2>1 DEF Kept
<1> QED
  BY <1>2, <1>3, <1>4, CountOne

\* A live subscription of u stops being live and is discounted.
LEMMA CountDown ==
    ASSUME CountInv, NEW s \in Subs, \A t \in Subs \ {s} : sub'[t] = sub[t],
           NEW u \in Subscribers, activeCount' = decrement(activeCount, u),
           \A w \in Subscribers : LiveIn(sub', w) \subseteq LiveIn(sub, w),
           s \in LiveIn(sub, u) \ LiveIn(sub', u)
    PROVE  CountInv'
<1>1. activeCount \in [Subscribers -> Nat]
  BY DEF CountInv
<1>2. activeCount' \in [Subscribers -> Nat]
  BY <1>1, Counting
<1>3. Kept(s, u)
  BY <1>1, Counting DEF Kept
<1>4. ASSUME NEW w \in Subscribers \ {u} PROVE Kept(s, w)
  <2>1. activeCount'[w] = activeCount[w] /\ activeCount[w] \in Nat
    BY <1>1, Counting
  <2> QED
    BY <2>1 DEF Kept
<1> QED
  BY <1>2, <1>3, <1>4, CountOne

\* Creation, resumption and transfer count, pausing and cancelling discount.
LEMMA CountStep == OwnerInv /\ CountInv /\ [Next]_vars => CountInv'
<1> SUFFICES ASSUME OwnerInv, CountInv, [Next]_vars PROVE CountInv'
  OBVIOUS
<1>1. CASE UNCHANGED <<sub, activeCount>>
  BY <1>1 DEF CountInv, LiveIn
<1>2. CASE Tick \/ Discounts \/ UNCHANGED vars
  BY <1>1, <1>2
  DEF Tick, Discounts, CreateCoupon, RevokeCoupon, ApplyCoupon, owner_vars, vars
<1>3. /\ sub \in [Subs -> Subscription] /\ activeCount \in [Subscribers -> Nat]
      /\ \A s \in Subs : sub[s].status \in Live => sub[s].owner \in Subscribers
  BY DEF OwnerInv, OwnerTypes, CountInv, Fresh, Subscription, Live
<1>4. CASE Delegation
  <2>1. ASSUME NEW p \in Payers, NEW s \in Subs, NEW a \in DepositAmounts,
               DepositFundsOnBehalf(s, p, a)
        PROVE  CountInv'
    BY <1>3, <2>1, CountStays
    DEF DepositFundsOnBehalf, DepositsOnBehalf, Live, Subscription
  <2>2. ASSUME NEW p \in Payers, NEW u \in Subscribers,
               \/ RevokeDelegatedPayer(u, p)
               \/ \E a \in GrantAmounts, t \in Deadlines : GrantDelegatedPayer(u, p, a, t)
        PROVE  CountInv'
    BY <1>1, <2>2 DEF RevokeDelegatedPayer, GrantDelegatedPayer, owner_vars
  <2> QED
    BY <1>4, <2>1, <2>2 DEF Delegation
<1>5. ASSUME NEW s \in Subs, Life(s) PROVE CountInv'
  <2> DEFINE o == sub[s].owner
  <2>1. ASSUME NEW u \in Subscribers, NEW t \in ExpiryChoices, CreateSubscription(s, u, t)
        PROVE  CountInv'
    <3>1. /\ \A v \in Subs \ {s} : sub'[v] = sub[v]
          /\ sub'[s].owner = u /\ activeCount' = increment(activeCount, u)
      BY <1>3, <2>1 DEF CreateSubscription
    <3>2. \A w \in Subscribers \ {u} : LiveIn(sub', w) \subseteq LiveIn(sub, w)
      BY <3>1 DEF LiveIn
    <3> QED
      BY <3>1, <3>2, CountUp
  <2>2. CASE CancelSubscription(s)
    <3>1. /\ \A v \in Subs \ {s} : sub'[v] = sub[v]
          /\ sub'[s].status = "Cancelled"
          /\ activeCount' = IF sub[s].status = "Active" THEN decrement(activeCount, o)
                                                        ELSE activeCount
      BY <1>3, <2>2 DEF CancelSubscription, Subscription
    <3>2. \A w \in Subscribers : LiveIn(sub', w) \subseteq LiveIn(sub, w)
      BY <3>1 DEF LiveIn, Live
    <3>3. CASE sub[s].status = "Active"
      <4>1. o \in Subscribers /\ s \in LiveIn(sub, o) \ LiveIn(sub', o)
        BY <1>3, <3>1, <3>3 DEF LiveIn, Live
      <4> QED
        BY <3>1, <3>2, <3>3, <4>1, CountDown
    <3>4. CASE sub[s].status # "Active"
      <4>1. activeCount' \in [Subscribers -> Nat] /\ \A w \in Subscribers : Kept(s, w)
        BY <1>3, <3>1, <3>2, <3>4 DEF Kept
      <4> QED
        BY <3>1, <4>1, CountOne
    <3> QED
      BY <3>3, <3>4
  <2>3. CASE PauseSubscription(s)
    <3>1. /\ \A v \in Subs \ {s} : sub'[v] = sub[v]
          /\ sub'[s].status = "Paused" /\ sub[s].status \in Live
          /\ activeCount' = decrement(activeCount, o)
      BY <1>3, <2>3
      DEF PauseSubscription, write_status, Subscription, can_transition,
          get_allowed_transitions, Live
    <3>2. \A w \in Subscribers : LiveIn(sub', w) \subseteq LiveIn(sub, w)
      BY <3>1 DEF LiveIn, Live
    <3>3. o \in Subscribers /\ s \in LiveIn(sub, o) \ LiveIn(sub', o)
      BY <1>3, <3>1 DEF LiveIn, Live
    <3> QED
      BY <3>1, <3>2, <3>3, CountDown
  <2>4. CASE ResumeSubscription(s)
    <3>1. /\ \A v \in Subs \ {s} : sub'[v] = sub[v]
          /\ sub'[s].owner = o /\ sub[s].status # "Absent"
          /\ sub[s].status = "Paused" \/ sub[s].status \in Live
          /\ activeCount' = IF sub[s].status = "Paused" THEN increment(activeCount, o)
                                                        ELSE activeCount
      BY <1>3, <2>4
      DEF ResumeSubscription, Exists, write_status, Subscription, can_transition,
          get_allowed_transitions, Live, Status
    <3>2. CASE sub[s].status = "Paused"
      <4>1. o \in Subscribers
        BY <3>1 DEF OwnerInv, OwnerTypes, Fresh, Subscription
      <4>2. \A w \in Subscribers \ {o} : LiveIn(sub', w) \subseteq LiveIn(sub, w)
        BY <3>1 DEF LiveIn
      <4> QED
        BY <3>1, <3>2, <4>1, <4>2, CountUp
    <3>3. CASE sub[s].status # "Paused"
      BY <3>1, <3>3, CountStays
    <3> QED
      BY <3>2, <3>3
  <2>5. CASE CleanupSubscription(s) \/ GraceElapses(s)
    BY <1>3, <2>5, CountStays
    DEF CleanupSubscription, GraceElapses, write_status, Subscription, Live
  <2>6. CASE ChargeCollects(s)
    BY <1>3, <2>6, CountStays DEF ChargeCollects, Subscription
  <2>7. ASSUME NEW st \in Status, ChargeUnderfunded(s, st) PROVE CountInv'
    BY <1>3, <2>7, CountStays DEF ChargeUnderfunded, write_status, Subscription
  <2>8. ASSUME NEW st \in {"Cancelled", "Expired"}, NEW left, ChargeEnds(s, st, left)
        PROVE  CountInv'
    BY <1>3, <2>8, CountStays DEF ChargeEnds, Subscription, Live
  <2> QED
    BY <1>5, <2>1, <2>2, <2>3, <2>4, <2>5, <2>6, <2>7, <2>8 DEF Life
<1>6. ASSUME NEW s \in Subs, Transfers(s) PROVE CountInv'
  <2>1. CASE VetoTransfer(s) \/ \E u \in Subscribers, t \in Deadlines : InitiateTransfer(s, u, t)
    BY <1>1, <2>1 DEF VetoTransfer, InitiateTransfer, owner_vars
  <2>2. CASE AcceptTransfer(s)
    <3> DEFINE to == intent[s].to
               o == sub[s].owner
    <3>1. /\ to \in Subscribers /\ to # o
          /\ \A v \in Subs \ {s} : sub'[v] = sub[v]
          /\ sub'[s].owner = to /\ sub'[s].status = sub[s].status
          /\ activeCount' = MovedCount(s)
      BY <1>3, <2>2
      DEF AcceptTransfer, TransferReady, MoveTo, OwnerInv, OwnerTypes, Intended,
          TransferIntent, Subscription
    <3> HIDE DEF to
    <3>2. \A w \in Subscribers \ {to} : LiveIn(sub', w) \subseteq LiveIn(sub, w)
      BY <3>1 DEF LiveIn
    <3>3. CASE sub[s].status \in Live
      <4> DEFINE f == decrement(activeCount, o)
      <4>1. /\ o \in Subscribers /\ s \in LiveIn(sub, o) \ LiveIn(sub', o)
            /\ activeCount' = increment(f, to)
        BY <1>3, <3>1, <3>3 DEF LiveIn, MovedCount, to
      <4>2. f \in [Subscribers -> Nat]
        BY <1>3, <4>1, Counting
      <4>3. \A w \in Subscribers \ {o} : f[w] = activeCount[w]
        BY <1>3, <4>1, Counting
      <4>4. f[o] >= activeCount[o] - 1
        BY <1>3, <4>1, Counting
      <4> HIDE DEF f
      <4>5. /\ activeCount' \in [Subscribers -> Nat]
            /\ \A w \in Subscribers \ {to} : activeCount'[w] = f[w]
            /\ activeCount'[to] >= f[to] + 1 \/ activeCount'[to] >= MaxCount
        BY <3>1, <4>1, <4>2, Counting
      <4>6. Kept(s, to)
        BY <3>1, <4>3, <4>5 DEF Kept
      <4>7. Kept(s, o)
        BY <3>1, <4>1, <4>4, <4>5 DEF Kept
      <4>8. ASSUME NEW w \in Subscribers \ {to, o} PROVE Kept(s, w)
        <5>1. activeCount'[w] = activeCount[w] /\ activeCount[w] \in Nat
          BY <1>3, <4>3, <4>5
        <5> QED
          BY <3>2, <5>1 DEF Kept
      <4> QED
        BY <3>1, <4>5, <4>6, <4>7, <4>8, CountOne
    <3>4. CASE sub[s].status \notin Live
      <4>1. \A w \in Subscribers : LiveIn(sub', w) \subseteq LiveIn(sub, w)
        BY <3>1, <3>4 DEF LiveIn
      <4>2. activeCount' = activeCount
        BY <3>1, <3>4 DEF MovedCount
      <4>3. \A w \in Subscribers : Kept(s, w)
        BY <1>3, <4>1, <4>2 DEF Kept
      <4> QED
        BY <1>3, <3>1, <4>2, <4>3, CountOne
    <3> QED
      BY <3>3, <3>4
  <2> QED
    BY <1>6, <2>1, <2>2 DEF Transfers
<1> QED
  BY <1>2, <1>4, <1>5, <1>6 DEF Next

\* Nobody has a live subscription at first.
LEMMA CountInit == Init => CountInv
<1> SUFFICES ASSUME Init PROVE CountInv
  OBVIOUS
<1>1. activeCount \in [Subscribers -> Nat] /\ \A u \in Subscribers : activeCount[u] = 0
  BY DEF Init
<1>2. \A u \in Subscribers : LiveIn(sub, u) = {}
  BY DEF Init, Absent, LiveIn, Live
<1> QED
  BY <1>1, <1>2, FS_EmptySet DEF CountInv

\* However subscriptions change hands, whatever their status, the counter behind
\* the active cap covers the live ones of every subscriber.
THEOREM CounterCovers == Spec => []ActiveCountCovers
<1>1. OwnerInv /\ CountInv => ActiveCountCovers
  <2> SUFFICES ASSUME CountInv, NEW u \in Subscribers
               PROVE  activeCount[u] >= Cardinality(LiveIn(sub, u))
    BY DEF ActiveCountCovers, LiveIn
  <2>1. IsFiniteSet(LiveIn(sub, u))
    BY OwnershipAssumption, FS_Subset DEF LiveIn
  <2>2. Cardinality(LiveIn(sub, u)) \in Nat /\ activeCount[u] \in Nat
    BY <2>1, FS_CardinalityType DEF CountInv
  <2>3. Cardinality(LiveIn(sub, u)) <= activeCount[u]
    BY DEF CountInv
  <2> QED
    BY <2>2, <2>3
<1> QED
  BY <1>1, OwnerInit, OwnerNext, CountInit, CountStep, PTL DEF Spec

-----------------------------------------------------------------------------
(* Redemptions. A coupon that does not exist has been used by nobody, so   *)
(* that creating it again cannot set its maximum below what is redeemed.   *)

Users(f, c) == {s \in Subs : c \in f[s]}

Counted(c) ==
    /\ redemptions[c] = Cardinality(Users(redeemed, c))
    /\ coupon[c].fixed = 0 => redemptions[c] = 0
    /\ coupon[c].max > 0 => redemptions[c] <= coupon[c].max

UsedOnce(s) == redeemed[s] = IF bound[s] = NoOne THEN {} ELSE {bound[s]}

RedemptionInv ==
    /\ redeemed \in [Subs -> SUBSET Codes]
    /\ redemptions \in [Codes -> Nat]
    /\ \A c \in Codes : Counted(c)
    /\ \A s \in Subs : UsedOnce(s)

\* A coupon that is created or revoked is used by as many as before.
LEMMA CouponWritten ==
    ASSUME OwnerInv, RedemptionInv, NEW c \in Codes, NEW k \in Coupon,
           coupon' = [coupon EXCEPT ![c] = k], UNCHANGED <<bound, redeemed, redemptions>>,
           k.fixed > 0, coupon[c].fixed = 0 \/ k.max = coupon[c].max
    PROVE  RedemptionInv'
<1>1. coupon'[c] = k /\ \A d \in Codes \ {c} : coupon'[d] = coupon[d]
  BY DEF OwnerInv, OwnerTypes
<1>2. k.fixed # 0 /\ k.max \in Nat
  BY DEF Coupon
<1>3. Counted(c)'
  BY <1>1, <1>2 DEF RedemptionInv, Counted, Users
<1>4. ASSUME NEW d \in Codes \ {c} PROVE Counted(d)'
  BY <1>1 DEF RedemptionInv, Counted, Users
<1>5. ASSUME NEW s \in Subs PROVE UsedOnce(s)'
  BY DEF RedemptionInv, UsedOnce
<1> QED
  BY <1>3, <1>4, <1>5 DEF RedemptionInv

\* Binding a coupon is one redemption by one more subscription.
LEMMA CouponApplied ==
    ASSUME OwnerInv, RedemptionInv, NEW s \in Subs, NEW c \in Codes, ApplyCoupon(s, c)
    PROVE  RedemptionInv'
<1>1. /\ redemptions' = [redemptions EXCEPT ![c] = redemptions[c] + 1]
      /\ bound' = [bound EXCEPT ![s] = c]
      /\ redeemed' = [redeemed EXCEPT ![s] = redeemed[s] \cup {c}]
      /\ coupon' = coupon /\ coupon[c].fixed > 0
      /\ coupon[c].max > 0 => redemptions[c] < coupon[c].max
      /\ c \notin redeemed[s] /\ bound[s] = NoOne
  BY DEF ApplyCoupon
<1>2. /\ redeemed \in [Subs -> SUBSET Codes] /\ redemptions \in [Codes -> Nat]
      /\ bound \in [Subs -> Codes \cup {NoOne}] /\ coupon \in [Codes -> Coupon]
  BY DEF RedemptionInv, OwnerInv, OwnerTypes
<1>3. c # NoOne
  BY NoOneAssumption
<1>4. /\ redeemed' \in [Subs -> SUBSET Codes] /\ redemptions' \in [Codes -> Nat]
      /\ redeemed'[s] = redeemed[s] \cup {c} /\ bound'[s] = c
      /\ \A t \in Subs \ {s} : redeemed'[t] = redeemed[t] /\ bound'[t] = bound[t]
      /\ redemptions'[c] = redemptions[c] + 1
      /\ \A d \in Codes \ {c} : redemptions'[d] = redemptions[d]
  BY <1>1, <1>2
<1>5. ASSUME NEW d \in Codes \ {c} PROVE Counted(d)'
  <2>1. Users(redeemed', d) = Users(redeemed, d)
    BY <1>4 DEF Users
  <2> QED
    BY <1>1, <1>4, <2>1 DEF RedemptionInv, Counted
<1>6. Counted(c)'
  <2>1. /\ Users(redeemed', c) = Users(redeemed, c) \cup {s}
        /\ s \notin Users(redeemed, c)
    BY <1>1, <1>4 DEF Users
  <2>2. IsFiniteSet(Users(redeemed, c))
    BY OwnershipAssumption, FS_Subset DEF Users
  <2>3. Cardinality(Users(redeemed', c)) = Cardinality(Users(redeemed, c)) + 1
    BY <2>1, <2>2, FS_AddElement
  <2>4. redemptions[c] = Cardinality(Users(redeemed, c)) /\ redemptions[c] \in Nat
    BY <1>2 DEF RedemptionInv, Counted
  <2>5. coupon[c].fixed # 0
    BY <1>1
  <2>6. coupon[c].max \in Nat
    BY <1>2 DEF Coupon
  <2> QED
    BY <1>1, <1>4, <2>3, <2>4, <2>5, <2>6 DEF Counted
<1>7. ASSUME NEW t \in Subs PROVE UsedOnce(t)'
  <2>1. CASE t = s
    BY <1>1, <1>3, <1>4, <2>1 DEF RedemptionInv, UsedOnce
  <2>2. CASE t # s
    BY <1>4, <2>2 DEF RedemptionInv, UsedOnce
  <2> QED
    BY <2>1, <2>2
<1> QED
  BY <1>4, <1>5, <1>6, <1>7 DEF RedemptionInv

\* Every call keeps the redemption counters exact.
LEMMA RedemptionStep == OwnerInv /\ RedemptionInv /\ [Next]_vars => RedemptionInv'
<1> SUFFICES ASSUME OwnerInv, RedemptionInv, [Next]_vars PROVE RedemptionInv'
  OBVIOUS
<1>1. CASE UNCHANGED coupon_vars
  BY <1>1 DEF coupon_vars, RedemptionInv, Counted, UsedOnce, Users
<1>2. CASE Tick \/ Delegation \/ UNCHANGED vars
  BY <1>1, <1>2
  DEF Tick, Delegation, RevokeDelegatedPayer, GrantDelegatedPayer, DepositFundsOnBehalf,
      coupon_vars, vars
<1>3. CASE \E s \in Subs : Life(s)
  BY <1>1, <1>3
  DEF Life, CreateSubscription, CancelSubscription, PauseSubscription, ResumeSubscription,
      CleanupSubscription, GraceElapses, ChargeCollects, ChargeUnderfunded, ChargeEnds
<1>4. CASE \E s \in Subs : Transfers(s)
  BY <1>1, <1>4 DEF Transfers, InitiateTransfer, AcceptTransfer, MoveTo, VetoTransfer
<1>5. ASSUME NEW c \in Codes, NEW choice \in CouponChoices, NEW t \in Deadlines,
             CreateCoupon(c, choice, t)
      PROVE  RedemptionInv'
  <2> DEFINE k == [percent |-> choice.percent, fixed |-> choice.fixed,
                   max |-> choice.max, expiresAt |-> t, revoked |-> FALSE]
  <2>1. /\ choice.percent \in 0..10000 /\ choice.fixed \in Nat /\ choice.max \in Nat
        /\ t \in Nat
    BY OwnershipAssumption
  <2>2. k \in Coupon /\ k.fixed = choice.fixed
    BY <2>1 DEF Coupon
  <2>3. /\ coupon[c].fixed = 0 /\ choice.fixed > 0
        /\ coupon' = [coupon EXCEPT ![c] = k]
        /\ UNCHANGED <<bound, redeemed, redemptions>>
    BY <1>5 DEF CreateCoupon
  <2> HIDE DEF k
  <2> QED
    BY <2>2, <2>3, CouponWritten
<1>6. ASSUME NEW c \in Codes, RevokeCoupon(c) PROVE RedemptionInv'
  <2> DEFINE Yes == TRUE
             k == [coupon[c] EXCEPT !.revoked = Yes]
  <2>1. coupon[c] \in Coupon
    BY DEF OwnerInv, OwnerTypes
  <2>2. k \in Coupon
    BY <2>1, CouponFields
  <2> HIDE DEF Yes
  <2>3. k.fixed = coupon[c].fixed /\ k.max = coupon[c].max
    BY <2>1 DEF Coupon
  <2>4. /\ coupon[c].fixed > 0 /\ coupon' = [coupon EXCEPT ![c] = k]
        /\ UNCHANGED <<bound, redeemed, redemptions>>
    BY <1>6 DEF RevokeCoupon, Yes
  <2> HIDE DEF k
  <2> QED
    BY <2>2, <2>3, <2>4, CouponWritten
<1> QED
  BY <1>2, <1>3, <1>4, <1>5, <1>6, CouponApplied DEF Next, Discounts

\* Nothing is redeemed at first.
LEMMA RedemptionInit == Init => RedemptionInv
<1> SUFFICES ASSUME Init PROVE RedemptionInv
  OBVIOUS
<1>1. /\ redeemed = [s \in Subs |-> {}] /\ redemptions = [c \in Codes |-> 0]
      /\ bound = [s \in Subs |-> NoOne] /\ coupon = [c \in Codes |-> NoCoupon]
  BY DEF Init
<1>2. ASSUME NEW c \in Codes PROVE Counted(c)
  <2>1. Users(redeemed, c) = {}
    BY <1>1 DEF Users
  <2>2. coupon[c].max = 0 /\ redemptions[c] = 0
    BY <1>1 DEF NoCoupon
  <2> QED
    BY <2>1, <2>2, FS_EmptySet DEF Counted
<1>3. \A s \in Subs : UsedOnce(s)
  BY <1>1 DEF UsedOnce
<1> QED
  BY <1>1, <1>2, <1>3 DEF RedemptionInv

\* A coupon's counter is the number of subscriptions that have used it, and each
\* subscription has used one at most.
THEOREM RedemptionsCounted == Spec => []RedemptionsExact
<1>1. RedemptionInv => RedemptionsExact
  BY DEF RedemptionInv, Counted, UsedOnce, Users, RedemptionsExact
<1> QED
  BY <1>1, OwnerInit, OwnerNext, RedemptionInit, RedemptionStep, PTL DEF Spec

-----------------------------------------------------------------------------
(* Types.                                                                  *)

\* Every key keeps its type: no charge, whatever the coupon, and no deposit takes
\* a prepaid balance below zero.
THEOREM OwnershipTyped == Spec => []TypeOK
<1>1. Init => now \in 0..MaxTime
  BY OwnershipAssumption DEF Init
<1>2. now \in 0..MaxTime /\ [Next]_vars => (now \in 0..MaxTime)'
  <2> SUFFICES ASSUME now \in 0..MaxTime, [Next]_vars PROVE now' \in 0..MaxTime
    OBVIOUS
  <2>1. CASE Tick
    BY <2>1, OwnershipAssumption DEF Tick
  <2>2. CASE UNCHANGED now
    BY <2>2
  <2>3. CASE \E s \in Subs : Life(s) \/ Transfers(s)
    BY <2>2, <2>3
    DEF Life, CreateSubscription, CancelSubscription, PauseSubscription, ResumeSubscription,
        CleanupSubscription, GraceElapses, ChargeCollects, ChargeUnderfunded, ChargeEnds,
        Transfers, InitiateTransfer, AcceptTransfer, MoveTo, VetoTransfer
  <2>4. CASE Delegation \/ Discounts
    BY <2>2, <2>4
    DEF Delegation, RevokeDelegatedPayer, GrantDelegatedPayer, DepositFundsOnBehalf,
        Discounts, CreateCoupon, RevokeCoupon, ApplyCoupon
  <2> QED
    BY <2>1, <2>2, <2>3, <2>4 DEF Next, vars
<1>3. now \in 0..MaxTime /\ OwnerInv /\ CountInv /\ PayerInv /\ RedemptionInv => TypeOK
  BY DEF OwnerInv, OwnerTypes, CountInv, PayerInv, RedemptionInv, TypeOK
<1> QED
  BY <1>1, <1>2, <1>3, OwnerInit, OwnerNext, CountInit, CountStep, PayerInit, PayerNext,
     RedemptionInit, RedemptionStep, PTL DEF Spec

-----------------------------------------------------------------------------
(* Ownership implements Lifecycle.                                         *)

\* Every status moves as Lifecycle allows.
StatusesMove == \A t \in Subs : Observed!Allowed(sub[t].status, sub'[t].status)

\* The write of one record, whose status moves as Lifecycle allows.
LEMMA OneMoves ==
    ASSUME OwnerInv, NEW s \in Subs, NEW r, sub' = [sub EXCEPT ![s] = r],
           Observed!Allowed(sub[s].status, r.status)
    PROVE  StatusesMove
<1>1. sub' = [t \in Subs |-> IF t = s THEN r ELSE sub[t]]
  BY DEF OwnerInv, OwnerTypes
<1> QED
  BY <1>1 DEF StatusesMove, Observed!Allowed

\* The write of a status, and of a prepaid balance with it.
LEMMA StatusMoves ==
    ASSUME OwnerInv, NEW s \in Subs, NEW st, Observed!Allowed(sub[s].status, st),
           \/ write_status(s, st)
           \/ \E p : sub' = [sub EXCEPT ![s].status = st, ![s].prepaid = p]
    PROVE  StatusesMove
<1>1. sub[s] \in Subscription /\ sub \in [Subs -> Subscription]
  BY DEF OwnerInv, OwnerTypes
<1>2. CASE write_status(s, st)
  <2>1. sub' = [sub EXCEPT ![s] = [sub[s] EXCEPT !.status = st]]
    BY <1>2 DEF write_status
  <2>2. [sub[s] EXCEPT !.status = st].status = st
    BY <1>1 DEF Subscription
  <2> QED
    BY <2>1, <2>2, OneMoves
<1>3. ASSUME NEW p, sub' = [sub EXCEPT ![s].status = st, ![s].prepaid = p]
      PROVE  StatusesMove
  <2>1. sub' = [sub EXCEPT ![s] = [sub[s] EXCEPT !.status = st, !.prepaid = p]]
    BY <1>1, <1>3 DEF Subscription
  <2>2. [sub[s] EXCEPT !.status = st, !.prepaid = p].status = st
    BY <1>1 DEF Subscription
  <2> QED
    BY <2>1, <2>2, OneMoves
<1> QED
  BY <1>2, <1>3

\* An edge of the state machine is allowed, and so is a collected charge or
\* deposit that makes a live subscription Active.
LEMMA EdgesAllowed ==
    /\ \A from \in Status : \A to : can_transition(from, to) => Observed!Allowed(from, to)
    /\ \A from \in Live : Observed!Allowed(from, "Active")
    /\ \A from : Observed!Allowed(from, from)
    /\ Observed!Allowed("Absent", "Active")
    /\ Observed!Allowed("GracePeriod", "InsufficientBalance")
    /\ \A from : can_transition(from, "Expired") \/ from = "Cancelled"
                     => Observed!Allowed(from, "Archived")
BY DEF can_transition, get_allowed_transitions, Observed!Allowed, Observed!can_transition,
       Observed!get_allowed_transitions, Live, Status

\* Every call moves statuses as Lifecycle allows.
LEMMA OwnersMove ==
    ASSUME OwnerInv, [Next]_vars
    PROVE  StatusesMove
<1>1. CASE UNCHANGED sub
  BY <1>1, EdgesAllowed DEF StatusesMove
<1>2. ASSUME NEW s \in Subs, Exists(s)
      PROVE  sub[s] \in Subscription /\ sub[s].status \in Status
  BY <1>2 DEF Exists, OwnerInv, OwnerTypes, Subscription
<1>3. ASSUME NEW s \in Subs, Life(s) PROVE StatusesMove
  <2>1. ASSUME NEW u \in Subscribers, NEW t \in ExpiryChoices, CreateSubscription(s, u, t)
        PROVE  StatusesMove
    <3> DEFINE r == [owner |-> u, status |-> "Active", prepaid |-> 0, expiresAt |-> t]
    <3>1. sub' = [sub EXCEPT ![s] = r] /\ sub[s].status = "Absent"
      BY <2>1 DEF CreateSubscription, Exists
    <3>2. r.status = "Active"
      OBVIOUS
    <3> HIDE DEF r
    <3> QED
      BY <3>1, <3>2, OneMoves, EdgesAllowed
  <2>2. CASE CancelSubscription(s)
    BY <1>2, <2>2, StatusMoves, EdgesAllowed DEF CancelSubscription
  <2>3. CASE PauseSubscription(s)
    BY <1>2, <2>3, StatusMoves, EdgesAllowed DEF PauseSubscription
  <2>4. CASE ResumeSubscription(s)
    BY <1>2, <2>4, StatusMoves, EdgesAllowed DEF ResumeSubscription
  <2>5. CASE CleanupSubscription(s)
    <3>1. \/ can_transition(sub[s].status, "Expired") \/ sub[s].status = "Cancelled"
          \/ sub[s].status = "Expired"
      BY <2>5 DEF CleanupSubscription
    <3>2. can_transition("Expired", "Expired")
      BY DEF can_transition
    <3>3. Observed!Allowed(sub[s].status, "Archived")
      BY <1>2, <3>1, <3>2, EdgesAllowed
    <3> QED
      BY <2>5, <3>3, StatusMoves DEF CleanupSubscription
  <2>6. CASE GraceElapses(s)
    BY <2>6, StatusMoves, EdgesAllowed DEF GraceElapses
  <2>7. CASE ChargeCollects(s)
    <3>1. Observed!Allowed(sub[s].status, "Active")
      BY <2>7, EdgesAllowed DEF ChargeCollects
    <3>2. PICK p : p = sub[s].prepaid - Payable(s)
      OBVIOUS
    <3>3. sub' = [sub EXCEPT ![s].prepaid = p, ![s].status = "Active"]
      BY <2>7, <3>2 DEF ChargeCollects, OwnerInv, OwnerTypes, Subscription
    <3>4. sub' = [sub EXCEPT ![s].status = "Active", ![s].prepaid = p]
      BY <3>3 DEF OwnerInv, OwnerTypes, Subscription
    <3> QED
      BY <3>1, <3>4, StatusMoves
  <2>8. ASSUME NEW st \in Status, ChargeUnderfunded(s, st) PROVE StatusesMove
    <3>1. sub[s].status \in Status
      BY <2>8 DEF ChargeUnderfunded, Live, Status
    <3> QED
      BY <2>8, <3>1, StatusMoves, EdgesAllowed DEF ChargeUnderfunded
  <2>9. ASSUME NEW st, NEW left, ChargeEnds(s, st, left) PROVE StatusesMove
    BY <1>2, <2>9, StatusMoves, EdgesAllowed DEF ChargeEnds
  <2> QED
    BY <1>3, <2>1, <2>2, <2>3, <2>4, <2>5, <2>6, <2>7, <2>8, <2>9 DEF Life
<1>4. ASSUME NEW s \in Subs, Transfers(s) PROVE StatusesMove
  <2>1. CASE AcceptTransfer(s)
    <3>1. sub' = [sub EXCEPT ![s] = [sub[s] EXCEPT !.owner = intent[s].to]]
      BY <2>1 DEF AcceptTransfer, MoveTo
    <3>2. [sub[s] EXCEPT !.owner = intent[s].to].status = sub[s].status
      BY DEF OwnerInv, OwnerTypes, Subscription
    <3> QED
      BY <3>1, <3>2, OneMoves, EdgesAllowed
  <2>2. CASE VetoTransfer(s) \/ \E u \in Subscribers, t \in Deadlines : InitiateTransfer(s, u, t)
    BY <1>1, <2>2 DEF VetoTransfer, InitiateTransfer, owner_vars
  <2> QED
    BY <1>4, <2>1, <2>2 DEF Transfers
<1>5. ASSUME NEW s \in Subs, NEW p \in Payers, NEW a \in DepositAmounts, DepositFundsOnBehalf(s, p, a)
      PROVE  StatusesMove
  <2> DEFINE recovers == /\ sub[s].status \in {"InsufficientBalance", "GracePeriod"}
                         /\ sub[s].prepaid + a >= Amount
             st == IF recovers THEN "Active" ELSE sub[s].status
             r == [sub[s] EXCEPT !.prepaid = sub[s].prepaid + a, !.status = st]
  <2>1. sub[s] \in Subscription /\ sub \in [Subs -> Subscription]
    BY DEF OwnerInv, OwnerTypes
  <2>2. sub' = [sub EXCEPT ![s].prepaid = @ + a,
                           ![s].status = IF recovers THEN "Active" ELSE @]
    BY <1>5 DEF DepositFundsOnBehalf, DepositsOnBehalf
  <2>3. sub' = [sub EXCEPT ![s] = r]
    BY <2>1, <2>2 DEF Subscription
  <2>4. Observed!Allowed(sub[s].status, st)
    BY EdgesAllowed DEF Live
  <2> HIDE DEF st
  <2>5. r.status = st
    BY <2>1 DEF Subscription
  <2> HIDE DEF r
  <2> QED
    BY <2>3, <2>4, <2>5, OneMoves
<1>6. CASE Delegation
  <2>1. CASE \E p \in Payers, s \in Subs, a \in DepositAmounts : DepositFundsOnBehalf(s, p, a)
    BY <1>5, <2>1
  <2>2. CASE \E p \in Payers, u \in Subscribers :
                \/ RevokeDelegatedPayer(u, p)
                \/ \E a \in GrantAmounts, t \in Deadlines : GrantDelegatedPayer(u, p, a, t)
    BY <1>1, <2>2 DEF RevokeDelegatedPayer, GrantDelegatedPayer, owner_vars
  <2> QED
    BY <1>6, <2>1, <2>2 DEF Delegation
<1>7. CASE Discounts
  BY <1>1, <1>7 DEF Discounts, CreateCoupon, RevokeCoupon, ApplyCoupon, owner_vars
<1>8. CASE Tick \/ UNCHANGED vars
  BY <1>1, <1>8 DEF Tick, vars, owner_vars
<1> QED
  BY <1>3, <1>4, <1>6, <1>7, <1>8 DEF Next

\* Ownership implements Lifecycle: transfers, deposits on behalf, coupons and
\* charges in any order move each subscription's status along edges of the state
\* machine, and an archived subscription that changes hands stays archived.
THEOREM OwnedLifecycle == Spec => StatusRefined
<1> DEFINE view == [s \in Subs |-> sub[s].status]
<1>1. Init => Observed!Init
  BY DEF Init, Observed!Init, Absent
<1>2. OwnerInv /\ OwnerInv' /\ [Next]_vars => [Observed!Next]_view
  <2> SUFFICES ASSUME OwnerInv, OwnerInv', [Next]_vars PROVE Observed!Next
    OBVIOUS
  <2>1. \A s \in Subs : sub'[s].status \in Status \cup {"Absent"}
    BY DEF OwnerInv, OwnerTypes, Subscription
  <2>2. \A s \in Subs : Observed!Allowed(view[s], view'[s])
    BY OwnersMove DEF StatusesMove
  <2> QED
    BY <2>1, <2>2 DEF Observed!Next, Observed!Status, Status
<1> QED
  BY <1>1, <1>2, OwnerInit, OwnerNext, PTL DEF Spec, StatusRefined, Observed!Spec
=============================================================================
