------------------------------ MODULE Mandate ------------------------------
(***************************************************************************)
(* What the contract promises about the proposals put to its admin: each   *)
(* keeps the terms it was submitted with, is closed at most once, and is   *)
(* void as soon as the office changes hands, in whichever way, unless that *)
(* very proposal brought the change about and is closed by it. Nothing     *)
(* void or closed is ever pending again.                                   *)
(***************************************************************************)
CONSTANTS
    Ids,        \* what proposals are known by
    Holders,    \* who may hold the office
    Terms       \* what a proposal may ask for, and under which conditions

VARIABLES
    holder,     \* who holds the office
    terms,      \* of each proposal submitted so far
    pending,    \* the proposals that can still be executed
    closed      \* those executed or withdrawn; the others are void

vars == <<holder, terms, pending, closed>>

Init ==
    /\ holder \in Holders
    /\ terms = [p \in {} |-> "none"] /\ pending = {} /\ closed = {}

Submit(p) ==
    /\ p \notin DOMAIN terms
    /\ pending' = pending \cup {p} /\ UNCHANGED <<holder, closed>>
    /\ \E t \in Terms :
          terms' = [q \in DOMAIN terms \cup {p} |-> IF q = p THEN t ELSE terms[q]]

\* A void proposal can still be withdrawn.
Close(p) ==
    /\ p \in DOMAIN terms \ closed
    /\ pending' = pending \ {p} /\ closed' = closed \cup {p}
    /\ UNCHANGED <<holder, terms>>

\* At most one proposal, a pending one, hands the office over.
Succeed ==
    /\ pending' = {} /\ holder' \in Holders
    /\ closed' = closed \/ \E p \in pending : closed' = closed \cup {p}
    /\ UNCHANGED terms

Next == Succeed \/ \E p \in Ids : Submit(p) \/ Close(p)

Spec == Init /\ [][Next]_vars
=============================================================================
