---------------------------- MODULE Arbitration ----------------------------
(***************************************************************************)
(* What the contract promises to both sides of a dispute. Its terms never  *)
(* change; a subscription has one undecided dispute at most, whose whole   *)
(* amount is held until it is decided and released in the same step; a     *)
(* decision is final, and only an answered dispute may go to the merchant. *)
(***************************************************************************)
CONSTANTS
    Ids,        \* what disputes are known by
    Subs,       \* what there may be a dispute about
    Merchants, Amounts,
    Nobody      \* in place of an id, where nothing is disputed

VARIABLES
    claims,     \* of each dispute opened so far: about what, with whom, how much
    current,    \* of each subscription: the dispute that is undecided
    answered,   \* the undecided disputes the merchant has answered
    verdict,    \* of each decided dispute: who won
    held        \* by dispute id

vars == <<claims, current, answered, verdict, held>>

With(f, d, x) == [i \in DOMAIN f \cup {d} |-> IF i = d THEN x ELSE f[i]]
Nothing == [i \in {} |-> Nobody]

Init ==
    /\ claims = Nothing /\ verdict = Nothing /\ answered = {}
    /\ current = [s \in Subs |-> Nobody] /\ held = [d \in Ids |-> 0]

Open(s, d) ==
    /\ current[s] = Nobody /\ d \notin DOMAIN claims
    /\ current' = [current EXCEPT ![s] = d] /\ UNCHANGED <<answered, verdict>>
    /\ \E m \in Merchants, a \in Amounts \ {0} :
          /\ claims' = With(claims, d, [sub |-> s, merchant |-> m, amount |-> a])
          /\ held' = [held EXCEPT ![d] = a]

Answer(s) ==
    /\ current[s] # Nobody /\ current[s] \notin answered
    /\ answered' = answered \cup {current[s]}
    /\ UNCHANGED <<claims, current, verdict, held>>

Decide(s, winner) ==
    /\ current[s] # Nobody /\ current' = [current EXCEPT ![s] = Nobody]
    /\ current[s] \notin DOMAIN verdict /\ verdict' = With(verdict, current[s], winner)
    /\ winner = "merchant" => current[s] \in answered
    /\ answered' = answered \ {current[s]}
    /\ held[current[s]] = claims[current[s]].amount
    /\ held' = [held EXCEPT ![current[s]] = 0]
    /\ UNCHANGED claims

Next == \E s \in Subs : \/ \E d \in Ids : Open(s, d)
                        \/ Answer(s)
                        \/ \E winner \in {"merchant", "subscriber"} : Decide(s, winner)

Spec == Init /\ [][Next]_vars
=============================================================================
