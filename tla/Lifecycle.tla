------------------------------ MODULE Lifecycle ------------------------------
(***************************************************************************)
(* What the vault promises about the status of a subscription: it is born  *)
(* Active, and every change an observer sees is an edge of the state       *)
(* machine or the archival of an expired subscription, which takes the     *)
(* edges to Expired and on to Archived in one call.                        *)
(***************************************************************************)
EXTENDS StateMachine

CONSTANT Subs

VARIABLE status   \* what get_subscription returns for each id

Init == status = [s \in Subs |-> "Absent"]

Allowed(from, to) ==
    \/ from = to
    \/ from = "Absent" /\ to = "Active"
    \/ from # "Absent" /\ can_transition(from, to)
    \/ to = "Archived" /\ <<from, "Expired">> \in get_allowed_transitions

\* Time alone may move several subscriptions in one step.
Next ==
    /\ status' \in [Subs -> Status \cup {"Absent"}]
    /\ \A s \in Subs : Allowed(status[s], status'[s])

Spec == Init /\ [][Next]_status
=============================================================================
