---------------------------- MODULE StateMachine ----------------------------
(***************************************************************************)
(* The status lattice of a subscription (state_machine.rs): the statuses,  *)
(* the edges get_allowed_transitions lists, and the test can_transition    *)
(* that every status write of the contract goes through.                   *)
(***************************************************************************)

Status == {"Active", "Paused", "Cancelled", "InsufficientBalance",
           "GracePeriod", "Expired", "Archived"}

get_allowed_transitions ==
      ({"Active"} \X {"Paused", "Cancelled", "InsufficientBalance",
                      "GracePeriod", "Expired"})
 \cup ({"Paused"} \X {"Active", "Cancelled", "Expired"})
 \cup ({"InsufficientBalance"} \X {"Active", "Cancelled", "Expired", "Paused"})
 \cup ({"GracePeriod"} \X {"Active", "Cancelled", "InsufficientBalance", "Expired"})
 \cup ({"Cancelled", "Expired"} \X {"Archived"})

\* Re-entering the current status is always allowed (idempotent calls).
can_transition(from, to) == from = to \/ <<from, to>> \in get_allowed_transitions

\* The statuses no charge, pause or resume leads out of.
Terminal == {"Cancelled", "Expired", "Archived"}
=============================================================================
