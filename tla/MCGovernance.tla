---------------------------- MODULE MCGovernance ----------------------------
(***************************************************************************)
(* Instances of Governance for model checking.                             *)
(***************************************************************************)
EXTENDS Governance

CONSTANTS alice, bob, usdc, eurc, rescue

\* Operations that proposals ask for.
StopAll == Operation("EmergencyStop", alice, None, 1)
HandToBob == Operation("RotateAdmin", bob, None, 0)
Anything == {StopAll, HandToBob,
             Operation("EmergencyStop", alice, None, 0),
             Operation("AddAcceptedToken", eurc, None, 0),
             Operation("RecoverStrandedFunds", bob, usdc, 1),
             Operation("SetProtocolFee", alice, bob, 100)}
Slack == {-1, 0}

\* Two proposals are followed where they are about the emergency stop and the
\* admin role, and nothing else is under way; every operation, in a proposal
\* of its own.
PairsOfInterest ==
    nextId = 2 => /\ \A p \in DOMAIN proposal : proposal[p].op \in {StopAll, HandToBob}
                  /\ queued = NoChange /\ tokens[eurc] = None /\ recovered = {}
                  /\ config.fee = 0
=============================================================================
