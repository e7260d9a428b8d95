-------------------------- MODULE GovernanceProofs --------------------------
(***************************************************************************)
(* Proofs about Governance, for every set of addresses, operations,        *)
(* weights and delays: votes do not outlive the admin who cast them, every *)
(* change of the admin invalidates what was submitted before it, and no    *)
(* change of the administration happens without something that backs it.   *)
(***************************************************************************)
EXTENDS Governance, Sums

\* The types the argument needs.
ProposalTypes ==
    /\ now \in Nat /\ admin \in Addresses
    /\ nextId \in Nat /\ cutoff \in 0..nextId
    /\ proposal \in [0..(nextId - 1) -> Proposal]
    /\ handover # NoHandover => handover.to \in Addresses

\* The inductive invariant.
VoteInv == ProposalTypes /\ VotesAreAdmins

\* Marking a proposal as executed, or replacing its votes, yields a proposal.
LEMMA ProposalUpdate ==
    ASSUME NEW r \in Proposal, NEW v \in [Addresses -> Ballots]
    PROVE  /\ [r EXCEPT !.executed = TRUE] \in Proposal
           /\ [r EXCEPT !.executed = TRUE].votes = r.votes
           /\ [r EXCEPT !.votes = v] \in Proposal
           /\ [r EXCEPT !.votes = v].votes = v
<1> DEFINE Q == 0..Whole
           V == [Addresses -> Ballots]
           B == BOOLEAN
           x == TRUE
<1>1. Proposal = [op : Operations, quorum : Q, votes : V, eta : Nat, submitted : Nat, executed : B]
  BY DEF Proposal
<1>2. x \in B /\ v \in V
  OBVIOUS
<1> HIDE DEF Q, V, B, x
<1>3. /\ [r EXCEPT !.executed = x] \in Proposal
      /\ [r EXCEPT !.executed = x].votes = r.votes
  BY <1>1, <1>2
<1>4. /\ [r EXCEPT !.votes = v] \in Proposal
      /\ [r EXCEPT !.votes = v].votes = v
  BY <1>1, <1>2
<1> QED
  BY <1>3, <1>4, Zenon DEF x

\* The first half, for a proposal with any votes.
LEMMA ProposalMarked ==
    ASSUME NEW r \in Proposal
    PROVE  /\ [r EXCEPT !.executed = TRUE] \in Proposal
           /\ [r EXCEPT !.executed = TRUE].votes = r.votes
<1>1. r.votes \in [Addresses -> Ballots]
  BY DEF Proposal
<1> QED
  BY <1>1, ProposalUpdate, Zenon

\* The vault starts without proposals.
LEMMA VoteInit == Init => VoteInv
<1> SUFFICES ASSUME Init PROVE VoteInv
  OBVIOUS
<1>1. nextId = 0 /\ 0..(nextId - 1) = {} /\ DOMAIN proposal = {}
  BY DEF Init
<1>2. proposal \in [0..(nextId - 1) -> Proposal]
  BY <1>1 DEF Init
<1>3. ProposalTypes
  BY <1>1, <1>2, GovernanceAssumption DEF Init, ProposalTypes
<1>4. VotesAreAdmins
  BY <1>1 DEF VotesAreAdmins
<1> QED
  BY <1>3, <1>4 DEF VoteInv

\* A step that leaves the proposals, the admin and the hand-over alone.
LEMMA OutsideProposals ==
    ASSUME VoteInv, UNCHANGED <<admin, nextId, proposal, cutoff, handover>>, now' \in Nat
    PROVE  VoteInv'
BY DEF VoteInv, ProposalTypes, VotesAreAdmins

\* Setting a proposal's executed flag changes no vote.
LEMMA MarkStep ==
    ASSUME VoteInv, NEW p \in DOMAIN proposal, MarkExecuted(p),
           UNCHANGED <<now, admin, nextId, cutoff, handover>>
    PROVE  VoteInv'
<1>1. DOMAIN proposal = 0..(nextId - 1) /\ proposal[p] \in Proposal
  BY DEF VoteInv, ProposalTypes
<1>2. /\ [proposal[p] EXCEPT !.executed = TRUE] \in Proposal
      /\ [proposal[p] EXCEPT !.executed = TRUE].votes = proposal[p].votes
  BY <1>1, ProposalMarked
<1>3. proposal' \in [0..(nextId - 1) -> Proposal]
  BY <1>1, <1>2 DEF MarkExecuted, VoteInv, ProposalTypes
<1>4. DOMAIN proposal' = DOMAIN proposal
  BY <1>1, <1>3
<1>5. \A q \in DOMAIN proposal : proposal'[q].votes = proposal[q].votes
  BY <1>1, <1>2 DEF MarkExecuted
<1> QED
  BY <1>3, <1>4, <1>5 DEF VoteInv, ProposalTypes, VotesAreAdmins

\* A change of the admin that moves the cutoff to the next id leaves no
\* proposal that can still be executed.
LEMMA HandOverStep ==
    ASSUME VoteInv, NEW a \in Addresses, admin' = a, cutoff' = nextId, UNCHANGED <<now, nextId>>,
           proposal' \in [0..(nextId - 1) -> Proposal],
           handover' = handover \/ handover' = NoHandover
    PROVE  VoteInv'
<1>1. ProposalTypes'
  BY DEF VoteInv, ProposalTypes
<1>2. \A p \in DOMAIN proposal' : p < cutoff'
  BY DEF VoteInv, ProposalTypes
<1>3. VotesAreAdmins'
  <2> SUFFICES ASSUME NEW p \in DOMAIN proposal', p >= cutoff' PROVE FALSE
    BY DEF VotesAreAdmins
  <2>1. p \in Int /\ nextId \in Nat
    BY DEF VoteInv, ProposalTypes
  <2> QED
    BY <1>2, <2>1
<1> QED
  BY <1>1, <1>3 DEF VoteInv

\* submit_proposal: the new proposal has no votes.
LEMMA SubmitStep ==
    ASSUME VoteInv, NEW op \in Operations, NEW quorum \in Nat, NEW eta \in Int,
           SubmitProposal(op, quorum, eta)
    PROVE  VoteInv'
<1> DEFINE new == [op |-> op, quorum |-> quorum, votes |-> [a \in Addresses |-> "none"],
                   eta |-> eta, submitted |-> now, executed |-> FALSE]
<1>1. nextId \in Nat /\ nextId' = nextId + 1 /\ now \in Nat /\ DOMAIN proposal = 0..(nextId - 1)
  BY DEF SubmitProposal, VoteInv, ProposalTypes
<1>2. eta \in Nat
  BY <1>1, GovernanceAssumption DEF SubmitProposal
<1>3. quorum \in 0..Whole
  BY DEF SubmitProposal
<1>4. [a \in Addresses |-> "none"] \in [Addresses -> Ballots]
  BY DEF Ballots
<1>5. new \in Proposal
  BY <1>1, <1>2, <1>3, <1>4 DEF Proposal
<1>6. proposal' = [p \in 0..nextId |-> IF p = nextId THEN new ELSE proposal[p]]
  BY DEF SubmitProposal
<1>7. \A a \in Addresses : new.votes[a] = "none"
  OBVIOUS
<1> HIDE DEF new
<1>8. \A p \in 0..nextId : p = nextId \/ p \in 0..(nextId - 1)
  BY <1>1
<1>9. proposal' \in [0..(nextId' - 1) -> Proposal]
  <2>1. 0..(nextId' - 1) = 0..nextId
    BY <1>1
  <2>2. \A p \in 0..nextId : (IF p = nextId THEN new ELSE proposal[p]) \in Proposal
    BY <1>5, <1>8 DEF VoteInv, ProposalTypes
  <2> QED
    BY <1>6, <2>1, <2>2
<1>10. VotesAreAdmins'
  <2>1. DOMAIN proposal' = 0..nextId /\ UNCHANGED <<cutoff, admin>>
    BY <1>6 DEF SubmitProposal
  <2> SUFFICES ASSUME NEW p \in 0..nextId, p >= cutoff, NEW a \in Addresses,
                      proposal'[p].votes[a] # "none"
               PROVE  a = admin
    BY <2>1 DEF VotesAreAdmins
  <2>2. p # nextId
    BY <1>6, <1>7
  <2>3. p \in DOMAIN proposal /\ proposal'[p] = proposal[p]
    BY <1>1, <1>6, <1>8, <2>2
  <2> QED
    BY <2>3 DEF VoteInv, VotesAreAdmins
<1>11. ProposalTypes'
  <2>1. UNCHANGED <<now, admin, cutoff, handover>>
    BY DEF SubmitProposal
  <2>2. cutoff \in 0..nextId' /\ nextId' \in Nat
    BY <1>1 DEF VoteInv, ProposalTypes
  <2> QED
    BY <1>9, <2>1, <2>2 DEF VoteInv, ProposalTypes
<1> QED
  BY <1>10, <1>11 DEF VoteInv

\* vote_proposal: the vote that is written is the admin's.
LEMMA VoteStep ==
    ASSUME VoteInv, NEW p \in DOMAIN proposal, NEW ballot \in {"yes", "no"},
           VoteProposal(p, ballot)
    PROVE  VoteInv'
<1>1. DOMAIN proposal = 0..(nextId - 1) /\ proposal[p] \in Proposal /\ admin \in Addresses
  BY DEF VoteInv, ProposalTypes
<1>2. proposal[p].votes \in [Addresses -> Ballots]
  BY <1>1 DEF Proposal
<1> DEFINE cast == [proposal[p].votes EXCEPT ![admin] = ballot]
<1>3. cast \in [Addresses -> Ballots]
  BY <1>2 DEF Ballots
<1>4. \A a \in Addresses : a # admin => cast[a] = proposal[p].votes[a]
  BY <1>2
<1>5. proposal' = [proposal EXCEPT ![p] = [proposal[p] EXCEPT !.votes = cast]]
  BY <1>1 DEF VoteProposal
<1> HIDE DEF cast
<1>7. /\ [proposal[p] EXCEPT !.votes = cast] \in Proposal
      /\ [proposal[p] EXCEPT !.votes = cast].votes = cast
  BY <1>1, <1>3, ProposalUpdate
<1>8. proposal' \in [0..(nextId - 1) -> Proposal] /\ DOMAIN proposal' = DOMAIN proposal
  BY <1>1, <1>5, <1>7 DEF VoteInv, ProposalTypes
<1>9. ProposalTypes'
  BY <1>8 DEF VoteProposal, VoteInv, ProposalTypes
<1>10. VotesAreAdmins'
  <2> SUFFICES ASSUME NEW q \in DOMAIN proposal, q >= cutoff, NEW a \in Addresses, a # admin
               PROVE  proposal'[q].votes[a] = "none"
    BY <1>8 DEF VotesAreAdmins, VoteProposal
  <2>1. proposal[q].votes[a] = "none"
    BY DEF VoteInv, VotesAreAdmins
  <2>2. CASE q = p
    BY <1>4, <1>5, <1>7, <2>1, <2>2
  <2>3. CASE q # p
    BY <1>5, <2>1, <2>3
  <2> QED
    BY <2>2, <2>3
<1> QED
  BY <1>9, <1>10 DEF VoteInv

\* execute_proposal: either the admin stays, or the cutoff moves.
LEMMA ExecuteStep ==
    ASSUME VoteInv, NEW p \in DOMAIN proposal, ExecuteProposal(p)
    PROVE  VoteInv' /\ (admin' # admin => cutoff' = nextId)
<1>1. proposal[p] \in Proposal
  BY DEF VoteInv, ProposalTypes
<1>2. proposal[p].op.target \in Addresses
  BY <1>1, GovernanceAssumption DEF Proposal
<1>3. MarkExecuted(p) /\ UNCHANGED <<now, nextId, handover>>
  BY DEF ExecuteProposal
<1>4. CASE proposal[p].op.kind = "RotateAdmin"
  <2>1. admin' = proposal[p].op.target /\ cutoff' = nextId
    BY <1>4 DEF ExecuteProposal
  <2>2. [proposal[p] EXCEPT !.executed = TRUE] \in Proposal
    BY <1>1, ProposalMarked
  <2>3. proposal' \in [0..(nextId - 1) -> Proposal]
    BY <1>3, <2>2 DEF MarkExecuted, VoteInv, ProposalTypes
  <2> QED
    BY <1>2, <1>3, <2>1, <2>3, HandOverStep
<1>5. CASE proposal[p].op.kind # "RotateAdmin"
  <2>1. UNCHANGED <<admin, cutoff>>
    BY <1>5 DEF ExecuteProposal
  <2> QED
    BY <1>3, <2>1, MarkStep
<1> QED
  BY <1>4, <1>5

\* consume_multisig_proposal marks at most one proposal.
LEMMA ConsumeStep ==
    ASSUME VoteInv, NEW id, Consume(id), UNCHANGED <<now, admin, nextId, cutoff, handover>>
    PROVE  VoteInv'
<1>1. CASE UNCHANGED proposal
  BY <1>1, OutsideProposals DEF VoteInv, ProposalTypes
<1>2. CASE Executable(id) /\ MarkExecuted(id)
  BY <1>2, MarkStep DEF Executable
<1> QED
  BY <1>1, <1>2 DEF Consume

\* Every call preserves the invariant, and one that changes the admin moves the
\* cutoff past every proposal.
LEMMA VoteNext ==
    ASSUME VoteInv, [Next]_vars
    PROVE  VoteInv' /\ (admin' # admin => cutoff' = nextId /\ nextId' = nextId)
<1>1. CASE Governing
  <2>1. CASE \E op \in Operations, q \in Quorums, slack \in EtaSlack :
                 SubmitProposal(op, q, now + Delay + slack)
    <3>1. PICK op \in Operations, q \in Quorums, slack \in EtaSlack :
              SubmitProposal(op, q, now + Delay + slack)
      BY <2>1
    <3>2. q \in Nat /\ now + Delay + slack \in Int
      BY GovernanceAssumption DEF VoteInv, ProposalTypes
    <3>3. admin' = admin
      BY <3>1 DEF SubmitProposal
    <3> QED
      BY <3>1, <3>2, <3>3, SubmitStep
  <2>2. ASSUME NEW p \in DOMAIN proposal,
               \/ \E ballot \in {"yes", "no"} : VoteProposal(p, ballot)
               \/ ExecuteProposal(p) \/ CancelProposal(p)
        PROVE  VoteInv' /\ (admin' # admin => cutoff' = nextId /\ nextId' = nextId)
    <3>1. CASE \E ballot \in {"yes", "no"} : VoteProposal(p, ballot)
      BY <3>1, VoteStep DEF VoteProposal
    <3>2. CASE ExecuteProposal(p)
      BY <3>2, ExecuteStep DEF ExecuteProposal
    <3>3. CASE CancelProposal(p)
      BY <3>3, MarkStep DEF CancelProposal
    <3> QED
      BY <2>2, <3>1, <3>2, <3>3
  <2>3. ASSUME NEW a \in Candidates, RemoveGuardian(a) \/ \E w \in Weights : AddGuardian(a, w)
        PROVE  VoteInv' /\ admin' = admin
    BY <2>3, OutsideProposals DEF RemoveGuardian, AddGuardian, proposals, VoteInv, ProposalTypes
  <2> QED
    BY <1>1, <2>1, <2>2, <2>3 DEF Governing
<1>2. CASE Succession
  <2>1. ASSUME NEW new \in Heirs, ProposeAdmin(new)
        PROVE  VoteInv' /\ admin' = admin
    <3>1. new \in Addresses /\ handover'.to = new
      BY <2>1, GovernanceAssumption DEF ProposeAdmin
    <3>2. UNCHANGED <<now, admin, nextId, proposal, cutoff>>
      BY <2>1 DEF ProposeAdmin, proposals
    <3> QED
      BY <3>1, <3>2 DEF VoteInv, ProposalTypes, VotesAreAdmins
  <2>2. CASE ClaimAdminRole
    <3>1. handover.to \in Addresses /\ proposal' \in [0..(nextId - 1) -> Proposal]
      BY <2>2 DEF ClaimAdminRole, VoteInv, ProposalTypes
    <3>2. /\ admin' = handover.to /\ cutoff' = nextId /\ UNCHANGED <<now, nextId>>
          /\ handover' = NoHandover
      BY <2>2 DEF ClaimAdminRole
    <3> QED
      BY <3>1, <3>2, HandOverStep
  <2>3. CASE CancelAdminProposal
    <3>1. UNCHANGED <<now, admin, nextId, proposal, cutoff>> /\ handover' = NoHandover
      BY <2>3 DEF CancelAdminProposal, proposals
    <3> QED
      BY <3>1 DEF VoteInv, ProposalTypes, VotesAreAdmins
  <2>4. CASE ExecuteTreasuryChange \/ CancelTreasuryChange
    <3>1. UNCHANGED <<now, admin, nextId, proposal, cutoff, handover>>
      BY <2>4 DEF ExecuteTreasuryChange, CancelTreasuryChange, proposals
    <3> QED
      BY <3>1, OutsideProposals DEF VoteInv, ProposalTypes
  <2> QED
    BY <1>2, <2>1, <2>2, <2>3, <2>4 DEF Succession
<1>3. CASE Tick
  <2>1. UNCHANGED <<admin, nextId, proposal, cutoff, handover>> /\ now' \in Nat
    BY <1>3 DEF Tick, proposals, VoteInv, ProposalTypes
  <2> QED
    BY <2>1, OutsideProposals
<1>4. ASSUME NEW id \in 0..MaxProposals, Administering(id)
      PROVE  VoteInv' /\ (admin' # admin => cutoff' = nextId /\ nextId' = nextId)
  <2>1. ASSUME NEW new \in Successors, RotateAdmin(new, id)
        PROVE  VoteInv' /\ cutoff' = nextId /\ nextId' = nextId
    <3>1. new \in Addresses /\ admin' = new /\ cutoff' = nextId /\ UNCHANGED <<now, nextId, handover>>
      BY <2>1, GovernanceAssumption DEF RotateAdmin
    <3>2. proposal' \in [0..(nextId - 1) -> Proposal]
      BY <2>1 DEF RotateAdmin, VoteInv, ProposalTypes
    <3> QED
      BY <3>1, <3>2, HandOverStep
  <2>2. CASE EnableEmergencyStop(id) \/ DisableEmergencyStop(id)
    BY <2>2, ConsumeStep DEF EnableEmergencyStop, DisableEmergencyStop
  <2>3. ASSUME NEW t \in Tokens,
               RemoveAcceptedToken(t, id) \/ \E d \in Decimals : AddAcceptedToken(t, d, id)
        PROVE  VoteInv' /\ admin' = admin
    BY <2>3, ConsumeStep DEF RemoveAcceptedToken, AddAcceptedToken
  <2>4. ASSUME NEW to \in Addresses, NEW t \in Tokens, NEW a \in RecoveryAmounts,
               NEW r \in RecoveryIds, RecoverStrandedFunds(to, t, a, r, id)
        PROVE  VoteInv' /\ admin' = admin
    BY <2>4, ConsumeStep DEF RecoverStrandedFunds
  <2>5. ASSUME NEW t \in Treasuries, NEW fee \in Fees, QueueTreasuryChange(t, fee, id)
        PROVE  VoteInv' /\ admin' = admin
    BY <2>5, ConsumeStep DEF QueueTreasuryChange
  <2> QED
    BY <1>4, <2>1, <2>2, <2>3, <2>4, <2>5 DEF Administering
<1>5. CASE UNCHANGED vars
  <2>1. UNCHANGED <<now, admin, nextId, proposal, cutoff, handover>>
    BY <1>5 DEF vars, proposals
  <2> QED
    BY <2>1, OutsideProposals DEF VoteInv, ProposalTypes
<1> QED
  BY <1>1, <1>2, <1>3, <1>4, <1>5 DEF Next

\* Votes do not outlive the admin who cast them: a proposal that can still be
\* executed carries votes of the current admin only, whatever proposals,
\* rotations and hand-overs came before.
THEOREM VotesCorrect == Spec => []VotesAreAdmins
<1>1. Init => VoteInv
  BY VoteInit
<1>2. VoteInv /\ [Next]_vars => VoteInv'
  BY VoteNext
<1>3. VoteInv => VotesAreAdmins
  BY DEF VoteInv
<1> QED
  BY <1>1, <1>2, <1>3, PTL DEF Spec

\* Whichever entrypoint changes the admin, every proposal submitted before the
\* change is invalidated by it.
THEOREM RotationCorrect == Spec => RotationInvalidates
<1>1. Init => VoteInv
  BY VoteInit
<1>2. VoteInv /\ [Next]_vars => VoteInv'
  BY VoteNext
<1>3. VoteInv /\ [Next]_vars => [admin' # admin => \A p \in DOMAIN proposal' : p < cutoff']_vars
  <2> SUFFICES ASSUME VoteInv, [Next]_vars, admin' # admin, NEW p \in DOMAIN proposal'
               PROVE  p < cutoff'
    OBVIOUS
  <2>1. VoteInv' /\ cutoff' = nextId /\ nextId' = nextId
    BY VoteNext
  <2> QED
    BY <2>1 DEF VoteInv, ProposalTypes
<1> QED
  BY <1>1, <1>2, <1>3, PTL DEF Spec, RotationInvalidates

\* The only calls that write each variable.
AdminWriters ==
    \/ \E p \in DOMAIN proposal : ExecuteProposal(p) /\ proposal[p].op.kind = "RotateAdmin"
    \/ \E new \in Successors, id \in 0..MaxProposals : RotateAdmin(new, id)
    \/ ClaimAdminRole
WeightWriters == \E a \in Candidates : RemoveGuardian(a) \/ \E w \in Weights : AddGuardian(a, w)
ProposalWriters ==
    \/ \E op \in Operations, q \in Quorums, slack \in EtaSlack :
          SubmitProposal(op, q, now + Delay + slack)
    \/ \E p \in DOMAIN proposal, ballot \in {"yes", "no"} : VoteProposal(p, ballot)
    \/ \E p \in DOMAIN proposal : MarkExecuted(p) /\ nextId' = nextId
HandoverWriters == (\E new \in Heirs : ProposeAdmin(new)) \/ ClaimAdminRole \/ CancelAdminProposal
ConfigWriters ==
    \/ \E p \in DOMAIN proposal : ExecuteProposal(p)
    \/ \E id \in 0..MaxProposals : EnableEmergencyStop(id) \/ DisableEmergencyStop(id)
    \/ \E id \in 0..MaxProposals, t \in Treasuries, fee \in Fees : QueueTreasuryChange(t, fee, id)
    \/ ExecuteTreasuryChange
QueueWriters ==
    \/ \E id \in 0..MaxProposals, t \in Treasuries, fee \in Fees : QueueTreasuryChange(t, fee, id)
    \/ ExecuteTreasuryChange \/ CancelTreasuryChange
TokenWriters ==
    \E id \in 0..MaxProposals, t \in Tokens :
        RemoveAcceptedToken(t, id) \/ \E d \in Decimals : AddAcceptedToken(t, d, id)
RecoveryWriters ==
    \E id \in 0..MaxProposals, to \in Addresses, t \in Tokens, a \in RecoveryAmounts, r \in RecoveryIds :
        RecoverStrandedFunds(to, t, a, r, id)

Written ==
    /\ admin' = admin \/ AdminWriters
    /\ weight' = weight \/ WeightWriters
    /\ UNCHANGED <<nextId, proposal>> \/ ProposalWriters
    /\ handover' = handover \/ HandoverWriters
    /\ config' = config \/ ConfigWriters
    /\ queued' = queued \/ QueueWriters
    /\ tokens' = tokens \/ TokenWriters
    /\ recovered' = recovered \/ RecoveryWriters
    /\ now' = now \/ Tick

\* Consuming an approval marks a proposal or leaves the proposals alone.
LEMMA ConsumeWrites ==
    ASSUME NEW id, Consume(id), nextId' = nextId
    PROVE  UNCHANGED <<nextId, proposal>> \/ ProposalWriters
BY DEF Consume, Executable, ProposalWriters

\* Nothing else writes them.
LEMMA Writes == ASSUME [Next]_vars PROVE Written
<1>1. CASE Governing
  <2>1. ASSUME NEW op \in Operations, NEW q \in Quorums, NEW slack \in EtaSlack,
               SubmitProposal(op, q, now + Delay + slack)
        PROVE  Written
    <3>1. ProposalWriters
      BY <2>1 DEF ProposalWriters
    <3>2. UNCHANGED <<now, admin, weight, handover, config, queued, tokens, recovered>>
      BY <2>1 DEF SubmitProposal, settings
    <3> QED
      BY <3>1, <3>2 DEF Written
  <2>2. ASSUME NEW p \in DOMAIN proposal, NEW ballot \in {"yes", "no"}, VoteProposal(p, ballot)
        PROVE  Written
    <3>1. ProposalWriters
      BY <2>2 DEF ProposalWriters
    <3>2. UNCHANGED <<now, admin, weight, handover, config, queued, tokens, recovered>>
      BY <2>2 DEF VoteProposal, settings
    <3> QED
      BY <3>1, <3>2 DEF Written
  <2>3. ASSUME NEW p \in DOMAIN proposal, ExecuteProposal(p) PROVE Written
    <3>1. ProposalWriters
      BY <2>3 DEF ProposalWriters, ExecuteProposal
    <3>2. ConfigWriters
      BY <2>3 DEF ConfigWriters
    <3>3. admin' = admin \/ AdminWriters
      BY <2>3 DEF AdminWriters, ExecuteProposal
    <3>4. UNCHANGED <<now, weight, handover, queued, tokens, recovered>>
      BY <2>3 DEF ExecuteProposal
    <3> QED
      BY <3>1, <3>2, <3>3, <3>4 DEF Written
  <2>4. ASSUME NEW p \in DOMAIN proposal, CancelProposal(p) PROVE Written
    <3>1. ProposalWriters
      BY <2>4 DEF ProposalWriters, CancelProposal
    <3>2. UNCHANGED <<now, admin, weight, handover, config, queued, tokens, recovered>>
      BY <2>4 DEF CancelProposal, settings
    <3> QED
      BY <3>1, <3>2 DEF Written
  <2>5. ASSUME NEW a \in Candidates, RemoveGuardian(a) \/ \E w \in Weights : AddGuardian(a, w)
        PROVE  Written
    <3>1. WeightWriters
      BY <2>5 DEF WeightWriters
    <3>2. UNCHANGED <<now, admin, nextId, proposal, handover, config, queued, tokens, recovered>>
      BY <2>5 DEF RemoveGuardian, AddGuardian, proposals, settings
    <3> QED
      BY <3>1, <3>2 DEF Written
  <2> QED
    BY <1>1, <2>1, <2>2, <2>3, <2>4, <2>5 DEF Governing
<1>2. CASE Succession
  <2>1. CASE \E new \in Heirs : ProposeAdmin(new)
    <3>1. HandoverWriters
      BY <2>1 DEF HandoverWriters
    <3>2. UNCHANGED <<now, admin, weight, nextId, proposal, config, queued, tokens, recovered>>
      BY <2>1 DEF ProposeAdmin, proposals, settings
    <3> QED
      BY <3>1, <3>2 DEF Written
  <2>2. CASE ClaimAdminRole
    <3>1. HandoverWriters /\ AdminWriters
      BY <2>2 DEF HandoverWriters, AdminWriters
    <3>2. UNCHANGED <<now, weight, nextId, proposal, config, queued, tokens, recovered>>
      BY <2>2 DEF ClaimAdminRole, settings
    <3> QED
      BY <3>1, <3>2 DEF Written
  <2>3. CASE CancelAdminProposal
    <3>1. HandoverWriters
      BY <2>3 DEF HandoverWriters
    <3>2. UNCHANGED <<now, admin, weight, nextId, proposal, config, queued, tokens, recovered>>
      BY <2>3 DEF CancelAdminProposal, proposals, settings
    <3> QED
      BY <3>1, <3>2 DEF Written
  <2>4. CASE ExecuteTreasuryChange
    <3>1. ConfigWriters /\ QueueWriters
      BY <2>4 DEF ConfigWriters, QueueWriters
    <3>2. UNCHANGED <<now, admin, weight, nextId, proposal, handover, tokens, recovered>>
      BY <2>4 DEF ExecuteTreasuryChange, proposals
    <3> QED
      BY <3>1, <3>2 DEF Written
  <2>5. CASE CancelTreasuryChange
    <3>1. QueueWriters
      BY <2>5 DEF QueueWriters
    <3>2. UNCHANGED <<now, admin, weight, nextId, proposal, handover, config, tokens, recovered>>
      BY <2>5 DEF CancelTreasuryChange, proposals
    <3> QED
      BY <3>1, <3>2 DEF Written
  <2> QED
    BY <1>2, <2>1, <2>2, <2>3, <2>4, <2>5 DEF Succession
<1>3. CASE Tick
  <2>1. UNCHANGED <<admin, weight, nextId, proposal, handover, config, queued, tokens, recovered>>
    BY <1>3 DEF Tick, proposals, settings
  <2> QED
    BY <1>3, <2>1 DEF Written
<1>4. ASSUME NEW id \in 0..MaxProposals, Administering(id) PROVE Written
  <2>1. ASSUME NEW new \in Successors, RotateAdmin(new, id) PROVE Written
    <3>1. AdminWriters
      BY <2>1 DEF AdminWriters
    <3>2. UNCHANGED <<now, weight, nextId, proposal, handover, config, queued, tokens, recovered>>
      BY <2>1 DEF RotateAdmin, settings
    <3> QED
      BY <3>1, <3>2 DEF Written
  <2>2. CASE EnableEmergencyStop(id) \/ DisableEmergencyStop(id)
    <3>1. ConfigWriters
      BY <2>2 DEF ConfigWriters
    <3>2. Consume(id) /\ UNCHANGED <<now, admin, weight, nextId, handover, queued, tokens, recovered>>
      BY <2>2 DEF EnableEmergencyStop, DisableEmergencyStop
    <3> QED
      BY <3>1, <3>2, ConsumeWrites DEF Written
  <2>3. ASSUME NEW t \in Tokens,
               RemoveAcceptedToken(t, id) \/ \E d \in Decimals : AddAcceptedToken(t, d, id)
        PROVE  Written
    <3>1. TokenWriters
      BY <2>3 DEF TokenWriters
    <3>2. Consume(id) /\ UNCHANGED <<now, admin, weight, nextId, handover, config, queued, recovered>>
      BY <2>3 DEF RemoveAcceptedToken, AddAcceptedToken
    <3> QED
      BY <3>1, <3>2, ConsumeWrites DEF Written
  <2>4. ASSUME NEW to \in Addresses, NEW t \in Tokens, NEW a \in RecoveryAmounts,
               NEW r \in RecoveryIds, RecoverStrandedFunds(to, t, a, r, id)
        PROVE  Written
    <3>1. RecoveryWriters
      BY <2>4 DEF RecoveryWriters
    <3>2. Consume(id) /\ UNCHANGED <<now, admin, weight, nextId, handover, config, queued, tokens>>
      BY <2>4 DEF RecoverStrandedFunds
    <3> QED
      BY <3>1, <3>2, ConsumeWrites DEF Written
  <2>5. ASSUME NEW t \in Treasuries, NEW fee \in Fees, QueueTreasuryChange(t, fee, id)
        PROVE  Written
    <3>1. ConfigWriters /\ QueueWriters
      BY <2>5 DEF ConfigWriters, QueueWriters
    <3>2. Consume(id) /\ UNCHANGED <<now, admin, weight, nextId, handover, tokens, recovered>>
      BY <2>5 DEF QueueTreasuryChange
    <3> QED
      BY <3>1, <3>2, ConsumeWrites DEF Written
  <2> QED
    BY <1>4, <2>1, <2>2, <2>3, <2>4, <2>5 DEF Administering
<1>5. CASE UNCHANGED vars
  BY <1>5 DEF vars, proposals, settings, Written
<1> QED
  BY <1>1, <1>2, <1>3, <1>4, <1>5 DEF Next

\* The types of what is not a proposal.
Holders == Addresses \cup {None}
Configs == [fee : Nat, treasury : Holders, stop : BOOLEAN, window : Nat, oracle : Holders]
SettingTypes ==
    /\ now \in 1..MaxTime /\ nextId <= MaxProposals
    /\ weight \in [Addresses -> Nat]
    /\ handover \in [to : Holders, at : Nat]
    /\ config \in Configs
    /\ queued \in [treasury : Holders, fee : Nat, at : Nat]
    /\ tokens \in [Tokens -> Nat \cup {None}]
    /\ recovered \subseteq RecoveryIds

\* A proposal cannot pass its eta before the minimum delay is over.
DelayKept == \A p \in DOMAIN proposal : proposal[p].eta >= proposal[p].submitted + Delay

\* The inductive invariant of the types and of what backs a change.
GovernanceInv == VoteInv /\ SettingTypes /\ DelayKept

\* Every write to the configuration keeps its type and leaves the other fields.
LEMMA ConfigUpdate ==
    ASSUME NEW c \in Configs
    PROVE  /\ \A s \in BOOLEAN :
                /\ [c EXCEPT !.stop = s] \in Configs
                /\ [c EXCEPT !.stop = s].fee = c.fee /\ [c EXCEPT !.stop = s].treasury = c.treasury
           /\ \A n \in Nat :
                /\ [c EXCEPT !.window = n] \in Configs /\ [c EXCEPT !.window = n].stop = c.stop
                /\ [c EXCEPT !.window = n].fee = c.fee /\ [c EXCEPT !.window = n].treasury = c.treasury
           /\ \A a \in Holders :
                /\ [c EXCEPT !.oracle = a] \in Configs /\ [c EXCEPT !.oracle = a].stop = c.stop
                /\ [c EXCEPT !.oracle = a].fee = c.fee /\ [c EXCEPT !.oracle = a].treasury = c.treasury
<1> DEFINE B == BOOLEAN
<1>1. Configs = [fee : Nat, treasury : Holders, stop : B, window : Nat, oracle : Holders]
  BY DEF Configs
<1> HIDE DEF B
<1>2. ASSUME NEW s \in B
      PROVE  /\ [c EXCEPT !.stop = s] \in Configs
             /\ [c EXCEPT !.stop = s].fee = c.fee /\ [c EXCEPT !.stop = s].treasury = c.treasury
  BY <1>1
<1>3. ASSUME NEW n \in Nat
      PROVE  /\ [c EXCEPT !.window = n] \in Configs /\ [c EXCEPT !.window = n].stop = c.stop
             /\ [c EXCEPT !.window = n].fee = c.fee /\ [c EXCEPT !.window = n].treasury = c.treasury
  BY <1>1
<1>4. ASSUME NEW a \in Holders
      PROVE  /\ [c EXCEPT !.oracle = a] \in Configs /\ [c EXCEPT !.oracle = a].stop = c.stop
             /\ [c EXCEPT !.oracle = a].fee = c.fee /\ [c EXCEPT !.oracle = a].treasury = c.treasury
  BY <1>1
<1> QED
  BY <1>2, <1>3, <1>4, Zenon DEF B

\* The configuration with fee and treasury written.
WithFee(c, n, a) == [c EXCEPT !.fee = n, !.treasury = a]

\* The write keeps the type and the emergency stop.
LEMMA FeeUpdate ==
    ASSUME NEW c \in Configs, NEW n \in Nat, NEW a \in Holders
    PROVE  WithFee(c, n, a) \in Configs /\ WithFee(c, n, a).stop = c.stop
<1> DEFINE B == BOOLEAN
           d == WithFee(c, n, a)
<1>1. Configs = [fee : Nat, treasury : Holders, stop : B, window : Nat, oracle : Holders]
  BY DEF Configs
<1>2. d = [c EXCEPT !.fee = n, !.treasury = a]
  BY DEF WithFee
<1> HIDE DEF B, d
<1>3. d \in Configs /\ d.stop = c.stop
  BY <1>1, <1>2
<1> QED
  BY <1>3 DEF d

\* What an operation is made of.
LEMMA OperationFacts ==
    ASSUME NEW op \in Operations
    PROVE  /\ op.kind \in Kinds /\ op.target \in Addresses
           /\ op.target2 \in Holders /\ op.target3 \in Nat
BY GovernanceAssumption DEF Holders

\* What an executed proposal writes: a well-typed configuration, whose stop,
\* fee and treasury change only if the proposal is about them.
LEMMA AppliedFacts ==
    ASSUME config \in Configs, NEW op \in Operations
    PROVE  /\ Applied(op) \in Configs
           /\ Applied(op).stop # config.stop => op.kind = "EmergencyStop"
           /\ Applied(op).fee # config.fee \/ Applied(op).treasury # config.treasury
                => op.kind = "SetProtocolFee"
<1>1. /\ op.target \in Holders /\ op.target2 \in Holders /\ op.target3 \in Nat
  BY OperationFacts DEF Holders
<1>2. CASE op.kind = "SetProtocolFee"
  <2>1. Applied(op) = WithFee(config, op.target3, op.target2)
    BY <1>2 DEF Applied, WithFee
  <2>2. Applied(op) \in Configs /\ Applied(op).stop = config.stop
    BY <1>1, <2>1, FeeUpdate
  <2> QED
    BY <1>2, <2>2
<1>3. CASE op.kind = "EmergencyStop"
  <2>1. PICK s \in BOOLEAN : Applied(op) = [config EXCEPT !.stop = s]
    BY <1>3 DEF Applied
  <2>2. /\ Applied(op) \in Configs
        /\ Applied(op).fee = config.fee /\ Applied(op).treasury = config.treasury
    BY <2>1, ConfigUpdate, Zenon
  <2> QED
    BY <1>3, <2>2
<1>4. CASE op.kind = "SetDisputeWindow"
  <2>1. PICK n \in Nat : Applied(op) = [config EXCEPT !.window = n]
    BY <1>1, <1>4 DEF Applied
  <2>2. /\ Applied(op) \in Configs /\ Applied(op).stop = config.stop
        /\ Applied(op).fee = config.fee /\ Applied(op).treasury = config.treasury
    BY <2>1, ConfigUpdate, Zenon
  <2> QED
    BY <2>2
<1>5. CASE op.kind = "SetOracleConfig"
  <2>1. PICK a \in Holders : Applied(op) = [config EXCEPT !.oracle = a]
    BY <1>1, <1>5 DEF Applied
  <2>2. /\ Applied(op) \in Configs /\ Applied(op).stop = config.stop
        /\ Applied(op).fee = config.fee /\ Applied(op).treasury = config.treasury
    BY <2>1, ConfigUpdate, Zenon
  <2> QED
    BY <2>2
<1>6. CASE op.kind \notin {"SetProtocolFee", "EmergencyStop", "SetDisputeWindow", "SetOracleConfig"}
  BY <1>6 DEF Applied
<1> QED
  BY <1>2, <1>3, <1>4, <1>5, <1>6

\* init.
LEMMA GovernanceInit == Init => GovernanceInv
<1> SUFFICES ASSUME Init PROVE GovernanceInv
  OBVIOUS
<1>1. VoteInv
  BY VoteInit
<1>2. DelayKept
  BY DEF Init, DelayKept
<1>3. now \in 1..MaxTime /\ nextId <= MaxProposals
  BY GovernanceAssumption DEF Init
<1>4. weight \in [Addresses -> Nat] /\ recovered \subseteq RecoveryIds
  BY DEF Init
<1>5. tokens \in [Tokens -> Nat \cup {None}]
  BY DEF Init
<1>6. handover \in [to : Holders, at : Nat] /\ queued \in [treasury : Holders, fee : Nat, at : Nat]
  BY DEF Init, NoHandover, NoChange, Holders
<1>7. config \in Configs
  BY DEF Init, Configs, Holders
<1> QED
  BY <1>1, <1>2, <1>3, <1>4, <1>5, <1>6, <1>7 DEF GovernanceInv, SettingTypes

\* Every call keeps them.
LEMMA GovernanceStep ==
    ASSUME GovernanceInv, [Next]_vars
    PROVE  GovernanceInv'
<1>1. Written /\ VoteInv /\ SettingTypes /\ DelayKept /\ ProposalTypes
  BY Writes DEF GovernanceInv, VoteInv
<1>2. VoteInv'
  BY <1>1, VoteNext
<1>3. now' \in 1..MaxTime
  <2>1. CASE Tick
    BY <1>1, <2>1, GovernanceAssumption DEF Tick, SettingTypes
  <2> QED
    BY <1>1, <2>1 DEF Written, SettingTypes
<1>4. weight' \in [Addresses -> Nat]
  <2>1. ASSUME NEW a \in Candidates, RemoveGuardian(a) \/ \E w \in Weights : AddGuardian(a, w)
        PROVE  weight' \in [Addresses -> Nat]
    <3>1. \E w \in Nat : weight' = [weight EXCEPT ![a] = w]
      BY <2>1, GovernanceAssumption DEF RemoveGuardian, AddGuardian
    <3> QED
      BY <1>1, <3>1 DEF SettingTypes
  <2> QED
    BY <1>1, <2>1 DEF Written, WeightWriters, SettingTypes
<1>5. handover' \in [to : Holders, at : Nat]
  <2>1. ASSUME NEW new \in Heirs, ProposeAdmin(new) PROVE handover' \in [to : Holders, at : Nat]
    <3>1. new \in Holders /\ now \in Nat
      BY <1>1, GovernanceAssumption DEF Holders, ProposalTypes
    <3> QED
      BY <2>1, <3>1 DEF ProposeAdmin
  <2>2. CASE ClaimAdminRole \/ CancelAdminProposal
    <3>1. handover' = NoHandover
      BY <2>2 DEF ClaimAdminRole, CancelAdminProposal
    <3> QED
      BY <3>1 DEF NoHandover, Holders
  <2> QED
    BY <1>1, <2>1, <2>2 DEF Written, HandoverWriters, SettingTypes
<1>6. ASSUME NEW id, NEW t \in Treasuries, NEW fee \in Fees, QueueTreasuryChange(t, fee, id)
      PROVE  config' \in Configs /\ queued' \in [treasury : Holders, fee : Nat, at : Nat]
  <2>1. t \in Holders /\ fee \in Nat /\ now + TreasuryDelay \in Nat
    BY <1>1, GovernanceAssumption DEF Holders, ProposalTypes
  <2>2. queued' = [treasury |-> t, fee |-> fee, at |-> now + TreasuryDelay]
    BY <1>6 DEF QueueTreasuryChange
  <2>3. config' = WithFee(config, fee, t)
    BY <1>6 DEF QueueTreasuryChange, WithFee
  <2>4. config \in Configs
    BY <1>1 DEF SettingTypes
  <2> QED
    BY <2>1, <2>2, <2>3, <2>4, FeeUpdate
<1>7. queued' \in [treasury : Holders, fee : Nat, at : Nat]
  <2>1. CASE ExecuteTreasuryChange \/ CancelTreasuryChange
    <3>1. queued' = NoChange
      BY <2>1 DEF ExecuteTreasuryChange, CancelTreasuryChange
    <3> QED
      BY <3>1 DEF NoChange, Holders
  <2> QED
    BY <1>1, <1>6, <2>1 DEF Written, QueueWriters, SettingTypes
<1>8. config' \in Configs
  <2>0. config \in Configs /\ queued.fee \in Nat /\ queued.treasury \in Holders
    BY <1>1 DEF SettingTypes
  <2>1. ASSUME NEW p \in DOMAIN proposal, ExecuteProposal(p) PROVE config' \in Configs
    <3>1. proposal[p].op \in Operations /\ config' = Applied(proposal[p].op)
      BY <1>1, <2>1 DEF ProposalTypes, Proposal, ExecuteProposal
    <3> QED
      BY <2>0, <3>1, AppliedFacts
  <2>2. ASSUME NEW id, EnableEmergencyStop(id) \/ DisableEmergencyStop(id)
        PROVE  config' \in Configs
    <3>1. config' = [config EXCEPT !.stop = TRUE] \/ config' = [config EXCEPT !.stop = FALSE]
      BY <2>2 DEF EnableEmergencyStop, DisableEmergencyStop
    <3>2. TRUE \in BOOLEAN /\ FALSE \in BOOLEAN /\ 0 \in Nat /\ None \in Holders
      BY DEF Holders
    <3> QED
      BY <2>0, <3>1, <3>2, ConfigUpdate, Zenon
  <2>3. CASE ExecuteTreasuryChange
    <3>1. config' = WithFee(config, queued.fee, queued.treasury)
      BY <2>3 DEF ExecuteTreasuryChange, WithFee
    <3> QED
      BY <2>0, <3>1, FeeUpdate
  <2> QED
    BY <1>1, <1>6, <2>0, <2>1, <2>2, <2>3 DEF Written, ConfigWriters
<1>9. tokens' \in [Tokens -> Nat \cup {None}]
  <2>1. ASSUME NEW id, NEW t \in Tokens,
               RemoveAcceptedToken(t, id) \/ \E d \in Decimals : AddAcceptedToken(t, d, id)
        PROVE  tokens' \in [Tokens -> Nat \cup {None}]
    <3>1. \E d \in Nat \cup {None} : tokens' = [tokens EXCEPT ![t] = d]
      BY <2>1, GovernanceAssumption DEF RemoveAcceptedToken, AddAcceptedToken
    <3> QED
      BY <1>1, <3>1 DEF SettingTypes
  <2> QED
    BY <1>1, <2>1 DEF Written, TokenWriters, SettingTypes
<1>10. recovered' \subseteq RecoveryIds
  BY <1>1 DEF Written, RecoveryWriters, RecoverStrandedFunds, SettingTypes
<1>11. nextId' <= MaxProposals /\ DelayKept'
  <2>0. nextId \in Nat /\ now \in Nat /\ MaxProposals \in Nat /\ nextId <= MaxProposals
        /\ DOMAIN proposal = 0..(nextId - 1)
    BY <1>1, GovernanceAssumption DEF SettingTypes, ProposalTypes
  <2>1. ASSUME NEW op \in Operations, NEW q \in Quorums, NEW slack \in EtaSlack,
               SubmitProposal(op, q, now + Delay + slack)
        PROVE  nextId' <= MaxProposals /\ DelayKept'
    <3> DEFINE eta == now + Delay + slack
               new == [op |-> op, quorum |-> q, votes |-> [a \in Addresses |-> "none"],
                       eta |-> eta, submitted |-> now, executed |-> FALSE]
    <3>1. /\ nextId' = nextId + 1 /\ nextId < MaxProposals /\ eta >= now + Delay
          /\ proposal' = [p \in 0..nextId |-> IF p = nextId THEN new ELSE proposal[p]]
      BY <2>1 DEF SubmitProposal
    <3>2. new.eta >= new.submitted + Delay
      BY <3>1
    <3> HIDE DEF new
    <3>3. \A p \in 0..nextId : p = nextId \/ p \in DOMAIN proposal
      BY <2>0
    <3>4. \A p \in DOMAIN proposal' : proposal'[p] = new \/ (p \in DOMAIN proposal /\ proposal'[p] = proposal[p])
      BY <3>1, <3>3
    <3>5. DelayKept'
      BY <1>1, <3>2, <3>4 DEF DelayKept
    <3>6. nextId' <= MaxProposals
      BY <2>0, <3>1
    <3> QED
      BY <3>5, <3>6
  <2>2. ASSUME NEW p \in DOMAIN proposal, NEW r, nextId' = nextId,
               proposal' = [proposal EXCEPT ![p] = r],
               r.eta = proposal[p].eta, r.submitted = proposal[p].submitted
        PROVE  nextId' <= MaxProposals /\ DelayKept'
    <3>1. DOMAIN proposal' = DOMAIN proposal
      BY <2>2
    <3>2. \A q \in DOMAIN proposal : /\ proposal'[q].eta = proposal[q].eta
                                     /\ proposal'[q].submitted = proposal[q].submitted
      BY <1>1, <2>2 DEF ProposalTypes
    <3>3. DelayKept'
      BY <1>1, <3>1, <3>2 DEF DelayKept
    <3> QED
      BY <2>0, <2>2, <3>3
  <2>3. ASSUME NEW p \in DOMAIN proposal, NEW ballot \in {"yes", "no"}, VoteProposal(p, ballot)
        PROVE  nextId' <= MaxProposals /\ DelayKept'
    <3> DEFINE cast == [proposal[p].votes EXCEPT ![admin] = ballot]
               r == [proposal[p] EXCEPT !.votes = cast]
    <3>1. proposal' = [proposal EXCEPT ![p] = r] /\ nextId' = nextId
      BY <2>3 DEF VoteProposal
    <3>2. proposal[p] \in Proposal
      BY <1>1 DEF ProposalTypes
    <3> HIDE DEF cast
    <3>3. r.eta = proposal[p].eta /\ r.submitted = proposal[p].submitted
      BY <3>2 DEF Proposal
    <3> HIDE DEF r
    <3> QED
      BY <2>2, <3>1, <3>3
  <2>4. ASSUME NEW p \in DOMAIN proposal, MarkExecuted(p), nextId' = nextId
        PROVE  nextId' <= MaxProposals /\ DelayKept'
    <3> DEFINE x == TRUE
               r == [proposal[p] EXCEPT !.executed = x]
    <3>1. proposal' = [proposal EXCEPT ![p] = r]
      BY <2>4 DEF MarkExecuted
    <3>2. proposal[p] \in Proposal
      BY <1>1 DEF ProposalTypes
    <3> HIDE DEF x
    <3>3. r.eta = proposal[p].eta /\ r.submitted = proposal[p].submitted
      BY <3>2 DEF Proposal
    <3> HIDE DEF r
    <3> QED
      BY <2>2, <2>4, <3>1, <3>3
  <2>5. CASE UNCHANGED <<nextId, proposal>>
    BY <1>1, <2>0, <2>5 DEF DelayKept
  <2> QED
    BY <1>1, <2>1, <2>3, <2>4, <2>5 DEF Written, ProposalWriters
<1> QED
  BY <1>2, <1>3, <1>4, <1>5, <1>7, <1>8, <1>9, <1>10, <1>11 DEF GovernanceInv, SettingTypes

\* The administration's state keeps its ranges, for every set of addresses,
\* operations, weights and delays: every stored proposal passed the checks of
\* its submission, and no call writes a setting of the wrong type.
THEOREM GovernanceTyped == Spec => []TypeOK
<1>1. GovernanceInv => TypeOK
  BY DEF GovernanceInv, VoteInv, ProposalTypes, SettingTypes, TypeOK, Holders, Configs
<1> QED
  BY <1>1, GovernanceInit, GovernanceStep, PTL DEF Spec

\* Rounding down the required weight costs less than one vote.
LEMMA QuorumRounding ==
    ASSUME NEW total \in Nat, NEW quorum \in Nat, NEW votes \in Nat,
           votes >= (total * Effective(quorum)) \div Whole
    PROVE  Whole * (votes + 1) > MinQuorum * total
<1>1. Effective(quorum) \in Nat /\ Effective(quorum) >= MinQuorum /\ MinQuorum \in Nat
  BY DEF Effective, MinQuorum
<1> DEFINE e == Effective(quorum)
           y == total * e
<1>2. e \in Nat /\ e >= MinQuorum
  BY <1>1
<1> HIDE DEF e
<1>3. y \in Nat /\ MinQuorum * total <= y
  <2>1. PICK d \in Nat : e = MinQuorum + d
    BY <1>1, <1>2
  <2>2. y = MinQuorum * total + d * total /\ d * total \in Nat /\ d * total >= 0
    BY <1>1, <2>1
  <2>3. MinQuorum * total \in Nat
    BY <1>1
  <2> QED
    BY <2>2, <2>3
<1>4. votes >= y \div Whole
  BY DEF e
<1> HIDE DEF y
<1>5. Whole * (y \div Whole + 1) > y /\ y \div Whole \in Nat
  BY <1>3 DEF Whole
<1>6. Whole * (votes + 1) >= Whole * (y \div Whole + 1)
  BY <1>4, <1>5 DEF Whole
<1>7. MinQuorum * total \in Nat /\ Whole * (votes + 1) \in Nat /\ Whole * (y \div Whole + 1) \in Nat
  BY <1>1, <1>5 DEF Whole
<1> QED
  BY <1>3, <1>5, <1>6, <1>7

\* Weights add up to natural numbers.
LEMMA WeightTypes ==
    ASSUME SettingTypes
    PROVE  /\ calculate_total_weight \in Nat
           /\ \A p, ballot : WeightOf(p, ballot) \in Nat
<1>1. Guardians \subseteq Addresses /\ IsFiniteSet(Addresses) /\ \A a \in Addresses : weight[a] \in Nat
  BY GovernanceAssumption DEF Guardians, SettingTypes
<1>2. ASSUME NEW S \in SUBSET Addresses PROVE SumFunctionOnSet(weight, S) \in Nat
  <2>1. IsFiniteSet(S) /\ \A a \in S : weight[a] \in Int /\ weight[a] >= 0
    BY <1>1, FS_Subset
  <2>2. SumFunctionOnSet(weight, S) \in Int /\ SumFunctionOnSet(weight, S) >= 0
    BY <2>1, SumType
  <2> QED
    BY <2>2
<1>3. calculate_total_weight \in Nat
  BY <1>1, <1>2 DEF calculate_total_weight
<1>4. ASSUME NEW p, NEW ballot PROVE WeightOf(p, ballot) \in Nat
  <2>1. {a \in Guardians : proposal[p].votes[a] = ballot} \in SUBSET Addresses
    BY <1>1
  <2> QED
    BY <1>2, <2>1 DEF WeightOf
<1> QED
  BY <1>3, <1>4

\* A proposal that execute_proposal accepts backs what it is about.
LEMMA ExecutedBacks ==
    ASSUME GovernanceInv, NEW p, Executable(p), MarkExecuted(p), NEW kinds,
           proposal[p].op.kind \in kinds
    PROVE  Backed(kinds)
<1>1. /\ p \in DOMAIN proposal /\ p >= cutoff /\ ~proposal[p].executed
      /\ now >= proposal[p].submitted + Delay
      /\ WeightOf(p, "yes") >= (calculate_total_weight * Effective(proposal[p].quorum)) \div Whole
  BY DEF Executable
<1>2. proposal[p] \in Proposal
  BY <1>1 DEF GovernanceInv, VoteInv, ProposalTypes
<1>3. proposal[p].quorum \in Nat
  <2> DEFINE Q == 0..Whole
  <2>1. \A q \in Q : q \in Nat
    BY DEF Whole
  <2>2. Proposal = [op : Operations, quorum : Q, votes : [Addresses -> Ballots],
                    eta : Nat, submitted : Nat, executed : BOOLEAN]
    BY DEF Proposal
  <2> HIDE DEF Q
  <2>3. proposal[p].quorum \in Q
    BY <1>2, <2>2
  <2> QED
    BY <2>1, <2>3
<1>4. calculate_total_weight \in Nat /\ WeightOf(p, "yes") \in Nat
  BY WeightTypes DEF GovernanceInv
<1>5. Whole * (WeightOf(p, "yes") + 1) > MinQuorum * calculate_total_weight
  BY <1>1, <1>3, <1>4, QuorumRounding
<1>6. proposal'[p].executed
  <2>1. "executed" \in DOMAIN proposal[p]
    BY <1>2 DEF Proposal
  <2> QED
    BY <1>1, <2>1, Zenon DEF MarkExecuted
<1> QED
  BY <1>1, <1>5, <1>6 DEF Backed

\* So does the proposal an operation of the admin consumes. The id 0, which is
\* consumed unchecked, has waited as well, because its eta has.
LEMMA ApprovalBacks ==
    ASSUME GovernanceInv, Guardians # {}, NEW op, NEW id, Approved(op, id),
           id = 0 \/ Consume(id), NEW kinds, op.kind \in kinds
    PROVE  Backed(kinds)
<1>1. id \in DOMAIN proposal /\ proposal[id].op = op /\ ~proposal[id].executed /\ now >= proposal[id].eta
  BY DEF Approved, Matching
<1>2. CASE id = 0
  <2>1. proposal[id].eta >= proposal[id].submitted + Delay
    BY <1>1 DEF GovernanceInv, DelayKept
  <2>2. proposal[id] \in Proposal /\ now \in Int /\ Delay \in Int
    BY <1>1, GovernanceAssumption DEF GovernanceInv, VoteInv, ProposalTypes
  <2>3. proposal[id].eta \in Int /\ proposal[id].submitted \in Int
    BY <2>2 DEF Proposal
  <2>4. now >= proposal[id].submitted + Delay
    BY <1>1, <2>1, <2>2, <2>3
  <2> QED
    BY <1>1, <1>2, <2>4 DEF Backed
<1>3. CASE id # 0
  <2>1. Executable(id) /\ MarkExecuted(id)
    BY <1>3 DEF Consume
  <2> QED
    BY <1>1, <2>1, ExecutedBacks
<1> QED
  BY <1>2, <1>3

\* The four ways the configuration is written.
LEMMA ConfigBacked ==
    ASSUME GovernanceInv, Guardians # {}, ConfigWriters
    PROVE  /\ config'.stop # config.stop => Backed({"EmergencyStop"})
           /\ config'.fee # config.fee \/ config'.treasury # config.treasury =>
                 \/ Backed({"SetProtocolFee"})
                 \/ queued # NoChange /\ now >= queued.at
<1>1. config \in Configs /\ None \in Holders /\ 0 \in Nat /\ TRUE \in BOOLEAN /\ FALSE \in BOOLEAN
  BY DEF GovernanceInv, SettingTypes, Holders
<1>2. ASSUME NEW p \in DOMAIN proposal, ExecuteProposal(p)
      PROVE  /\ config'.stop # config.stop => Backed({"EmergencyStop"})
             /\ config'.fee # config.fee \/ config'.treasury # config.treasury =>
                   Backed({"SetProtocolFee"})
  <2>1. Executable(p) /\ MarkExecuted(p) /\ config' = Applied(proposal[p].op)
    BY <1>2 DEF ExecuteProposal
  <2>2. proposal[p].op \in Operations
    BY DEF GovernanceInv, VoteInv, ProposalTypes, Proposal
  <2>3. /\ config'.stop # config.stop => proposal[p].op.kind = "EmergencyStop"
        /\ config'.fee # config.fee \/ config'.treasury # config.treasury
             => proposal[p].op.kind = "SetProtocolFee"
    BY <1>1, <2>1, <2>2, AppliedFacts
  <2> QED
    BY <2>1, <2>3, ExecutedBacks
<1>3. ASSUME NEW id, EnableEmergencyStop(id) \/ DisableEmergencyStop(id)
      PROVE  /\ Backed({"EmergencyStop"})
             /\ config'.fee = config.fee /\ config'.treasury = config.treasury
  <2>1. PICK s \in BOOLEAN : config' = [config EXCEPT !.stop = s]
    BY <1>3 DEF EnableEmergencyStop, DisableEmergencyStop
  <2>2. config'.fee = config.fee /\ config'.treasury = config.treasury
    BY <1>1, <2>1, ConfigUpdate, Zenon
  <2>3. PICK n \in {0, 1} : Approved(Operation("EmergencyStop", admin, None, n), id) /\ Consume(id)
    BY <1>3 DEF EnableEmergencyStop, DisableEmergencyStop
  <2>4. Operation("EmergencyStop", admin, None, n).kind \in {"EmergencyStop"}
    BY DEF Operation
  <2>5. Backed({"EmergencyStop"})
    BY <2>3, <2>4, ApprovalBacks
  <2> QED
    BY <2>2, <2>5
<1>4. ASSUME NEW id, NEW t \in Treasuries, NEW fee \in Fees, QueueTreasuryChange(t, fee, id)
      PROVE  Backed({"SetProtocolFee"}) /\ config'.stop = config.stop
  <2>1. config' = WithFee(config, fee, t) /\ t \in Holders /\ fee \in Nat
    BY <1>4, GovernanceAssumption DEF QueueTreasuryChange, Holders, WithFee
  <2>2. config'.stop = config.stop
    BY <1>1, <2>1, FeeUpdate
  <2>3. Approved(Operation("SetProtocolFee", t, None, fee), id) /\ Consume(id)
    BY <1>4 DEF QueueTreasuryChange
  <2>4. Operation("SetProtocolFee", t, None, fee).kind \in {"SetProtocolFee"}
    BY DEF Operation
  <2> QED
    BY <2>2, <2>3, <2>4, ApprovalBacks
<1>5. CASE ExecuteTreasuryChange
  <2>1. /\ queued # NoChange /\ now >= queued.at
        /\ config' = WithFee(config, queued.fee, queued.treasury)
    BY <1>5 DEF ExecuteTreasuryChange, WithFee
  <2>2. queued.fee \in Nat /\ queued.treasury \in Holders
    BY DEF GovernanceInv, SettingTypes
  <2>3. config'.stop = config.stop
    BY <1>1, <2>1, <2>2, FeeUpdate
  <2> QED
    BY <2>1, <2>3
<1> QED
  BY <1>2, <1>3, <1>4, <1>5 DEF ConfigWriters

\* With guardians configured, no call changes the admin, the emergency stop,
\* fee and treasury, the accepted tokens or the recoveries made unless a
\* proposal about that very change backs it, or a hand-over or a queued
\* treasury change whose delay is over.
THEOREM ChangesCorrect == Spec => ChangesBacked
<1> DEFINE Good ==
        Guardians # {} =>
        /\ admin' # admin =>
              \/ Backed({"RotateAdmin"})
              \/ handover.to = admin' /\ now >= handover.at + ClaimDelay
        /\ config'.stop # config.stop => Backed({"EmergencyStop"})
        /\ config'.fee # config.fee \/ config'.treasury # config.treasury =>
              \/ Backed({"SetProtocolFee"})
              \/ queued # NoChange /\ now >= queued.at
        /\ tokens' # tokens => Backed({"AddAcceptedToken", "RemoveAcceptedToken"})
        /\ recovered' # recovered => Backed({"RecoverStrandedFunds"})
<1>1. GovernanceInv /\ [Next]_vars => [Good]_vars
  <2> SUFFICES ASSUME GovernanceInv, [Next]_vars, Guardians # {} PROVE Good
    OBVIOUS
  <2>1. Written
    BY Writes
  <2>2. admin' # admin => \/ Backed({"RotateAdmin"})
                          \/ handover.to = admin' /\ now >= handover.at + ClaimDelay
    <3>1. ASSUME NEW p \in DOMAIN proposal, ExecuteProposal(p), proposal[p].op.kind = "RotateAdmin"
          PROVE  Backed({"RotateAdmin"})
      <4>1. Executable(p) /\ MarkExecuted(p)
        BY <3>1 DEF ExecuteProposal
      <4> QED
        BY <3>1, <4>1, ExecutedBacks
    <3>2. ASSUME NEW new, NEW id, RotateAdmin(new, id) PROVE Backed({"RotateAdmin"})
      <4>1. Approved(Operation("RotateAdmin", new, None, 0), id) /\ id = 0
        BY <3>2 DEF RotateAdmin
      <4>2. Operation("RotateAdmin", new, None, 0).kind \in {"RotateAdmin"}
        BY DEF Operation
      <4> QED
        BY <4>1, <4>2, ApprovalBacks
    <3>3. CASE ClaimAdminRole
      BY <3>3 DEF ClaimAdminRole
    <3> QED
      BY <2>1, <3>1, <3>2, <3>3 DEF Written, AdminWriters
  <2>3. /\ config'.stop # config.stop => Backed({"EmergencyStop"})
        /\ config'.fee # config.fee \/ config'.treasury # config.treasury =>
              \/ Backed({"SetProtocolFee"})
              \/ queued # NoChange /\ now >= queued.at
    BY <2>1, ConfigBacked DEF Written
  <2>4. tokens' # tokens => Backed({"AddAcceptedToken", "RemoveAcceptedToken"})
    <3>1. ASSUME NEW id, NEW t \in Tokens,
                 RemoveAcceptedToken(t, id) \/ \E d \in Decimals : AddAcceptedToken(t, d, id)
          PROVE  Backed({"AddAcceptedToken", "RemoveAcceptedToken"})
      <4>1. PICK k \in {"AddAcceptedToken", "RemoveAcceptedToken"}, d \in Decimals \cup {0} :
                Approved(Operation(k, t, None, d), id) /\ Consume(id)
        BY <3>1 DEF RemoveAcceptedToken, AddAcceptedToken
      <4>2. Operation(k, t, None, d).kind \in {"AddAcceptedToken", "RemoveAcceptedToken"}
        BY DEF Operation
      <4> QED
        BY <4>1, <4>2, ApprovalBacks
    <3> QED
      BY <2>1, <3>1 DEF Written, TokenWriters
  <2>5. recovered' # recovered => Backed({"RecoverStrandedFunds"})
    <3>1. ASSUME NEW id, NEW to, NEW t, NEW a, NEW r, RecoverStrandedFunds(to, t, a, r, id)
          PROVE  Backed({"RecoverStrandedFunds"})
      <4>1. Approved(Operation("RecoverStrandedFunds", to, t, a), id) /\ Consume(id)
        BY <3>1 DEF RecoverStrandedFunds
      <4>2. Operation("RecoverStrandedFunds", to, t, a).kind \in {"RecoverStrandedFunds"}
        BY DEF Operation
      <4> QED
        BY <4>1, <4>2, ApprovalBacks
    <3> QED
      BY <2>1, <3>1 DEF Written, RecoveryWriters
  <2> QED
    BY <2>2, <2>3, <2>4, <2>5
<1>2. ChangesBacked <=> [][Good]_vars
  BY DEF ChangesBacked
<1> HIDE DEF Good
<1> QED
  BY <1>1, <1>2, GovernanceInit, GovernanceStep, PTL DEF Spec

-----------------------------------------------------------------------------
(* Governance implements Mandate.                                          *)

\* What an observer sees of the proposals.
View == <<admin, Agenda, Pending, Closed>>

\* A call that keeps the admin, the cutoff and what the observer sees of each
\* proposal.
LEMMA AgendaKept ==
    ASSUME UNCHANGED <<admin, cutoff>>, DOMAIN proposal' = DOMAIN proposal,
           \A p \in DOMAIN proposal :
               TermsOf(p)' = TermsOf(p) /\ proposal'[p].executed = proposal[p].executed
    PROVE  UNCHANGED View
<1>1. Agenda' = Agenda
  BY DEF Agenda
<1>2. Pending' = Pending /\ Closed' = Closed
  BY DEF Pending, Closed
<1> QED
  BY <1>1, <1>2 DEF View

\* Marking a proposal that is not closed closes it and rewrites nothing.
LEMMA MarkCloses ==
    ASSUME ProposalTypes, NEW p \in DOMAIN proposal, MarkExecuted(p)
    PROVE  /\ Agenda' = Agenda /\ Closed' = Closed \cup {p}
           /\ cutoff' = cutoff => Pending' = Pending \ {p}
           /\ proposal' \in [0..(nextId - 1) -> Proposal]
<1> DEFINE x == TRUE
           r == [proposal[p] EXCEPT !.executed = x]
<1>1. proposal' = [proposal EXCEPT ![p] = r] /\ proposal[p] \in Proposal
  BY DEF MarkExecuted, ProposalTypes
<1>2. r.executed = x /\ r.op = proposal[p].op /\ r.quorum = proposal[p].quorum /\ r.eta = proposal[p].eta
  <2> HIDE DEF x
  <2> QED
    BY <1>1 DEF Proposal
<1>3. r \in Proposal
  BY <1>1, ProposalMarked
<1> HIDE DEF r
<1>4. /\ DOMAIN proposal' = DOMAIN proposal /\ proposal'[p] = r
      /\ \A q \in DOMAIN proposal : q # p => proposal'[q] = proposal[q]
  BY <1>1
<1>5. \A q \in DOMAIN proposal : TermsOf(q)' = TermsOf(q)
  BY <1>2, <1>4 DEF TermsOf
<1>6. Agenda' = Agenda
  BY <1>4, <1>5 DEF Agenda
<1>7. proposal'[p].executed
  BY <1>2, <1>4
<1>8. Closed' = Closed \cup {p}
  BY <1>4, <1>7 DEF Closed
<1>9. cutoff' = cutoff => Pending' = Pending \ {p}
  BY <1>4, <1>7 DEF Pending
<1>10. proposal' \in [0..(nextId - 1) -> Proposal]
  BY <1>1, <1>3 DEF ProposalTypes
<1> QED
  BY <1>6, <1>8, <1>9, <1>10

\* A proposal that is executed, cancelled or consumed closes.
LEMMA CloseStep ==
    ASSUME GovernanceInv, NEW p \in DOMAIN proposal, ~proposal[p].executed, MarkExecuted(p),
           UNCHANGED <<admin, cutoff>>
    PROVE  Mandated!Next
<1>1. ProposalTypes /\ nextId \in Nat /\ nextId <= MaxProposals /\ MaxProposals \in Nat
  BY GovernanceAssumption DEF GovernanceInv, VoteInv, SettingTypes, ProposalTypes
<1>2. p \in 0..(MaxProposals - 1)
  BY <1>1 DEF ProposalTypes
<1>3. p \in DOMAIN Agenda \ Closed
  BY DEF Agenda, Closed
<1>4. Agenda' = Agenda /\ Closed' = Closed \cup {p} /\ Pending' = Pending \ {p}
  BY <1>1, MarkCloses
<1>5. Mandated!Close(p)
  BY <1>3, <1>4 DEF Mandated!Close
<1> QED
  BY <1>2, <1>5 DEF Mandated!Next

\* A change of the admin that moves the cutoff past every proposal, brought about
\* by a pending proposal or by none.
LEMMA SucceedStep ==
    ASSUME GovernanceInv, admin' \in Addresses, cutoff' = nextId,
           \/ UNCHANGED proposal
           \/ \E p \in Pending : MarkExecuted(p)
    PROVE  Mandated!Next
<1>1. ProposalTypes /\ nextId \in Nat
  BY DEF GovernanceInv, VoteInv, ProposalTypes
<1>2. /\ Agenda' = Agenda
      /\ Closed' = Closed \/ \E p \in Pending : Closed' = Closed \cup {p}
      /\ proposal' \in [0..(nextId - 1) -> Proposal]
  <2>1. CASE UNCHANGED proposal
    <3>1. Agenda' = Agenda /\ Closed' = Closed
      BY <2>1 DEF Agenda, Closed, TermsOf
    <3> QED
      BY <1>1, <2>1, <3>1 DEF ProposalTypes
  <2>2. CASE \E p \in Pending : MarkExecuted(p)
    <3>1. PICK p \in Pending : MarkExecuted(p)
      BY <2>2
    <3>2. p \in DOMAIN proposal
      BY DEF Pending
    <3> QED
      BY <1>1, <3>1, <3>2, MarkCloses
  <2> QED
    BY <2>1, <2>2
<1>3. Pending' = {}
  <2> SUFFICES ASSUME NEW p \in 0..(nextId - 1), p >= nextId PROVE FALSE
    BY <1>2 DEF Pending
  <2> QED
    BY <1>1
<1>4. Mandated!Succeed
  BY <1>2, <1>3 DEF Mandated!Succeed
<1> QED
  BY <1>4 DEF Mandated!Next

\* submit_proposal puts a new proposal on the agenda and leaves the others alone.
LEMMA SubmitsStep ==
    ASSUME GovernanceInv, NEW op \in Operations, NEW q \in Quorums, NEW slack \in EtaSlack,
           NEW n, n = nextId, SubmitProposal(op, q, now + Delay + slack)
    PROVE  Mandated!Next
<1> DEFINE eta == now + Delay + slack
           new == [op |-> op, quorum |-> q, votes |-> [a \in Addresses |-> "none"],
                   eta |-> eta, submitted |-> now, executed |-> FALSE]
<1>0. PICK t : t = [op |-> op, quorum |-> q, eta |-> eta]
  OBVIOUS
<1>1. /\ ProposalTypes /\ n \in Nat /\ MaxProposals \in Nat /\ n < MaxProposals
      /\ cutoff \in 0..n /\ now \in 1..MaxTime
  BY GovernanceAssumption DEF GovernanceInv, VoteInv, SettingTypes, ProposalTypes, SubmitProposal
<1>2. /\ proposal' = [p \in 0..n |-> IF p = n THEN new ELSE proposal[p]]
      /\ UNCHANGED <<admin, cutoff>>
  BY DEF SubmitProposal
<1>3. ~new.executed /\ [op |-> new.op, quorum |-> new.quorum, eta |-> new.eta] = t
  BY <1>0
<1> HIDE DEF new
<1>4. /\ DOMAIN proposal = 0..(n - 1) /\ n \notin DOMAIN proposal
      /\ 0..n = DOMAIN proposal \cup {n}
  BY <1>1 DEF ProposalTypes
<1>5. /\ DOMAIN proposal' = DOMAIN proposal \cup {n} /\ proposal'[n] = new
      /\ \A p \in DOMAIN proposal : proposal'[p] = proposal[p]
  BY <1>2, <1>4
<1>6. Closed' = Closed
  BY <1>3, <1>5 DEF Closed
<1>7. Pending' = Pending \cup {n}
  <2>1. n >= cutoff
    BY <1>1
  <2> QED
    BY <1>2, <1>3, <1>4, <1>5, <2>1 DEF Pending
<1>8. DOMAIN Agenda = DOMAIN proposal
  BY DEF Agenda
<1>9. Agenda' = [p \in DOMAIN Agenda \cup {n} |-> IF p = n THEN t ELSE Agenda[p]]
  <2>1. Agenda' = [p \in DOMAIN proposal \cup {n} |-> TermsOf(p)']
    BY <1>5 DEF Agenda
  <2>2. \A p \in DOMAIN proposal : TermsOf(p)' = Agenda[p]
    BY <1>5 DEF TermsOf, Agenda
  <2>3. TermsOf(n)' = t
    BY <1>3, <1>5 DEF TermsOf
  <2> QED
    BY <1>4, <1>8, <2>1, <2>2, <2>3
<1>10. t \in Proposable
  BY <1>0, <1>1 DEF Proposable
<1>11. Mandated!Submit(n)
  <2>1. n \notin DOMAIN Agenda
    BY <1>4, <1>8
  <2>2. \E u \in Proposable :
            Agenda' = [p \in DOMAIN Agenda \cup {n} |-> IF p = n THEN u ELSE Agenda[p]]
    BY <1>9, <1>10
  <2>3. UNCHANGED <<admin, Closed>>
    BY <1>2, <1>6
  <2> QED
    BY <1>7, <2>1, <2>2, <2>3, Zenon DEF Mandated!Submit
<1>12. n \in 0..(MaxProposals - 1)
  BY <1>1
<1> QED
  BY <1>11, <1>12 DEF Mandated!Next

\* Every call is a step of Mandate or keeps what an observer sees.
LEMMA MandateStep ==
    ASSUME GovernanceInv, [Next]_vars
    PROVE  Mandated!Next \/ UNCHANGED View
<1>1. /\ ProposalTypes /\ admin \in Addresses /\ DOMAIN proposal = 0..(nextId - 1)
      /\ VoteInv' /\ admin' \in Addresses
  <2>1. VoteInv'
    BY VoteNext DEF GovernanceInv
  <2> QED
    BY <2>1 DEF GovernanceInv, VoteInv, ProposalTypes
<1>2. CASE UNCHANGED <<admin, proposal, cutoff>>
  BY <1>2, AgendaKept DEF TermsOf
<1>3. ASSUME NEW id, Consume(id), UNCHANGED <<admin, cutoff>>
      PROVE  Mandated!Next \/ UNCHANGED View
  <2>1. CASE id = 0
    BY <1>2, <1>3, <2>1 DEF Consume
  <2>2. CASE id # 0
    BY <1>3, <2>2, CloseStep DEF Consume, Executable
  <2> QED
    BY <2>1, <2>2
<1>4. CASE Governing
  <2>1. CASE \E op \in Operations, q \in Quorums, slack \in EtaSlack :
                 SubmitProposal(op, q, now + Delay + slack)
    <3>1. PICK op \in Operations, q \in Quorums, slack \in EtaSlack :
              SubmitProposal(op, q, now + Delay + slack)
      BY <2>1
    <3>2. PICK n : n = nextId
      OBVIOUS
    <3> QED
      BY <3>1, <3>2, SubmitsStep
  <2>2. ASSUME NEW p \in DOMAIN proposal, NEW ballot \in {"yes", "no"}, VoteProposal(p, ballot)
        PROVE  UNCHANGED View
    <3> DEFINE cast == [proposal[p].votes EXCEPT ![admin] = ballot]
               r == [proposal[p] EXCEPT !.votes = cast]
    <3>1. proposal' = [proposal EXCEPT ![p] = r] /\ UNCHANGED <<admin, cutoff>>
      BY <2>2 DEF VoteProposal
    <3>2. proposal[p] \in Proposal
      BY <1>1 DEF ProposalTypes
    <3> HIDE DEF cast
    <3>3. /\ r.op = proposal[p].op /\ r.quorum = proposal[p].quorum
          /\ r.eta = proposal[p].eta /\ r.executed = proposal[p].executed
      BY <3>2 DEF Proposal
    <3> HIDE DEF r
    <3>4. \A q \in DOMAIN proposal :
              TermsOf(q)' = TermsOf(q) /\ proposal'[q].executed = proposal[q].executed
      BY <3>1, <3>3 DEF TermsOf
    <3> QED
      BY <3>1, <3>4, AgendaKept
  <2>3. ASSUME NEW p \in DOMAIN proposal, ExecuteProposal(p)
        PROVE  Mandated!Next \/ UNCHANGED View
    <3>1. MarkExecuted(p) /\ ~proposal[p].executed /\ p \in Pending
      BY <2>3 DEF ExecuteProposal, Executable, Pending
    <3>2. CASE proposal[p].op.kind = "RotateAdmin"
      <4>1. cutoff' = nextId
        BY <2>3, <3>2 DEF ExecuteProposal
      <4> QED
        BY <1>1, <3>1, <4>1, SucceedStep
    <3>3. CASE proposal[p].op.kind # "RotateAdmin"
      <4>1. UNCHANGED <<admin, cutoff>>
        BY <2>3, <3>3 DEF ExecuteProposal
      <4> QED
        BY <3>1, <4>1, CloseStep
    <3> QED
      BY <3>2, <3>3
  <2>4. ASSUME NEW p \in DOMAIN proposal, CancelProposal(p) PROVE Mandated!Next
    BY <2>4, CloseStep DEF CancelProposal
  <2>5. ASSUME NEW a \in Candidates, RemoveGuardian(a) \/ \E w \in Weights : AddGuardian(a, w)
        PROVE  Mandated!Next \/ UNCHANGED View
    <3>1. UNCHANGED proposals /\ admin' = admin
      BY <2>5 DEF RemoveGuardian, AddGuardian
    <3> QED
      BY <1>2, <3>1 DEF proposals
  <2> QED
    BY <1>4, <2>1, <2>2, <2>3, <2>4, <2>5 DEF Governing
<1>5. CASE Succession
  <2>1. CASE ClaimAdminRole
    BY <1>1, <2>1, SucceedStep DEF ClaimAdminRole
  <2>2. CASE \/ (\E new \in Heirs : ProposeAdmin(new)) \/ CancelAdminProposal
             \/ ExecuteTreasuryChange \/ CancelTreasuryChange
    BY <1>2, <2>2 DEF ProposeAdmin, CancelAdminProposal, ExecuteTreasuryChange,
                      CancelTreasuryChange, proposals
  <2> QED
    BY <1>5, <2>1, <2>2 DEF Succession
<1>6. CASE Tick \/ UNCHANGED vars
  BY <1>2, <1>6 DEF Tick, vars, proposals
<1>7. ASSUME NEW id \in 0..MaxProposals, Administering(id)
      PROVE  Mandated!Next \/ UNCHANGED View
  <2>1. ASSUME NEW new \in Successors, RotateAdmin(new, id) PROVE Mandated!Next
    BY <1>1, <2>1, SucceedStep DEF RotateAdmin
  <2>2. CASE EnableEmergencyStop(id) \/ DisableEmergencyStop(id)
    BY <1>3, <2>2 DEF EnableEmergencyStop, DisableEmergencyStop
  <2>3. ASSUME NEW t \in Tokens,
               RemoveAcceptedToken(t, id) \/ \E d \in Decimals : AddAcceptedToken(t, d, id)
        PROVE  Mandated!Next \/ UNCHANGED View
    BY <1>3, <2>3 DEF RemoveAcceptedToken, AddAcceptedToken
  <2>4. ASSUME NEW to \in Addresses, NEW t \in Tokens, NEW a \in RecoveryAmounts,
               NEW r \in RecoveryIds, RecoverStrandedFunds(to, t, a, r, id)
        PROVE  Mandated!Next \/ UNCHANGED View
    BY <1>3, <2>4 DEF RecoverStrandedFunds
  <2>5. ASSUME NEW t \in Treasuries, NEW fee \in Fees, QueueTreasuryChange(t, fee, id)
        PROVE  Mandated!Next \/ UNCHANGED View
    BY <1>3, <2>5 DEF QueueTreasuryChange
  <2> QED
    BY <1>7, <2>1, <2>2, <2>3, <2>4, <2>5 DEF Administering
<1> QED
  BY <1>4, <1>5, <1>6, <1>7 DEF Next

\* Governance implements Mandate: whatever is submitted, voted on, executed and
\* cancelled in whichever order, and however the admin role changes hands, a
\* proposal keeps its terms, closes once, and is void under a later admin.
THEOREM MandateCorrect == Spec => MandateRefined
<1>1. Init => Mandated!Init
  BY GovernanceAssumption DEF Init, Mandated!Init, Agenda, Pending, Closed
<1>2. GovernanceInv /\ [Next]_vars => [Mandated!Next]_(Mandated!vars)
  <2>1. UNCHANGED View => UNCHANGED Mandated!vars
    BY DEF View, Mandated!vars
  <2> QED
    BY <2>1, MandateStep
<1> QED
  BY <1>1, <1>2, GovernanceInit, GovernanceStep, PTL DEF Spec, MandateRefined, Mandated!Spec
=============================================================================
