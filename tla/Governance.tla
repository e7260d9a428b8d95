----------------------------- MODULE Governance -----------------------------
(***************************************************************************)
(* Who may change the vault's administration and when: guardians and their *)
(* proposals (governance.rs), the admin's operations that need an approved *)
(* proposal (admin.rs, lib.rs), rotation and two-step hand-over of the     *)
(* admin role, and the queue of treasury changes.                          *)
(*                                                                         *)
(* An operation is what a proposal carries: kind, target, target2, target3.*)
(* Left out because they only refuse: nonces of votes and rotations, the   *)
(* cooldown between changes of one setting, the token balance a recovery   *)
(* needs (module Vault has its transfer) and the live subscriptions that   *)
(* keep a token from being removed. An entrypoint is one atomic step.      *)
(***************************************************************************)
EXTENDS Integers, FiniteSets, Functions

CONSTANTS
    Addresses,      \* admins, guardians, treasuries, recipients and tokens
    Tokens,         \* those that are tokens
    FirstAdmin,     \* the admin and the token given to init
    FirstToken,
    Operations,     \* operations that proposals carry
    Quorums,        \* quorum_bps that proposals carry
    EtaSlack,       \* eta of a proposal beyond the minimum delay
    Candidates,     \* addresses made guardians
    Weights,        \* weights given to them
    Successors,     \* addresses given to rotate_admin
    Heirs,          \* addresses given to propose_admin
    Treasuries,     \* treasury and fee_bps that admins ask for
    Fees,
    Decimals,       \* decimals of an added token
    RecoveryIds,
    RecoveryAmounts,
    Delay,          \* MIN_TIMELOCK_DELAY
    ClaimDelay,     \* ADMIN_PROPOSAL_COOLDOWN_SECS
    ClaimWindow,    \* PROPOSAL_WINDOW_SECS
    TreasuryDelay,  \* TREASURY_CHANGE_DELAY_SECS
    MaxProposals,   \* proposals submitted before the model stops submitting more
    MaxTime         \* the clock stops here

None == -1
Whole == 10000      \* one, in basis points
MinQuorum == 6700
MaxFee == 500
ScanLength == 10

Kinds == {"RotateAdmin", "SetProtocolFee", "UpgradeContract", "EmergencyStop",
          "RecoverStrandedFunds", "AddAcceptedToken", "RemoveAcceptedToken",
          "SetDisputeWindow", "SetOracleConfig"}
Operation(k, t, t2, t3) == [kind |-> k, target |-> t, target2 |-> t2, target3 |-> t3]

ASSUME GovernanceAssumption ==
    /\ FirstAdmin \in Addresses /\ None \notin Addresses /\ IsFiniteSet(Addresses)
    /\ Tokens \subseteq Addresses /\ FirstToken \in Tokens
    /\ Candidates \subseteq Addresses /\ Treasuries \subseteq Addresses
    /\ Operations \subseteq [kind : Kinds, target : Addresses,
                             target2 : Addresses \cup {None}, target3 : Nat]
    /\ Quorums \subseteq Nat /\ EtaSlack \subseteq Int
    /\ Weights \subseteq Nat /\ Successors \subseteq Addresses /\ Heirs \subseteq Addresses
    /\ Fees \subseteq Nat /\ Decimals \subseteq Nat /\ RecoveryAmounts \subseteq Nat
    /\ Delay \in Nat /\ ClaimDelay \in Nat /\ ClaimWindow \in Nat
    /\ TreasuryDelay \in Nat /\ MaxProposals \in Nat /\ MaxTime \in Nat \ {0}

VARIABLES
    now,        \* ledger timestamp, 1 at the start
    admin,      \* DataKey::Admin
    weight,     \* DataKey::Guardians, 0 for an address that is no guardian
    nextId,     \* DataKey::NextProposalId
    proposal,   \* DataKey::Proposal(id) of the ids handed out so far
    cutoff,     \* proposals below it are invalidated
    handover,   \* the two-step admin proposal
    config,     \* fee, treasury, emergency stop, dispute window, oracle
    queued,     \* DataKey::PendingTreasuryChange
    tokens,     \* decimals of accepted tokens, None for the others
    recovered   \* DataKey::Recovery(recovery_id) that are set

proposals == <<nextId, proposal, cutoff>>
settings == <<config, queued, tokens, recovered>>
vars == <<now, admin, weight, proposals, handover, settings>>

Ballots == {"yes", "no", "none"}
NoHandover == [to |-> None, at |-> 0]
NoChange == [treasury |-> None, fee |-> 0, at |-> 0]
Proposal == [op : Operations, quorum : 0..Whole, votes : [Addresses -> Ballots],
             eta : Nat, submitted : Nat, executed : BOOLEAN]

-----------------------------------------------------------------------------
(* Weights and quorums.                                                    *)

Guardians == {a \in Addresses : weight[a] > 0}
calculate_total_weight == SumFunctionOnSet(weight, Guardians)

\* calculate_quorum: votes count with the weight their guardian has now.
WeightOf(p, ballot) ==
    SumFunctionOnSet(weight, {a \in Guardians : proposal[p].votes[a] = ballot})

Effective(quorum) == IF quorum > MinQuorum THEN quorum ELSE MinQuorum

\* The conditions of do_execute_proposal.
Executable(p) ==
    /\ p \in DOMAIN proposal /\ p >= cutoff /\ ~proposal[p].executed
    /\ now >= proposal[p].submitted + Delay /\ now >= proposal[p].eta
    /\ proposal[p].op.kind # "UpgradeContract"
    /\ WeightOf(p, "yes") >= (calculate_total_weight * Effective(proposal[p].quorum)) \div Whole

MarkExecuted(p) == proposal' = [proposal EXCEPT ![p].executed = TRUE]

\* What an executed proposal writes besides the admin; recoveries and token
\* changes are left to the caller.
Applied(op) ==
    IF op.kind = "SetProtocolFee" THEN [config EXCEPT !.fee = op.target3, !.treasury = op.target2]
    ELSE IF op.kind = "EmergencyStop" THEN [config EXCEPT !.stop = (op.target3 # 0)]
    ELSE IF op.kind = "SetDisputeWindow" THEN [config EXCEPT !.window = op.target3]
    ELSE IF op.kind = "SetOracleConfig" THEN [config EXCEPT !.oracle = op.target]
    ELSE config

-----------------------------------------------------------------------------
(* Proposals.                                                              *)

Wellformed(op) ==
    /\ op.kind = "SetProtocolFee" => op.target3 <= MaxFee /\ op.target2 # None
    /\ op.kind = "SetDisputeWindow" => op.target3 # 0

\* Anyone may submit a proposal.
SubmitProposal(op, quorum, eta) ==
    /\ nextId < MaxProposals
    /\ quorum <= Whole /\ Wellformed(op) /\ eta >= now + Delay
    /\ nextId' = nextId + 1
    /\ proposal' = [p \in 0..nextId |->
          IF p = nextId
          THEN [op |-> op, quorum |-> quorum, votes |-> [a \in Addresses |-> "none"],
                eta |-> eta, submitted |-> now, executed |-> FALSE]
          ELSE proposal[p]]
    /\ UNCHANGED <<now, admin, weight, cutoff, handover, settings>>

\* Mutant: any guardian votes with its own signature.
VoteAsGuardian(p, ballot) ==
    /\ p \in DOMAIN proposal /\ p >= cutoff /\ ~proposal[p].executed
    /\ now < proposal[p].eta
    /\ \E g \in Guardians : proposal' = [proposal EXCEPT ![p].votes[g] = ballot]
    /\ UNCHANGED <<now, admin, weight, nextId, cutoff, handover, settings>>

\* The voter is the stored admin, who must be a guardian too.
VoteProposal(p, ballot) ==
    /\ admin \in Guardians
    /\ p \in DOMAIN proposal /\ p >= cutoff /\ ~proposal[p].executed
    /\ now < proposal[p].eta
    /\ proposal' = [proposal EXCEPT ![p].votes[admin] = ballot]
    /\ UNCHANGED <<now, admin, weight, nextId, cutoff, handover, settings>>

\* Anyone may execute a proposal that has its quorum.
ExecuteProposal(p) ==
    /\ Executable(p)
    /\ MarkExecuted(p)
    /\ config' = Applied(proposal[p].op)
    /\ IF proposal[p].op.kind = "RotateAdmin"
       THEN admin' = proposal[p].op.target /\ cutoff' = nextId
       ELSE UNCHANGED <<admin, cutoff>>
    /\ UNCHANGED <<now, weight, nextId, handover, queued, tokens, recovered>>

\* Cancelling sets the flag that executing sets.
CancelProposal(p) ==
    /\ p \in DOMAIN proposal /\ ~proposal[p].executed
    /\ MarkExecuted(p)
    /\ UNCHANGED <<now, admin, weight, nextId, cutoff, handover, settings>>

AddGuardian(a, w) ==
    /\ w # 0
    /\ weight' = [weight EXCEPT ![a] = w]
    /\ UNCHANGED <<now, admin, proposals, handover, settings>>

RemoveGuardian(a) ==
    /\ weight' = [weight EXCEPT ![a] = 0]
    /\ UNCHANGED <<now, admin, proposals, handover, settings>>

-----------------------------------------------------------------------------
(* Operations of the admin that need an approval.                          *)

\* The pending proposals for op among the last ids; the scan starts at the id
\* that is still free.
Matching(op) ==
    {p \in DOMAIN proposal : p > nextId - ScanLength /\ proposal[p].op = op /\ ~proposal[p].executed}

\* require_multisig_approval answers id. The first match from above decides; the
\* weight it takes for the total is that of the opposing votes. Without
\* guardians the answer is 0, which is the id of the first proposal as well.
Approved(op, id) ==
    IF Guardians = {} THEN id = 0
    ELSE /\ id \in Matching(op) /\ \A p \in Matching(op) : p <= id
         /\ now >= proposal[id].eta
         /\ WeightOf(id, "yes") >= (WeightOf(id, "no") * proposal[id].quorum) \div Whole

\* Mutant: an approval is only marked, its quorum is not checked again.
ConsumeUnchecked(id) == IF id = 0 THEN UNCHANGED proposal ELSE MarkExecuted(id)

\* consume_multisig_proposal executes the proposal with all conditions of
\* do_execute_proposal; what it writes, the operation has written already.
Consume(id) == IF id = 0 THEN UNCHANGED proposal ELSE Executable(id) /\ MarkExecuted(id)

\* rotate_admin invalidates all proposals before it consumes the approval, so
\* that only the id 0 passes.
RotateAdmin(new, id) ==
    /\ ~config.stop /\ new # admin
    /\ Approved(Operation("RotateAdmin", new, None, 0), id)
    /\ id = 0
    /\ admin' = new /\ cutoff' = nextId
    /\ UNCHANGED <<now, weight, nextId, proposal, handover, settings>>

EnableEmergencyStop(id) ==
    /\ ~config.stop
    /\ Approved(Operation("EmergencyStop", admin, None, 1), id)
    /\ config' = [config EXCEPT !.stop = TRUE]
    /\ Consume(id)
    /\ UNCHANGED <<now, admin, weight, nextId, cutoff, handover, queued, tokens, recovered>>

DisableEmergencyStop(id) ==
    /\ config.stop
    /\ Approved(Operation("EmergencyStop", admin, None, 0), id)
    /\ config' = [config EXCEPT !.stop = FALSE]
    /\ Consume(id)
    /\ UNCHANGED <<now, admin, weight, nextId, cutoff, handover, queued, tokens, recovered>>

AddAcceptedToken(t, d, id) ==
    /\ Approved(Operation("AddAcceptedToken", t, None, d), id)
    /\ tokens' = [tokens EXCEPT ![t] = d]
    /\ Consume(id)
    /\ UNCHANGED <<now, admin, weight, nextId, cutoff, handover, config, queued, recovered>>

RemoveAcceptedToken(t, id) ==
    /\ t # FirstToken
    /\ Approved(Operation("RemoveAcceptedToken", t, None, 0), id)
    /\ tokens' = [tokens EXCEPT ![t] = None]
    /\ Consume(id)
    /\ UNCHANGED <<now, admin, weight, nextId, cutoff, handover, config, queued, recovered>>

RecoverStrandedFunds(to, t, a, recovery, id) ==
    /\ a > 0
    /\ Approved(Operation("RecoverStrandedFunds", to, t, a), id)
    /\ recovery \notin recovered
    /\ recovered' = recovered \cup {recovery}
    /\ Consume(id)
    /\ UNCHANGED <<now, admin, weight, nextId, cutoff, handover, config, queued, tokens>>

\* Also set_protocol_fee. The values are queued and written at once.
QueueTreasuryChange(t, fee, id) ==
    /\ fee <= MaxFee /\ queued = NoChange
    /\ Approved(Operation("SetProtocolFee", t, None, fee), id)
    /\ queued' = [treasury |-> t, fee |-> fee, at |-> now + TreasuryDelay]
    /\ config' = [config EXCEPT !.fee = fee, !.treasury = t]
    /\ Consume(id)
    /\ UNCHANGED <<now, admin, weight, nextId, cutoff, handover, tokens, recovered>>

ExecuteTreasuryChange ==
    /\ queued # NoChange /\ now >= queued.at
    /\ config' = [config EXCEPT !.fee = queued.fee, !.treasury = queued.treasury]
    /\ queued' = NoChange
    /\ UNCHANGED <<now, admin, weight, proposals, handover, tokens, recovered>>

CancelTreasuryChange ==
    /\ queued # NoChange
    /\ queued' = NoChange
    /\ UNCHANGED <<now, admin, weight, proposals, handover, config, tokens, recovered>>

-----------------------------------------------------------------------------
(* Two-step hand-over of the admin role.                                   *)

\* An expired hand-over does not block a new one.
ProposeAdmin(new) ==
    /\ ~config.stop
    /\ handover # NoHandover => now > handover.at + ClaimWindow
    /\ handover' = [to |-> new, at |-> now]
    /\ UNCHANGED <<now, admin, weight, proposals, settings>>

\* Mutant: the new admin leaves pending proposals valid.
ClaimKeepingProposals ==
    /\ ~config.stop /\ handover # NoHandover
    /\ now >= handover.at + ClaimDelay /\ now <= handover.at + ClaimWindow
    /\ admin' = handover.to /\ handover' = NoHandover
    /\ UNCHANGED <<now, weight, proposals, settings>>

\* A claim that comes too late fails, and the failure undoes the removal of the
\* hand-over.
ClaimAdminRole ==
    /\ ~config.stop /\ handover # NoHandover
    /\ now >= handover.at + ClaimDelay /\ now <= handover.at + ClaimWindow
    /\ admin' = handover.to /\ handover' = NoHandover
    /\ cutoff' = nextId
    /\ UNCHANGED <<now, weight, nextId, proposal, settings>>

CancelAdminProposal ==
    /\ handover # NoHandover
    /\ handover' = NoHandover
    /\ UNCHANGED <<now, admin, weight, proposals, settings>>

Tick ==
    /\ now < MaxTime /\ now' = now + 1
    /\ UNCHANGED <<admin, weight, proposals, handover, settings>>

-----------------------------------------------------------------------------
Init ==
    /\ now = 1 /\ admin = FirstAdmin
    /\ weight = [a \in Addresses |-> 0]
    /\ nextId = 0 /\ proposal = [p \in {} |-> None] /\ cutoff = 0
    /\ handover = NoHandover /\ queued = NoChange
    /\ config = [fee |-> 0, treasury |-> None, stop |-> FALSE, window |-> 0, oracle |-> None]
    /\ tokens = [t \in Tokens |-> IF t = FirstToken THEN 0 ELSE None]
    /\ recovered = {}

\* Calls any party, or the admin for proposals, may make.
Governing ==
    \/ \E op \in Operations, q \in Quorums, slack \in EtaSlack :
          SubmitProposal(op, q, now + Delay + slack)
    \/ \E p \in DOMAIN proposal :
          \/ \E ballot \in {"yes", "no"} : VoteProposal(p, ballot)
          \/ ExecuteProposal(p) \/ CancelProposal(p)
    \/ \E a \in Candidates : RemoveGuardian(a) \/ \E w \in Weights : AddGuardian(a, w)

Administering(id) ==
    \/ \E new \in Successors : RotateAdmin(new, id)
    \/ EnableEmergencyStop(id) \/ DisableEmergencyStop(id)
    \/ \E t \in Tokens : RemoveAcceptedToken(t, id) \/ \E d \in Decimals : AddAcceptedToken(t, d, id)
    \/ \E to \in Addresses, t \in Tokens, a \in RecoveryAmounts, r \in RecoveryIds :
          RecoverStrandedFunds(to, t, a, r, id)
    \/ \E t \in Treasuries, fee \in Fees : QueueTreasuryChange(t, fee, id)

Succession ==
    \/ \E new \in Heirs : ProposeAdmin(new)
    \/ ClaimAdminRole \/ CancelAdminProposal
    \/ ExecuteTreasuryChange \/ CancelTreasuryChange

Next == Governing \/ Succession \/ Tick \/ \E id \in 0..MaxProposals : Administering(id)

Spec == Init /\ [][Next]_vars

-----------------------------------------------------------------------------
(* Properties.                                                             *)

\* Every variable keeps its range; a stored proposal passed the checks of its
\* submission.
TypeOK ==
    /\ now \in 1..MaxTime /\ admin \in Addresses
    /\ weight \in [Addresses -> Nat]
    /\ nextId \in 0..MaxProposals /\ cutoff \in 0..nextId
    /\ proposal \in [0..(nextId - 1) -> Proposal]
    /\ handover \in [to : Addresses \cup {None}, at : Nat]
    /\ config \in [fee : Nat, treasury : Addresses \cup {None}, stop : BOOLEAN,
                   window : Nat, oracle : Addresses \cup {None}]
    /\ queued \in [treasury : Addresses \cup {None}, fee : Nat, at : Nat]
    /\ tokens \in [Tokens -> Nat \cup {None}]
    /\ recovered \subseteq RecoveryIds

\* No vote outlives the admin who cast it: a proposal that can still be voted
\* on or executed carries votes of the current admin only. (So no proposal
\* ever gathers the votes of two guardians.)
VotesAreAdmins ==
    \A p \in DOMAIN proposal : p >= cutoff =>
        \A a \in Addresses : proposal[p].votes[a] # "none" => a = admin

\* Whichever way the admin role changes hands (proposal, rotate_admin, claim),
\* no proposal submitted before the change can be executed after it.
RotationInvalidates ==
    [][admin' # admin => \A p \in DOMAIN proposal' : p < cutoff']_vars

\* What a proposal was submitted with, and what it may have been.
TermsOf(p) == [op |-> proposal[p].op, quorum |-> proposal[p].quorum, eta |-> proposal[p].eta]
Proposable == [op : Operations, quorum : Quorums,
               eta : {t + Delay + slack : t \in 1..MaxTime, slack \in EtaSlack}]

\* The proposals as an observer sees them.
Agenda == [p \in DOMAIN proposal |-> TermsOf(p)]
Pending == {p \in DOMAIN proposal : p >= cutoff /\ ~proposal[p].executed}
Closed == {p \in DOMAIN proposal : proposal[p].executed}

\* The proposals live as module Mandate promises, through every interleaving of
\* submissions, votes, executions, cancellations and changes of the admin: none
\* is executed twice, rewritten, or valid under a later admin (governance.rs).
Mandated == INSTANCE Mandate WITH
    Ids <- 0..(MaxProposals - 1), Holders <- Addresses, Terms <- Proposable,
    holder <- admin, terms <- Agenda, pending <- Pending, closed <- Closed
MandateRefined == Mandated!Spec

\* A proposal of one of these kinds that backs the present step: it was
\* pending, it has waited out the minimum delay and, unless it is the first
\* one, it is valid, has two thirds of the guardians' weight (rounded down)
\* and is used up.
Backed(kinds) ==
    \E p \in DOMAIN proposal :
        /\ proposal[p].op.kind \in kinds /\ ~proposal[p].executed
        /\ now >= proposal[p].submitted + Delay
        /\ p # 0 => /\ p >= cutoff /\ proposal'[p].executed
                    /\ Whole * (WeightOf(p, "yes") + 1) > MinQuorum * calculate_total_weight

\* With guardians configured, no call changes admin, emergency stop, fee,
\* treasury, accepted tokens or recoveries without a proposal that backs it,
\* or a hand-over or queued treasury change that has waited its time.
ChangesBacked ==
    [][Guardians # {} =>
        /\ admin' # admin =>
              \/ Backed({"RotateAdmin"})
              \/ handover.to = admin' /\ now >= handover.at + ClaimDelay
        /\ config'.stop # config.stop => Backed({"EmergencyStop"})
        /\ config'.fee # config.fee \/ config'.treasury # config.treasury =>
              \/ Backed({"SetProtocolFee"})
              \/ queued # NoChange /\ now >= queued.at
        /\ tokens' # tokens => Backed({"AddAcceptedToken", "RemoveAcceptedToken"})
        /\ recovered' # recovered => Backed({"RecoverStrandedFunds"})]_vars
=============================================================================
