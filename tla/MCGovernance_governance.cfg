\* Proposals, votes and executions while guardians come and go, and the admin
\* role and the treasury change hands by proposal, rotation, hand-over and queue.
SPECIFICATION Spec
CONSTANTS
    alice = alice
    bob = bob
    usdc = usdc
    eurc = eurc
    rescue = rescue
    Addresses = {alice, bob, usdc, eurc}
    Tokens = {usdc, eurc}
    FirstAdmin = alice
    FirstToken = usdc
    Operations <- Anything
    Quorums = {0, 10001}
    EtaSlack <- Slack
    Candidates = {alice, bob}
    Weights = {1}
    Successors = {bob}
    Heirs = {bob}
    Treasuries = {alice}
    Fees = {50}
    Decimals = {0}
    RecoveryIds = {rescue}
    RecoveryAmounts = {1}
    Delay = 1
    ClaimDelay = 1
    ClaimWindow = 1
    TreasuryDelay = 2
    MaxProposals = 2
    MaxTime = 3
INVARIANTS
    VotesAreAdmins
PROPERTIES
    MandateRefined
    ChangesBacked
CONSTRAINT PairsOfInterest
CHECK_DEADLOCK FALSE
