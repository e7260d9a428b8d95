SPECIFICATION Spec
CONSTANTS
    s1 = s1
    s2 = s2
    m1 = m1
    m2 = m2
    usdc = usdc
    eurc = eurc
    sales = sales
    NoLabel = NoLabel
    Subs = {s1, s2}
    Merchants = {m1, m2}
    Tokens = {usdc, eurc}
    Labels = {}
    TokenOf <- TokenEach
    LabelOf <- Unlabelled
    MerchantAtCreation <- AllToM1
    Funds <- Funds3
    ChargeAmounts = {2}
    WithdrawAmounts = {1}
    SubAccountAmounts = {}
    RefundAmounts = {}
    DisputeAmounts = {1}
    SplitChoices = {}
    ScheduleChoices = {}
    Windows = {1}
    DefaultWindow = 2
    Rotations <- M1AndBack
    MaxDisputes = 2
    MaxUnbacked = 0
    MaxTime = 2
INVARIANTS
    EarningsNonNegative
    TokensIsolated
PROPERTIES
    DisputesArbitrated
    RotationKeepsClaims
CHECK_DEADLOCK FALSE
