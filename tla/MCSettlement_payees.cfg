SPECIFICATION Spec
CONSTANTS
    s1 = s1
    s2 = s2
    m1 = m1
    m2 = m2
    usdc = usdc
    eurc = eurc
    sales = sales
    NoLabel = NoLabel
    Subs = {s1, s2}
    Merchants = {m1, m2}
    Tokens = {usdc}
    Labels = {sales}
    TokenOf <- OneToken
    LabelOf <- FirstLabelled
    MerchantAtCreation <- AllToM1
    Funds <- Funds3
    ChargeAmounts = {1, 3}
    WithdrawAmounts = {}
    SubAccountAmounts = {1}
    RefundAmounts = {1}
    DisputeAmounts = {}
    SplitChoices <- Uneven
    ScheduleChoices <- Weekly
    Windows = {}
    DefaultWindow = 1
    Rotations = {}
    MaxDisputes = 0
    MaxUnbacked = 2
    MaxTime = 2
INVARIANTS
    Covered
    RollUp
CHECK_DEADLOCK FALSE
