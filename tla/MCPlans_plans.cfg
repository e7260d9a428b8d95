\* Two plan versions, two subscriptions of one subscriber, and every limit.
SPECIFICATION Spec
CONSTANTS
    s1 = s1
    s2 = s2
    alice = alice
    m1 = m1
    Subs = {s1, s2}
    Subscribers = {alice}
    Merchants = {m1}
    Day = 2
    CreateCap = 1
    DefaultActiveCap = 2
    MaxScan = 2
    MaxTime = 2
    MaxSettings = 1
    MaxPlans = 2
    MaxPrepaid = 2
    Offers <- BasicOrCapped
    DirectTerms <- OnlyBasic
    CreditLimits = {3}
    ConcurrencyLimits = {1}
    ActiveCaps = {1}
    MerchantLimits = {1}
    CapChoices <- OneOrNone
    DepositAmounts = {2}
CONSTRAINT FewSettings
SYMMETRY SubSymmetry
INVARIANTS
    TermsFollowPlan
    CapNeverExceeded
    CreationRate
PROPERTIES
    ExposureGuarded
    ReplaysExplained
CHECK_DEADLOCK FALSE
