\* One metered subscription: two merchants configure limits before it exists,
\* its own reconfigures them between calls; interval and usage charges, also
\* over the lifetime cap, in two billing periods.
SPECIFICATION MeteredSpec
CONSTANTS
    References = {r1, r2, r3}
    r1 = r1
    r2 = r2
    r3 = r3
    LimitChoices <- SomeLimits
    s1 = s1
    m2 = m2
    alice = alice
    m1 = m1
    tr = tr
    Subs = {s1}
    Subscribers = {alice}
    Merchants = {m1, m2}
    Treasury = tr
    SubscriberOf <- OneSubscriber
    MerchantOf <- OneMerchant
    Amount = 2
    Interval = 2
    GracePeriod = 0
    AutoPauseThreshold = 0
    Cooldown = 1
    FeeBps = 0
    MerchantFeeBps = 0
    PremiumBps = 5000
    MinTopup = 1
    ActiveCap = 2
    MaxTime = 3
    Caps <- NoneOr4
    Times <- OnlyNone
    Trials = {0}
    ChargeAmounts = {2}
    DepositAmounts = {4}
    BulkAmounts = {}
    DelegatedAmounts = {}
    BuyoutAmounts = {}
    UsageAmounts = {1, 2}
    OneOffAmounts = {}
    RefundAmounts = {}
    MerchantAmounts = {}
    RecoveryAmounts = {}
    Blockable = {}
    Pausable = {}
    MaxBalance = 8
    MaxAmount = 8
    MaxCount = 3
    Users = {}
    Stoppable = FALSE
    RenewChoices = {}
SYMMETRY ReferenceSymmetry
CHECK_DEADLOCK FALSE
INVARIANTS LimitsOwned RateBounded SnapshotsReconcile
PROPERTY UsageCapHolds
