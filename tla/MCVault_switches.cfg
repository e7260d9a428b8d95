\* One subscription and every switch: emergency stop, blocklist of subscriber
\* and merchant, merchant pause; one-off charges and recovery included.
SPECIFICATION Spec
CONSTANTS
    s1 = s1
    alice = alice
    m1 = m1
    tr = tr
    Subs = {s1}
    Subscribers = {alice}
    Merchants = {m1}
    Treasury = tr
    SubscriberOf <- OneSubscriber
    MerchantOf <- OneMerchant
    Amount = 2
    Interval = 1
    GracePeriod = 1
    AutoPauseThreshold = 1
    Cooldown = 1
    FeeBps = 5000
    MerchantFeeBps = 0
    PremiumBps = 5000
    MinTopup = 1
    ActiveCap = 2
    MaxTime = 2
    Caps <- OnlyNone
    Times <- OnlyNone
    Trials = {0}
    ChargeAmounts = {2}
    DepositAmounts = {2}
    BulkAmounts = {2}
    DelegatedAmounts = {}
    BuyoutAmounts = {3}
    UsageAmounts = {}
    OneOffAmounts = {1}
    RefundAmounts = {}
    MerchantAmounts = {1}
    RecoveryAmounts = {2}
    Blockable = {alice, m1}
    Pausable = {m1}
    MaxBalance = 4
    MaxAmount = 5
    MaxCount = 3
    Users = {"subscriber", "merchant"}
    Stoppable = TRUE
    RenewChoices = {}
INVARIANTS ActiveCountCovers
PROPERTIES StopFreezesBilling BlockedNeverBilled
CHECK_DEADLOCK FALSE
