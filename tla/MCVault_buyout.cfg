\* A grace buyout credits balances no token backs.
SPECIFICATION Spec
CONSTANTS
    s1 = s1
    alice = alice
    m1 = m1
    tr = tr
    Subs = {s1}
    Subscribers = {alice}
    Merchants = {m1}
    Treasury = tr
    SubscriberOf <- OneSubscriber
    MerchantOf <- OneMerchant
    Amount = 2
    Interval = 2
    GracePeriod = 1
    AutoPauseThreshold = 0
    Cooldown = 1
    FeeBps = 0
    MerchantFeeBps = 0
    PremiumBps = 5000
    MinTopup = 1
    ActiveCap = 2
    MaxTime = 5
    Caps <- OnlyNone
    Times <- OnlyNone
    Trials = {}
    ChargeAmounts = {2}
    DepositAmounts = {2}
    BulkAmounts = {}
    DelegatedAmounts = {}
    BuyoutAmounts = {3}
    UsageAmounts = {}
    OneOffAmounts = {}
    RefundAmounts = {}
    MerchantAmounts = {}
    RecoveryAmounts = {}
    Blockable = {}
    Pausable = {}
    MaxBalance = 4
    MaxAmount = 6
    MaxCount = 3
    Users = {"subscriber"}
    Stoppable = FALSE
    RenewChoices = {}
INVARIANTS BuyoutBacked
CHECK_DEADLOCK FALSE
