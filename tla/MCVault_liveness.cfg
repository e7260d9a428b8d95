\* One subscription under fair billing and a running clock, with no grace
\* period, auto-pause after two failures and a lifetime cap or none.
SPECIFICATION FairSpec
CONSTANTS
    s1 = s1
    alice = alice
    m1 = m1
    tr = tr
    Subs = {s1}
    Subscribers = {alice}
    Merchants = {m1}
    Treasury = tr
    SubscriberOf <- OneSubscriber
    MerchantOf <- OneMerchant
    Amount = 2
    Interval = 2
    GracePeriod = 0
    AutoPauseThreshold = 2
    Cooldown = 1
    FeeBps = 0
    MerchantFeeBps = 0
    PremiumBps = 5000
    MinTopup = 1
    ActiveCap = 2
    MaxTime = 4
    Caps <- NoneOr3
    Times <- NoneOr3
    Trials = {1}
    ChargeAmounts = {2}
    DepositAmounts = {1, 2}
    BulkAmounts = {}
    DelegatedAmounts = {}
    BuyoutAmounts = {}
    UsageAmounts = {1}
    OneOffAmounts = {}
    RefundAmounts = {}
    MerchantAmounts = {}
    RecoveryAmounts = {}
    Blockable = {}
    Pausable = {}
    MaxBalance = 2
    MaxAmount = 4
    MaxCount = 3
    Users = {"subscriber"}
    Stoppable = FALSE
    RenewChoices = {TRUE, FALSE}
PROPERTIES ActiveDueSettled ScheduledCancelFires AutoPauseFires
CHECK_DEADLOCK FALSE
