\* One subscription charged in every way, alone and in batches, with and without
\* keys, while statements are compacted and a key's lifetime changes; fees, a
\* lifetime cap, refunds, emergency withdrawals, cancellation, merchant
\* withdrawals.
SPECIFICATION ReceiptsSpec
CONSTANTS
    s1 = s1
    alice = alice
    m1 = m1
    tr = tr
    k1 = k1
    k2 = k2
    Subs = {s1}
    Subscribers = {alice}
    Merchants = {m1}
    Treasury = tr
    SubscriberOf <- OneSubscriber
    MerchantOf <- OneMerchant
    Amount = 2
    Interval = 1
    GracePeriod = 2
    AutoPauseThreshold = 0
    Cooldown = 1
    FeeBps = 5000
    MerchantFeeBps = 100
    PremiumBps = 5000
    MinTopup = 2
    ActiveCap = 2
    MaxTime = 2
    Caps <- OnlyNone
    Times <- NoneOr2
    Trials = {}
    ChargeAmounts = {2}
    DepositAmounts = {3}
    BulkAmounts = {}
    DelegatedAmounts = {}
    BuyoutAmounts = {3}
    UsageAmounts = {1}
    OneOffAmounts = {1}
    RefundAmounts = {2}
    MerchantAmounts = {1}
    RecoveryAmounts = {3}
    Blockable = {}
    Pausable = {}
    MaxBalance = 3
    MaxAmount = 3
    MaxCount = 3
    Users = {"subscriber"}
    Stoppable = FALSE
    RenewChoices = {}
    Keys = {k1, k2}
    IdemHistory = 1
    DefaultTtl = 2
    TtlChoices = {1}
    KeepChoices = {1}
CONSTRAINT ShortBooks
SYMMETRY KeySymmetry
INVARIANTS StatementsReconcile BooksBalance KeyChargedOnce
CHECK_DEADLOCK FALSE
