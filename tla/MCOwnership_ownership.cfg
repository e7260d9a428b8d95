\* Two subscriptions of two subscribers: transfers, a delegated payer and a
\* coupon, while subscriptions are billed, paused, cancelled and archived.
SPECIFICATION Spec
CONSTANTS
    s1 = s1
    s2 = s2
    alice = alice
    bob = bob
    c1 = c1
    Subs = {s1, s2}
    Subscribers = {alice, bob}
    Payers = {bob}
    Codes = {c1}
    ActiveCap = 1
    Amount = 4
    MinTopup = 1
    MaxTime = 2
    MaxCount = 2
    MaxGranted = 2
    MaxPrepaid = 2
    ExpiryChoices = {1}
    Deadlines = {2}
    GrantAmounts = {2}
    DepositAmounts = {2}
    CouponChoices <- OneCoupon
SYMMETRY SubSymmetry
INVARIANTS ListsFollowOwner ActiveCountCovers IntentIsOwners PayerWithinGrants RedemptionsExact
CHECK_DEADLOCK FALSE
