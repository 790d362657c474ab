SPECIFICATION FairSpec
CONSTANTS
    None = None
    u1 = u1
    u2 = u2
    u3 = u3
    u4 = u4
    k1 = k1
    r1 = r1
    r2 = r2
    r3 = r3
    s1 = s1
    s2 = s2
    Users <- FourUsers
    Owners <- OnePayer
    Payers <- OnePayer
    Checkouts <- OneCheckout
    Codes <- ThreeCodes
    Sess <- TwoSessions
    MaxUses = 1
    Scenes <- PayOrRefer
    MaxDups = 1
INVARIANT TypeOK
INVARIANT GrantsFollowDeliveries
INVARIANT TierMatchesStripe
INVARIANT ActiveCodesBounded
INVARIANT RedemptionsBounded
PROPERTY PaidIsGranted
CHECK_DEADLOCK FALSE
