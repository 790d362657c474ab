SPECIFICATION Spec
CONSTANTS
    u1 = u1
    u2 = u2
    s1 = s1
    s2 = s2
    Users <- OneUser
    Sess <- TwoSessions
    MaxEarnPerDay = 7
    Lifetime = 1
    EarnAmounts <- Awards
    SpendAmounts <- Prices
    RefundAmounts <- Refunds
    PurchaseAmounts <- Purchases
    LastDay = 2
    MaxRows = 5
SYMMETRY Symmetric
INVARIANTS OverdraftBounded DailyCapBounded SweepsBounded
CHECK_DEADLOCK FALSE
