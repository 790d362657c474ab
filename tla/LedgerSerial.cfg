SPECIFICATION Spec
CONSTANTS
    u1 = u1
    u2 = u2
    s1 = s1
    s2 = s2
    Users <- TwoUsers
    Sess <- OneSession
    MaxEarnPerDay = 7
    Lifetime = 1
    EarnAmounts <- Awards
    SpendAmounts <- Prices
    RefundAmounts <- Refunds
    PurchaseAmounts <- Purchases
    LastDay = 2
    MaxRows = 4
INVARIANTS TypeOK
PROPERTY ImplementsWallet
CHECK_DEADLOCK FALSE
