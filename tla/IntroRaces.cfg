SPECIFICATION Spec
CONSTANTS
    None = None
    f1 = f1
    f2 = f2
    f3 = f3
    j1 = j1
    c1 = c1
    c2 = c2
    s1 = s1
    s2 = s2
    Seekers = {j1}
    IntroPrice = 20
    DeclineRefund = 15
    DeliveryAward = 50
    BounceAward = 25
    Fac <- OneFac
    Contacts <- Contact
    EmailContacts <- Contact
    Sess <- TwoSessions
    MaxEarnPerDay = 60
    RequestLimit = 1
    ApproveLimit = 1
    ConfirmLimit = 1
    ManualAward = TRUE
    SystemUser = TRUE
    StartCredits = 40
    Ops <- RaceOps
    LastDay = 1
    MaxAttempts = 2
    MaxGens = 1
    MaxDups = 1
SYMMETRY Symmetric
INVARIANTS TypeOK MoneyOnlyWhenSettled AwardFlagMatchesBooks RelayIsTraceable OneRelayRecord SettlementsBounded CreditOnDelivery
PROPERTY NeverReopened
CHECK_DEADLOCK FALSE
