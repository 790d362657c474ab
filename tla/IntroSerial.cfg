SPECIFICATION Spec
CONSTANTS
    None = None
    f1 = f1
    f2 = f2
    f3 = f3
    j1 = j1
    c1 = c1
    c2 = c2
    s1 = s1
    s2 = s2
    Seekers = {j1}
    IntroPrice = 20
    DeclineRefund = 15
    DeliveryAward = 50
    BounceAward = 25
    Fac <- TwoFacs
    Contacts <- TwoContacts
    EmailContacts <- Contact
    Sess <- OneSession
    MaxEarnPerDay = 100
    RequestLimit = 2
    ApproveLimit = 2
    ConfirmLimit = 1
    ManualAward = TRUE
    SystemUser = TRUE
    StartCredits = 40
    Ops <- SerialOps
    LastDay = 0
    MaxAttempts = 2
    MaxGens = 2
    MaxDups = 1
SYMMETRY Symmetric
INVARIANT AnswerMatchesBooks
INVARIANT MailedLinkIsLive
PROPERTY FirstAnswerIsFinal
CHECK_DEADLOCK FALSE
