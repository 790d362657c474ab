SPECIFICATION Spec
CONSTANTS
    None = None
    u1 = u1
    x1 = x1
    x2 = x2
    s1 = s1
    s2 = s2
    Users <- OneUser
    Uploads <- TwoUploads
    Owner <- SameOwner
    Sess <- TwoSessions
    MaxPerWeek = 1
    Week = 1
    Scenes <- MailScenes
    LastDay = 2
    MaxFailures = 1
    MaxChanges = 2
INVARIANT TypeOK
INVARIANT MailedOnce
INVARIANT WeeklyBudgetBounded
INVARIANT OptOutTakesEffect
SYMMETRY Symmetric
CHECK_DEADLOCK FALSE
