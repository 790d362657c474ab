SPECIFICATION FairSpec
CONSTANTS
    None = None
    i1 = i1
    i2 = i2
    e1 = e1
    e2 = e2
    u1 = u1
    u2 = u2
    u3 = u3
    u4 = u4
    s1 = s1
    s2 = s2
    Ids <- TwoIds
    Emails <- TwoEmails
    Scenes <- ClosingRaces
    Rows <- FourRows
    Sess <- TwoSessions
    MaxChanges = 1
    MaxDups = 1
INVARIANT TypeOK
INVARIANT BonusOncePerEmail
INVARIANT HistoryKept
INVARIANT ArchivedOnce
PROPERTY DeadIdentityLeaves
CHECK_DEADLOCK FALSE
