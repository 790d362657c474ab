SPECIFICATION WatchedSpec
CONSTANTS
    None = None
    c1 = c1
    c2 = c2
    w1 = w1
    w2 = w2
    Chunks <- TwoChunks
    Workers <- TwoWorkers
    Modes <- AllModes
    MaxFaults = 1
INVARIANT TypeOK
INVARIANT CompletedMeansImported
INVARIANT ContactsOnce
INVARIANT AwardOnce
PROPERTY UploadEnds
CHECK_DEADLOCK FALSE
