SPECIFICATION FairSpec
CONSTANTS
    None = None
    c1 = c1
    c2 = c2
    w1 = w1
    w2 = w2
    Chunks <- TwoChunks
    Workers <- TwoWorkers
    Modes <- OneTask
    MaxFaults = 0
PROPERTY ProgressIsSeen
CHECK_DEADLOCK FALSE
