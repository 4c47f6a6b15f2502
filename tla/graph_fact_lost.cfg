CONSTANTS
    w1 = w1
    w2 = w2
    Workers = {w1}
    Paths = {1, 2, 3}
    Refs <- ChainRefs
    MaxAttempts = 2
    RepairModes = {"IfNeeded"}
    InPlaceRefresh = FALSE
    MaxRevision = 4
    MaxStamp = 4
    MaxGeneration = 3
    MaxFaults = 1
SPECIFICATION ServiceSpec
CHECK_DEADLOCK FALSE
INVARIANT NoFactLost
