CONSTANTS
    w1 = w1
    w2 = w2
    Workers <- MCWorkers
    Paths = {1, 2}
    Refs <- BackRefs
    MaxAttempts = 2
    RepairModes = {"IfNeeded"}
    InPlaceRefresh = TRUE
    MaxRevision = 2
    MaxStamp = 3
    MaxGeneration = 1
    MaxFaults = 1
SPECIFICATION ReadSpec
SYMMETRY Symmetry
CHECK_DEADLOCK FALSE
INVARIANTS ServedIsOneSnapshot
