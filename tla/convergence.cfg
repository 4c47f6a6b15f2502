SPECIFICATION ConvergenceSpec
CONSTANTS
    Paths <- MCPaths
    Watcher = watcher
    Tools <- NoTools
    QueueCapacity = 1
    FaultKinds = {"read", "storage", "notify", "stop"}
    MaxChanges = 2
    MaxFaults = 2

    w1 = w1
    w2 = w2
    Refs <- MutualRefs
    MaxAttempts = 2
    RepairModes = {"IfNeeded"}
    InPlaceRefresh = TRUE
    MaxRevision = 2
    MaxStamp = 20
    MaxGeneration = 3
    MaxGraphFaults = 1
INVARIANTS SettledIsIndexed
PROPERTIES KeepsIndexedFiles Converges GraphConverges
CHECK_DEADLOCK FALSE
