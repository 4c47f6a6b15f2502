SPECIFICATION Spec
CONSTANTS
    Paths <- MCPaths
    Watcher = watcher
    Tools <- NoTools
    QueueCapacity = 1
    FaultKinds = {"walk"}
    MaxChanges = 2
    MaxFaults = 1
PROPERTIES KeepsIndexedFiles
CHECK_DEADLOCK FALSE
