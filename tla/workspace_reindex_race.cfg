SPECIFICATION Spec
CONSTANTS
    Paths <- MCPaths
    Watcher = watcher
    Tools = {tool}
    QueueCapacity = 1
    FaultKinds = {}
    MaxChanges = 2
    MaxFaults = 0
INVARIANTS SettledIsIndexed
CHECK_DEADLOCK FALSE
