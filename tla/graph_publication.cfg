CONSTANTS
    w1 = w1
    w2 = w2
    Workers <- MCWorkers
    Paths = {1, 2}
    Refs <- MutualRefs
    MaxAttempts = 2
    RepairModes = {"IfNeeded", "Force"}
    InPlaceRefresh = FALSE
    MaxRevision = 2
    MaxStamp = 3
    MaxGeneration = 2
    MaxFaults = 1
SPECIFICATION Spec
SYMMETRY Symmetry
CHECK_DEADLOCK FALSE
INVARIANTS TypeOK PublishedMatchesDocuments ProjectionSound SnapshotsFresh
PROPERTIES RepairFencesGraph ProjectsStoredRevision
    ImplementsContract
