SPECIFICATION WorkspacesSpec
CONSTANTS
    Paths <- OnePath
    Watcher = watcher
    Tools = {tool}
    QueueCapacity = 1
    FaultKinds = {"walk", "storage"}
    MaxChanges = 2
    MaxFaults = 1

    RemovalKeys = {k1, k2}
    Resolvers = {resolver}
    Ttl = 0
    MaxIds = 2
    MaxRowCount = 1
    MaxPlans = 2
    MaxTime = 1

    s1 = s1
    s2 = s2
    t1 = t1
    t2 = t2
    n1 = n1
    Sessions <- MCSessions
    Works <- MCWorks
    Notes <- MCNotes
    MaxResumeEvents = 1
    RetrievalLimit = 1
    MaxHour = 4

    Chunks <- MCChunks
    FileOf <- MCFileOf
    Limits = {1, 2}
    Unit = 2
    Weights <- MCWeights
    Rankings <- MCRankings
    StructuralLimit = 2
    MaxEdits = 1

    Nodes <- MCNodes
    Files <- MCFiles
    Edges <- MCEdges
    NodeLimits = {1, 3}
    EdgeLimits = {3}
    Depths = {1, 2}

    Analyses <- mcAnalyses
    Configs <- mcConfigs
    Servings <- mcServings
    MaxDepth = 2
    MaxAttempts = 2
    MaxTurns = 4
INVARIANTS SidesTypeOK RemovedAsPreviewed RemovedForEver WatchersReturn ResumedWorkIsWhole RecallKeepsTheFreshest
    SearchShowsStructure FindsWhatIsNear IndexedAsRead
PROPERTIES RowsNeverGoBack
SYMMETRY SessionSymmetry
CHECK_DEADLOCK FALSE
