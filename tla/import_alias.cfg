SPECIFICATION ResolutionSpec
CONSTANTS
    Docs <- MCDocs
    Values <- MCValues
    Simple <- MCSimple
    Contents <- MCContents
INVARIANT EveryFactResolved
CHECK_DEADLOCK FALSE
