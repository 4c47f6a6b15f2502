SPECIFICATION ServicesSpec
CONSTANTS
    p1 = p1
    p2 = p2
    a1 = a1
    a2 = a2
    a3 = a3
    b1 = b1
    b2 = b2
    k1 = k1
    k2 = k2
    c1 = c1
    c2 = c2
    d1 = d1

    Writers <- MCActors
    Episodes <- MCItems
    Facts <- MCOthers
    MutationKeys <- MCKeys
    Contracts <- MCForms
    Codes <- MCOne
    MaxVersion = 2
    MaxMembers = 2

    Reviewers <- MCActors
    Lessons <- MCItems
    Failures <- MCOthers
    MaxReviews = 2

    Memories <- MCMemories
    Curators <- MCActors
    MaxVerdicts = 2

    Candidates <- MCCandidates
    Histories <- MCHistories
    Budgets = {2, 7}
    PoolLimits = {2, 3}
    HistoryTokens = 3
    Share <- MCShare
    MaxItemTokens = 3
    MaxOffers = 4

    Sources <- MCItems
    Agents <- MCActors
    Increment = 2
    MaxScore = 4
    MinScore = 2
    MaxItems = 1
    MaxRetries = 2
    MaxRowIds = 2
    MaxTicks = 1

    Docs <- MCDocs
    Values <- MCValues
    Simple <- MCSimple
    Contents <- MCContents

    Names = {"app"}
    Inputs = {"inputs", "other inputs"}
    Causes = {"types"}
    Observations <- MCObservations
    MaxEvents = 5
    AttemptLimit = 1
    EvidenceLimit = 4
    ObservationLimit = 2

    Runs <- MCOthers
    ImportKeys <- MCKeys
    Bundles <- MCForms
    Owners <- MCMemories
    Matching <- MCItems
    MaxRunEvents = 3
INVARIANTS
    TypesOK
    EpisodesReplayRequests
    OneExperiencePerEpisode
    ReplacementsEnd
    DisputesAreRecurrences
    TrustFollowsReviews
    HiddenForTrusted
    RequiredFillTheBudget
    NoIncrementLost
    PlainFactsResolved
    PreviewIsTheEvidence
    RunsAreEvidenceOnce
PROPERTIES
    VerdictsStay
    PinsProtectRows
SYMMETRY Symmetry
CHECK_DEADLOCK FALSE
