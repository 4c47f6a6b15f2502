SPECIFICATION PacketSpec
CONSTANTS
    Candidates <- MCCandidates
    Histories <- MCHistories
    Budgets = {2, 7}
    PoolLimits = {2, 3}
    HistoryTokens = 3
    Share <- MCShare
    MaxItemTokens = 3
    MaxOffers = 4
INVARIANT RequiredNeverDisplaced
CHECK_DEADLOCK FALSE
