CONSTANTS
    wI = 2
    wO = 2
    nKeys = 3
    Selectors <- MCSelectors
    Key <- MCKey
    groupSize = 1
    maxTries = 2
    TriesAtLevel = 1
    FlipCounts = {4}
SPECIFICATION FairSpec
INVARIANTS
    CachesCurrent
    BestIsKept
PROPERTIES
    RejectRestores
    Terminates
CHECK_DEADLOCK FALSE
