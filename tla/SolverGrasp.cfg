CONSTANTS
    wI = 3
    wO = 1
    nKeys = 6
    Selectors <- PoolSelectors
    Key <- PoolKey
    groupSize = 3
    maxTries = 1
    MaxElites = 3
    NoIncreases = {0, 1}
SPECIFICATION FairSpec
INVARIANTS
    PoolKeepsBest
    GreedyMissesNothing
    RelinkNoWorse
PROPERTIES
    Terminates
CHECK_DEADLOCK FALSE
