CONSTANTS
    wI = 3
    wO = 1
    nKeys = 6
    Selectors <- WalkSelectors
    Key <- WalkKey
    GroupSizes = {2, 3}
    maxTries = 10
    TriesAtLevel = 2
    maxNaboo = 2
    CounterMax = 2
    SlotBits = {0, 1, 2}
    Mix <- MCMix
SPECIFICATION FairSpec
INVARIANTS
    BestIsKept
    FilterInStep
PROPERTIES
    ImplementsTabuSearch
    Terminates
CHECK_DEADLOCK FALSE
