SPECIFICATION FairChainSpec
CONSTANTS
    wI = 2
    wO = 2
    wV = 4
    Poison = 15
    Overshifts = {1, 3}
    Selectors <- MCSelectors
    DrawnValues <- MCDrawnValues
    UserLines <- MCUserLines
    Candidates <- MCCandidates
    WordSizes = {2, 3}
INVARIANTS
    Unambiguous
    GeneratedIsRight
PROPERTIES
    KeySetKept
    VerdictReached
CHECK_DEADLOCK FALSE
