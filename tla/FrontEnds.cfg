CONSTANTS
    maxTries = 3
SPECIFICATION FairFrontSpec
INVARIANTS
    ZeroMeansPrinted
    LastRowTells
    VerdictIsRight
PROPERTIES
    Ends
CHECK_DEADLOCK FALSE
