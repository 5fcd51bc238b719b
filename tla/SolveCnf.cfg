CONSTANTS
    wI = 3
    wO = 2
    Problems <- BothKinds
    TapChoices <- MCTapChoices
    maxTries = 3
SPECIFICATION FairSolveSpec
INVARIANTS
    AnswersAreSolutions
    BoundKept
PROPERTIES
    TapsHopeless
    SolveTerminates
CHECK_DEADLOCK FALSE
