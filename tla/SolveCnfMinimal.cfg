CONSTANTS
    wI = 3
    wO = 2
    Problems <- MinimalThree
    TapChoices <- MCTapChoices
    maxTries = 2
SPECIFICATION SolveSpec
INVARIANTS
    MinimalIsMinimal
CHECK_DEADLOCK FALSE
