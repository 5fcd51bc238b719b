CONSTANTS
    wI = 3
    wO = 3
    Problems <- OneDontCare
    TapChoices <- MCThreeTables
    maxTries = 2
SPECIFICATION SolveSpec
INVARIANTS
    VariantsShareHash
CHECK_DEADLOCK FALSE
