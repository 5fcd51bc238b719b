CONSTANTS
    wI = 3
    wO = 2
    nKeys = 4
    Selectors <- MCSelectors
    Key <- MCKey
    groupSize = 1
    maxTries = 7
    Patience <- MCPatience
SPECIFICATION FairSpec
INVARIANTS
    FlagsHonest
    Thorough
PROPERTIES
    NeverWorse
    Terminates
CHECK_DEADLOCK FALSE
