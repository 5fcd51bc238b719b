CONSTANTS
    wI = 3
    wO = 2
    Selectors <- MCSelectors
    nKeys = 4
    Key <- MCKey
    Starts <- MCStarts
    Levels <- MCLevels
SPECIFICATION FairSpec
INVARIANTS
    ResultOk
    ReadIsDecided
PROPERTIES
    GivesUpHopeless
    Terminates
CHECK_DEADLOCK FALSE
