CONSTANTS
    MaxWidth = 3
    KeySets <- MCKeySets
    TapCounts = {1, 2}
    Widths = {2, 3}
    Defaults <- BothTools
SPECIFICATION FairSpec
INVARIANTS
    TapsSeparate
    LargestFirst
    CrashIsSingleKey
PROPERTIES
    Terminates
CHECK_DEADLOCK FALSE
