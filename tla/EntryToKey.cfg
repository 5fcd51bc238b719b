CONSTANTS
    wI = 2
    wO = 2
    nKeys = 4
    Selectors <- MCSelectors
    Key <- MCKey
SPECIFICATION Spec
INVARIANTS
    Coherent
    IndexSafe
    EvalAgrees
PROPERTIES
    ImplementsScore
