SPECIFICATION Spec
CONSTANTS
    Clocks = {c1, c2}
    Values = {v1, v2, v3, v4}
    Watched = {v1}
    NULL = NULL
    MAXDICT = 3
    MAXKEY = 3
    MAXKEYDELTA = 2
    MaxFresh = 1
    MaxCycle = 3
SYMMETRY Symmetry
INVARIANTS
    TypeOK
    ReadBack
    NoDanglingDict
    HashMatchesValues
    AbandonedDictFreed
    KeysSuffice
PROPERTIES
    KeysAreStable
    ImplementsTagDict
CHECK_DEADLOCK FALSE
