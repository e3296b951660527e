CONSTANTS
    a = a
    b = b
    Values = {a, b}
    NONE = NONE
    NULL = NULL
    CHUNK = 2
    MAXCHUNKS = 3
    OFFSETS = 6
    Uses <- Tracks
    MaxCycle = 5
SPECIFICATION MCSpec
SYMMETRY Symmetry
CHECK_DEADLOCK FALSE
INVARIANTS
    TypeOK
    Sorted
    WritesAccepted
    HandlersAgree
    FlipsInOrder
    WithinArray
PROPERTY
    ImplementsTagHistory
