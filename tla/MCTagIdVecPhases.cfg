CONSTANTS
    a = a
    b = b
    Values = {a, b}
    NONE = NONE
    NULL = NULL
    CHUNK = 2
    MAXCHUNKS = 2
    OFFSETS = 4
    Uses <- Slots
    MaxCycle = 3
SPECIFICATION AnswersSpec
CHECK_DEADLOCK FALSE
INVARIANT
    ReadsLastValue
