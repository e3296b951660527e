CONSTANTS
    a = a
    b = b
    Values = {a, b}
    NONE = NONE
    NULL = NULL
    CHUNK = 2
    MAXCHUNKS = 2
    OFFSETS = 4
    Uses <- Tags
    MaxCycle = 3
SPECIFICATION AnswersSpec
CHECK_DEADLOCK FALSE
INVARIANT
    FlipsAgree
