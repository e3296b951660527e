CONSTANTS
    i = i
    j = j
    a = a
    b = b
    t = t
    s = s
    e = e
    Clocks = {1, 2}
    Values = {z, a, b}
    Cycles = {}
    Keys = {0, 1, 2}
    MAXDICT = 4
    Items = {i, j}
    NEWITEM = NEWITEM
    DELITEM = DELITEM
    ZERO = z
    NULL = NULL
    Givens <- Late
    EVENTS_PER_CHUNK = 2
    OFFSETS = 8
    MaxCycle = 2
    MaxDicts = 2
SYMMETRY Symmetry
SPECIFICATION Spec
INVARIANT ReadsAsWritten
