CONSTANTS
    Freqs <- MCFreqs
    Skews <- MCSkews
    Diffs <- MCDiffs
    MAX_CLOCK_ID = 1
    RATIO_MOD = 16384
    SKEW_MOD = 65536
    MaxClocks = 3
    MaxCycle = 4
    MaxMoves = 5
SPECIFICATION Spec
CHECK_DEADLOCK FALSE
INVARIANTS
    TypeOK
    SharedClocks
    TimeOrder
    PhaseContains
    SumsUndone
    Follows
