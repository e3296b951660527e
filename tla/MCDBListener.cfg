CONSTANTS
    e1 = e1
    e2 = e2
    NumClocks = 2
    Divisions <- TwoDivisions
    Ratio <- TwoRatios
    Skew <- TwoSkews
    Internal <- TwoInternals
    Edges = {e1, e2}
    EdgeClock <- EdgePerClock
    Bandwidth <- FirstIsWider
    Items = {1, 2}
    MAXCYCLES = 1
    CYCLE_CHUNK_SIZE = 4
    MaxCycle = 2
    MaxMoves = 2
SPECIFICATION MCSpec
CHECK_DEADLOCK FALSE
INVARIANTS
    TypeOK
    MovesMatch
    BoundsCover
    FirstCycleKnown
    RelativeCyclesFit
