CONSTANTS
    e1 = e1
    e2 = e2
    NumClocks = 2
    Divisions <- TwoDivisions
    Ratio <- TwoRatios
    Skew <- TwoSkews
    Internal <- TwoInternals
    Edges = {e1}
    EdgeClock <- EdgePerClock
    Bandwidth <- TwoPositions
    Items = {1}
    MAXCYCLES = 2
    CYCLE_CHUNK_SIZE = 4
    MaxCycle = 1
    MaxMoves = 1
SPECIFICATION Spec
CHECK_DEADLOCK FALSE
INVARIANT
    WellSetAtEnd
