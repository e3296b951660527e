CONSTANTS
    queue = queue
    rob = rob
    wire = wire
    tick = tick
    c1 = c1
    c2 = c2
    t = t
    slot = slot
    a = a
    Nodes <- MCNodes
    Edges <- MCEdges
    Clocks <- MCClocks
    Tags <- MCTags
    slotItemId = slot
    Values = {a}
    ClockOf <- MCClockOf
    Layout <- MCLayout
    Bandwidth <- MCBandwidth
    Latency <- MCLatency
    MaxBlocks = 3
    MaxWrites = 2
    INVALID = INVALID
    NUM_DIM_ERROR = NUM_DIM_ERROR
    OOB_DIM_ERROR = OOB_DIM_ERROR
    UNDEF = UNDEF
SPECIFICATION Spec
CHECK_DEADLOCK FALSE
INVARIANTS
    PlacesApart
    RangesExact
    ReadsOwn
