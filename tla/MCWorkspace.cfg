CONSTANTS
    Kinds = {"play", "waterfall"}
    Layouts <- Both
    NULL = NULL
    MaxTraces = 2
    MaxWindows = 3
    MaxSteps = 1
    MaxCalls = 3
SPECIFICATION FairSpec
CHECK_DEADLOCK FALSE
INVARIANTS
    TypeOK
    LoaderAlive
    DBsOwned
    TraceIds
    NothingDangles
    CountsRight
PROPERTY
    LoadEnds
