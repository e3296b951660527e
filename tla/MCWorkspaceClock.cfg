CONSTANTS
    Kinds = {"play", "waterfall"}
    Layouts <- Both
    NULL = NULL
    MaxTraces = 2
    MaxWindows = 3
    MaxSteps = 1
    MaxCalls = 3
SPECIFICATION Spec
CHECK_DEADLOCK FALSE
INVARIANT ClockIsLive
