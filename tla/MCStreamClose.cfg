CONSTANTS
    InitialBackoff = 4
    MaxBackoff = 10
    Grown <- MCGrown
    RetryLimits = {0}
    Streams = {s1, s2}
    CallbackReadsConnection = FALSE
    CountCap = 3
SPECIFICATION StreamSpec
INVARIANT CloseLeavesNothingOpen
CHECK_DEADLOCK FALSE
