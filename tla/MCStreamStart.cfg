CONSTANTS
    InitialBackoff = 4
    MaxBackoff = 10
    Grown <- MCGrown
    RetryLimits = {0}
    Streams = {s1, s2}
    CallbackReadsConnection = TRUE
    CountCap = 3
SPECIFICATION StreamSpec
PROPERTY ConnectCallReturns
CHECK_DEADLOCK FALSE
