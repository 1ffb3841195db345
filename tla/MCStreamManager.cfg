CONSTANTS
    InitialBackoff = 4
    MaxBackoff = 10
    Grown <- MCGrown
    RetryLimits = {0, 2}
    Streams = {s1, s2}
    CallbackReadsConnection = FALSE
    CountCap = 3
SPECIFICATION StreamSpec
INVARIANTS
    StreamTypeOK
    ReplacesOnlyDisconnected
PROPERTIES
    CloseEndsLoop
    Reconnects
    ConnectCallReturns
CHECK_DEADLOCK FALSE
