CONSTANTS
    InitialBackoff = 1
    MaxBackoff = 1
    Grown <- MCGrown
    RetryLimits = {0}
    Streams = {s1, s2}
    CallbackReadsConnection = FALSE
    CountCap = 1
    TaskTypes = {t1}
    MaxTasks = 2
    NoStream = NoStream
SPECIFICATION WorkerSpec
INVARIANTS
    WorkerTypeOK
    EveryTaskCounted
    AtMostOneTaskAfterStop
PROPERTIES
    StopReturns
    StreamsEndAfterStop
CHECK_DEADLOCK FALSE
