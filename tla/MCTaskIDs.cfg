CONSTANTS
    w1 = w1
    w2 = w2
    p1 = p1
    r1 = r1
    r2 = r2
    e1 = e1
    Workflows = {w1, w2}
    Payloads = {p1}
    Results = {r1, Nil}
    Errors = {e1}
    Nil = Nil
    NoRequest = NoRequest
    MaxNano = 2
    ClockMayRepeat = TRUE
    Hash <- MCHash
    PartitionCount = 2
    TransitionTargets = {"PENDING", "SCHEDULED", "DISPATCHED", "COMPLETED", "FAILED", "CANCELLED"}
    WalMayFail = TRUE
    WithClose = TRUE
    MaxSequence = 5
SPECIFICATION Spec
INVARIANT TaskIDsUnique
CHECK_DEADLOCK FALSE
