CONSTANTS
    w1 = w1
    p1 = p1
    r1 = r1
    r2 = r2
    e1 = e1
    Workflows = {w1}
    Payloads = {p1}
    Results = {r1, r2, Nil}
    Errors = {e1}
    Nil = Nil
    NoRequest = NoRequest
    AnyState = AnyState
    Torn = Torn
    Unread = Unread
    Readers = {client}
    NoClient = NoClient
    MaxNano = 1
    ClockMayRepeat = FALSE
    Hash <- MCHash
    PartitionCount = 2
    TransitionTargets = {"PENDING", "SCHEDULED", "DISPATCHED", "CANCELLED"}
    WalMayFail = TRUE
    WithClose = TRUE
    MaxSequence = 7
SYMMETRY ResultSymmetry
VIEW OpenLog
SPECIFICATION GatewaySpec
INVARIANTS
    GatewayTypeOK
    AcceptedIsKept
    AnswersWereReported
    ToldIsLogged
    OutcomeIsLogged
    AttemptsAreLogged
    CompletedCopyHasResult
    TerminalCopyIsFinal
    TerminalQueryIsExact
    NoMissingTaskCopied
PROPERTIES
    FinalAnswerStands
CHECK_DEADLOCK FALSE
