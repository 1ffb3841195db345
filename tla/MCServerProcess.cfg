CONSTANTS
    Calls = {c1, c2}
    Requests = {r1, r2}
SPECIFICATION ProcessSpec
INVARIANTS
    ProcessTypeOK
    CleanExitCutsNoCall
PROPERTIES
    SignalEndsProcess
CHECK_DEADLOCK FALSE
