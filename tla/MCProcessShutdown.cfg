CONSTANTS
    Calls = {c1, c2}
    Requests = {r1, r2}
SPECIFICATION ProcessSpec
INVARIANT CleanExitCutsNoRequest
CHECK_DEADLOCK FALSE
