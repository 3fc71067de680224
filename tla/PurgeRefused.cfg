SPECIFICATION Spec
CONSTANTS
    Job = {j1, j2}
    File = {f1}
    Appeal = {p1}
    Window = 0
    MaxTime = 1
CHECK_DEADLOCK FALSE
INVARIANT OrderIsSafe
