SPECIFICATION Spec
CONSTANTS
    Requests = {q1, q2}
    Limit = 1
    Window = 2
    Skew = 1
    MaxTime = 3
    MaxHitFaults = 1
INVARIANTS FailsClosed
CHECK_DEADLOCK FALSE
