SPECIFICATION Spec
CONSTANTS
    Processes = {p1}
    Concurrency = 1
    MaxAttempts = 2
    MaxUses = 1
    LastMinute = 1
    MaxFaults = 1
INVARIANTS CountedOnce
CHECK_DEADLOCK FALSE
