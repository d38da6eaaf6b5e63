SPECIFICATION Spec
CONSTANTS
    Events = {e1}
    Requests = {r1, r2}
    Jobs = {j1, j2}
    Concurrency = 2
    MaxAttempts = 2
    MaxDeliveries = 2
    MaxReplays = 0
    OldReplays = FALSE
    MaxFaults = 1
    NoEvent = none
PROPERTIES CompletedIsFinal
