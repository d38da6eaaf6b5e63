SPECIFICATION Spec
CONSTANTS
    Events = {e1, e2}
    Requests = {r1}
    Jobs = {j1, j2}
    Concurrency = 1
    MaxAttempts = 2
    MaxDeliveries = 2
    MaxReplays = 1
    OldReplays = FALSE
    MaxFaults = 1
    NoEvent = none
PROPERTIES ImplementsLifecycle
