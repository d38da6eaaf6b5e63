SPECIFICATION FairSpec
CONSTANTS
    Events = {e1}
    Requests = {r1, r2}
    Jobs = {j1, j2}
    Concurrency = 2
    MaxAttempts = 2
    MaxDeliveries = 2
    MaxReplays = 1
    OldReplays = TRUE
    MaxFaults = 2
    NoEvent = none
INVARIANTS TypeOK AckedPendingIsOwned FailedIsAnnounced
PROPERTIES AckedSettles
