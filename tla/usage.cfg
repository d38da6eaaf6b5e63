SPECIFICATION FairSpec
CONSTANTS
    Processes = {p1, p2}
    Concurrency = 2
    MaxAttempts = 2
    MaxUses = 2
    LastMinute = 1
    MaxFaults = 2
INVARIANTS TypeOK UseIsInOnePlace CountedIsAudited SentIsCounted
PROPERTIES UsageSettles
CHECK_DEADLOCK FALSE
