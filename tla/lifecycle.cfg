SPECIFICATION FairSpec
CONSTANTS
    Tenants = {t1}
    Procs = {p1, p2}
    MaxAttempts = 2
    MaxRequests = 4
    MaxFaults = 2
    NoTenant = none
INVARIANTS TypeOK ServedIsStored CloneIsWhole
PROPERTIES DeletedLosesStorage
