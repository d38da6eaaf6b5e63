SPECIFICATION Spec
CONSTANTS
    Tenants = {t1}
    Procs = {p1, p2}
    MaxAttempts = 2
    MaxRequests = 1
    MaxFaults = 1
    NoTenant = none
PROPERTIES ServedCloneIsKept
