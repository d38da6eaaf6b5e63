SPECIFICATION Spec
CONSTANTS
    Tenants = {t1}
    Procs = {p1, p2}
    MaxAttempts = 2
    MaxRequests = 3
    MaxFaults = 0
    NoTenant = none
PROPERTIES PurgesExpiredOnly
