SPECIFICATION SyncSpec
CONSTANTS
    SyncSubs = {s1}
    Products = {pro, team, unmapped}
    Mapped = {pro, team}
    BillingDefault = free
    SyncWorkers = {w1}
    Tolerance = 5
    Gap = 1
    Invoices = FALSE
    Downgrade = FALSE
    MaxStripeClock = 3
    SyncAttempts = 2
    MaxReplays = 0
    MaxSyncFaults = 0
PROPERTIES CanceledStaysCanceled
