SPECIFICATION Spec
CONSTANTS
    Nodes = {"n1"}
    Calls = {"c1", "c2"}
    On <- OneServer
    Plans = {"free", "max"}
    DefaultPlan = "free"
    PlanLimit <- LimitOfFree
    Unlimited = {"max"}
    MaxUse = 2
    MaxWrites = 2
    MaxFaults = 1
    Nothing = Nothing
    MaxTries = 2
    SyncSubs = {"s1"}
    Products = {"pro", "team", "unmapped"}
    Mapped = {"pro", "team"}
    BillingDefault = "free"
    SyncWorkers = {"h1", "h2"}
    Tolerance = 1
    Gap = 2
    Invoices = TRUE
    Downgrade = TRUE
    MaxStripeClock = 6
    SyncAttempts = 2
    MaxReplays = 1
    MaxSyncFaults = 1
    NoValue = NoValue
    Deliveries = {"d1"}
    Workers = {"w1", "w2"}
    MaxAttempts = 3
    Concurrency = 1
    MaxManual = 1
    MaxCrashes = 1
    MaxCount = 3
    FleetTenants = {"t1", "t2"}
    Runs = {"r1", "r2"}
    MaxFleetFaults = 1
    MaxDeletes = 1
    Nowhere = Nowhere
    Subs = {"s1"}
    Callers = {"c1", "c2"}
    Policies = {"cancel", "detach", "preserve"}
    MaxClock = 2
    MaxCustomers = 2
    MaxBillingFaults = 1
    Tasks = {"k1", "k2"}
    ScopeTenants = {"t1", "t2"}
    Unsafe = {"t2"}
    Bootstrappers = {"drive", "audit"}
    Validators = {"drive"}
    Leavers = {"audit", "drive"}
    Rows = {"r1"}
    Strict = TRUE
    MaxDepth = 3
    MaxChanges = 1
    NoScope = NoScope
    Tenants = {"t1", "t2"}
    MaxConns = 1
    MaxClosing = 1
    MaxFailures = 1
    Strategies = {"subdomain", "path", "request-data"}
    Fallbacks = {"header"}
    MaxChain = 2
    MaxTurns = 1
    MaxRequests = 1
    NoTenant = NoTenant
    Junk = Junk
    States = {"s1", "s2"}
    SsoTenants = {"t1", "t2"}
    Issuers = {"i1", "i2"}
    Callbacks = {"b1", "b2"}
    MaxEdits = 1
    Absent = Absent
    BootTenants = {"t1", "t2"}
    DriverNames = {"schema-pg", "sqlite-memory"}
    Peers = {"drive", "session"}
    MaxBoots = 2
    MaxSlotWrites = 1
    Unset = Unset
    Requests = {"q1", "q2", "q3"}
    Limit = 1
    Window = 3
    Skew = 1
    MaxTime = 3
    MaxHitFaults = 0
    DoctorTenants = {"t1", "t2"}
    Replicas = {"h1"}
    Checkups = {"d1", "d2"}
    Selections = {{"provisioning_stalled", "schema_drift", "queue_health"}, {"replica_lag"}}
    Measured = {"old", "jobs_failed", "down"}
    MaxWorldChanges = 1
    MaxQueryFaults = 1
    Procs = {"p1", "p2"}
    KeepLast = 1
    Listed = 2
    S3 = TRUE
    MaxArchives = 3
    MaxBackupFaults = 1
    MaxLexemes = 3
    Lexemes = {"word", "refused", "skip", "name", "end", "literal", "line", "block", "dollar", "meta",
               "copy", "escape", "quoted", "nested", "header", "crlf"}
INVARIANTS
    TypeOK GrantsWithinLimit OutcomeIsTrue ReportIsTrue RestsInSync CanceledAtRest
    OneCustomer SyncRepairs HandlesWhatWasSigned LeavesWhatItEntered RowsKeepToTheirScope
    ServesItsTenant OpenIsKnown OneLoginPerState NewestAreKept AppliesTheDump ServesOnItsOwnBoot
    ReportsWhatStays AdmitsWithinLimit
PROPERTIES CanceledStaysCanceled
CHECK_DEADLOCK FALSE
