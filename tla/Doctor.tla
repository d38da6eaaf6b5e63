------------------------------- MODULE Doctor -------------------------------
(***************************************************************************)
(* tenant:doctor and GET /health/report: one list of the tenants is read,  *)
(* then ten checks run one after the other against the database, the       *)
(* queues, the archives, the replicas and the breakers of this process,    *)
(* while tenants are provisioned, deleted and repaired around them.  Runs  *)
(* of one process share the probe connections of the replica check.        *)
(*                                                                         *)
(* A fact [kind, on] is something a check measures: a queue with failed    *)
(* jobs, a tenant created over 30 minutes ago, a replica that lags.  The   *)
(* thresholds are the facts' own; the isolation driver is schema-pg.       *)
(***************************************************************************)
EXTENDS Naturals, Sequences

CONSTANTS
  DoctorTenants, Replicas,  \* tenants; configured replicas
  Checkups,                 \* runs of the doctor in this process
  Selections,               \* --check: the sets of checks that are asked for
  Measured,                 \* kinds of facts that occur
  MaxWorldChanges,          \* bound: changes of the world
  MaxQueryFaults            \* bound: queries that fail

DoctorAssumption == {MaxWorldChanges, MaxQueryFaults} \subseteq Nat

VARIABLES
  rowStatus,  \* status of each tenant's row
  schema,     \* "none", "empty" or "migrated": its schema
  facts,
  probes,     \* replicas the process holds a probe connection to
  checkup,    \* each run of the doctor
  steady,     \* what has been wrong ever since the run read its list
  worldChanges, queryFaults

doctor == <<rowStatus, schema, facts, probes, checkup, steady, worldChanges, queryFaults>>

Statuses == {"provisioning", "active", "suspended", "failed", "deleted"}

\* The checks, in the order in which they are registered.
Checks == <<"failed_tenants", "provisioning_stalled", "schema_drift", "migration_state",
            "circuit_breakers", "queue_health", "backup_recency", "replica_lag",
            "connection_pool", "long_running_queries">>

TenantKinds == {"old", "open", "jobs_failed", "jobs_delayed", "jobs_stalled", "no_backup",
                "old_backup", "pool_used", "pool_full", "pool_pending"}
HostKinds == {"primary", "lags", "lags_much", "down"}
QueryKinds == {"slow_query", "very_slow_query"}
WorldFacts == [kind : TenantKinds \cap Measured, on : DoctorTenants]
         \cup [kind : HostKinds \cap Measured, on : Replicas]
         \cup [kind : QueryKinds \cap Measured, on : {"database"}]
Has(kind, on) == [kind |-> kind, on |-> on] \in facts

InfoCodes == {"queue_inspect_failed", "backup_inspect_failed", "pg_stat_activity_unreadable"}
WarnCodes == {"schema_orphan", "migration_inspect_failed", "queue_failed_jobs",
              "queue_delayed_backlog", "queue_stalled", "backup_never_taken", "backup_stale",
              "replica_lag_high", "pool_near_saturation", "pool_pending_acquires",
              "long_running_query"}
ErrorCodes == {"tenant_failed", "provisioning_stalled", "schema_missing", "migrations_never_ran",
               "circuit_open", "replica_unreachable", "replica_not_in_recovery",
               "replica_lag_critical", "pool_saturated", "long_running_query_critical"}
Codes == InfoCodes \cup WarnCodes \cup ErrorCodes
Severity(code) ==
  CASE code \in InfoCodes -> "info" [] code \in WarnCodes -> "warn" [] OTHER -> "error"
-----------------------------------------------------------------------------
\* The checks.  row is the status of the tenant's row in the run's list; the
\* rest is measured when the check gets there.
Issue(code, on) == [code |-> code, on |-> on]
When(condition, code, on) == IF condition THEN {Issue(code, on)} ELSE {}

FailedTenant(t, row) == When(row = "failed", "tenant_failed", t)
Stalled(t, row) == When(row = "provisioning" /\ Has("old", t), "provisioning_stalled", t)
MissingSchema(t, row) == When(row # "deleted" /\ schema[t] = "none", "schema_missing", t)
MigrationState(t, row) == When(row = "active" /\ schema[t] # "migrated", "migrations_never_ran", t)
QueueHealth(t, row) ==
  IF row \notin {"active", "suspended"} THEN {}
  ELSE When(Has("jobs_failed", t), "queue_failed_jobs", t)
       \cup When(Has("jobs_delayed", t), "queue_delayed_backlog", t)
       \cup When(Has("jobs_stalled", t), "queue_stalled", t)
BackupRecency(t, row) ==
  IF row # "active" THEN {}
  ELSE IF Has("no_backup", t) THEN {Issue("backup_never_taken", t)}
  ELSE When(Has("old_backup", t), "backup_stale", t)
OpenCircuits == UNION {When(Has("open", t), "circuit_open", t) : t \in DoctorTenants}
ReplicaLag(h) ==
  CASE Has("down", h) -> {Issue("replica_unreachable", h)}
    [] ~Has("down", h) /\ Has("primary", h) -> {Issue("replica_not_in_recovery", h)}
    [] ~Has("down", h) /\ ~Has("primary", h) /\ Has("lags_much", h) -> {Issue("replica_lag_critical", h)}
    [] OTHER -> When(Has("lags", h), "replica_lag_high", h)
ConnectionPool ==
  UNION {When(Has("pool_full", t), "pool_saturated", t)
         \cup When(Has("pool_used", t) /\ ~Has("pool_full", t), "pool_near_saturation", t)
         \cup When(Has("pool_pending", t), "pool_pending_acquires", t) : t \in DoctorTenants}
LongRunningQueries ==
  When(Has("slow_query", "database"), "long_running_query", "database")
  \cup When(Has("very_slow_query", "database"), "long_running_query_critical", "database")

\* What a check that works through tenants finds at one of them, and what it
\* reports when it cannot look.
PerTenant == {"migration_state", "queue_health", "backup_recency"}
FoundAt(check, t, row) ==
  CASE check = "migration_state" -> MigrationState(t, row)
    [] check = "queue_health"    -> QueueHealth(t, row)
    [] check = "backup_recency"  -> BackupRecency(t, row)
InspectFailed == [migration_state |-> "migration_inspect_failed",
                  queue_health    |-> "queue_inspect_failed",
                  backup_recency  |-> "backup_inspect_failed"]

\* Schemas no tenant of the list accounts for: those of tenants that are
\* deleted but kept, and of every tenant --tenant leaves out.
OrphanSchemas(listed) ==
  {Issue("schema_orphan", t) :
     t \in {u \in DoctorTenants : schema[u] # "none" /\ (u \in DOMAIN listed => listed[u] = "deleted")}}

\* What a check that takes one step reports.
FoundByAll(check, listed) ==
  CASE check = "failed_tenants"       -> UNION {FailedTenant(t, listed[t]) : t \in DOMAIN listed}
    [] check = "provisioning_stalled" -> UNION {Stalled(t, listed[t]) : t \in DOMAIN listed}
    [] check = "schema_drift"         -> (UNION {MissingSchema(t, listed[t]) : t \in DOMAIN listed})
                                         \cup OrphanSchemas(listed)
    [] check = "circuit_breakers"     -> OpenCircuits
    [] check = "connection_pool"      -> ConnectionPool
    [] check = "long_running_queries" -> LongRunningQueries

\* What is wrong now, whoever looks.
TenantProblems(t) ==
  FailedTenant(t, rowStatus[t]) \cup Stalled(t, rowStatus[t]) \cup MissingSchema(t, rowStatus[t])
  \cup MigrationState(t, rowStatus[t]) \cup QueueHealth(t, rowStatus[t])
  \cup BackupRecency(t, rowStatus[t])
Problems ==
  (UNION {TenantProblems(t) : t \in DoctorTenants}) \cup OpenCircuits
  \cup (UNION {ReplicaLag(h) : h \in Replicas}) \cup ConnectionPool \cup LongRunningQueries
-----------------------------------------------------------------------------
CheckupModes == {"once", "report", "watch"}
NoCheckup ==
  [pc |-> "idle", mode |-> "once", scope |-> DoctorTenants, fix |-> FALSE, checks |-> {},
   at |-> 1, todo |-> {}, listed |-> [t \in {} |-> "active"], issues |-> {}, threw |-> {},
   host |-> "none", cut |-> FALSE, exitCode |-> 0]

\* What a row and its schema can be between two operations on the tenant.
StoreFits(s, st) ==
  CASE s = "active"       -> st \in {"none", "empty", "migrated"}
    [] s = "suspended"    -> st = "migrated"
    [] s = "provisioning" -> st \in {"none", "empty"}
    [] s = "failed"       -> st = "empty"
    [] s = "deleted"      -> st \in {"none", "migrated"}
DoctorInit ==
  /\ rowStatus \in [DoctorTenants -> Statuses] /\ schema \in [DoctorTenants -> {"none", "empty", "migrated"}]
  /\ \A t \in DoctorTenants : StoreFits(rowStatus[t], schema[t])
  /\ facts \in SUBSET WorldFacts
  /\ probes = {} /\ checkup = [r \in Checkups |-> NoCheckup] /\ steady = [r \in Checkups |-> {}]
  /\ worldChanges = 0 /\ queryFaults = 0

World == <<rowStatus, schema, facts, worldChanges>>

\* The world around a run: tenants are installed, suspended, deleted and
\* purged, queues and replicas fail and recover.
Moves(t, s, st) ==
  /\ rowStatus' = [rowStatus EXCEPT ![t] = s] /\ schema' = [schema EXCEPT ![t] = st]
  /\ facts' = facts
TenantMoves(t) ==
  \/ rowStatus[t] = "provisioning" /\ Moves(t, "active", "migrated")
  \/ rowStatus[t] = "provisioning" /\ Moves(t, "failed", schema[t])
  \/ rowStatus[t] = "active" /\ Moves(t, "suspended", schema[t])
  \/ rowStatus[t] = "suspended" /\ Moves(t, "active", schema[t])
  \/ rowStatus[t] \in {"active", "suspended"} /\ Moves(t, "deleted", schema[t])
  \/ rowStatus[t] = "deleted" /\ schema[t] # "none" /\ Moves(t, "deleted", "none")
FactMoves(f) ==
  /\ f.kind # "old"
  /\ facts' = IF f \in facts THEN facts \ {f} ELSE facts \cup {f}
  /\ UNCHANGED <<rowStatus, schema>>
WorldChanges ==
  /\ worldChanges < MaxWorldChanges /\ worldChanges' = worldChanges + 1
  /\ \E r \in Checkups : checkup[r].pc \in {"check", "probe"}
  /\ (\E t \in DoctorTenants : TenantMoves(t)) \/ (\E f \in WorldFacts : FactMoves(f))
  /\ UNCHANGED <<probes, checkup, queryFaults>>

SetsCheckup(r, new) == checkup' = [checkup EXCEPT ![r] = new]

\* The command, the request, and the first look of a watch; a watch fixes nothing,
\* --fix or not, and a report asks for everything.  --tenant may name none there is.
Asking(mode, scope, fix, checks) ==
  [NoCheckup EXCEPT !.pc = "list", !.mode = mode, !.scope = scope, !.fix = fix, !.checks = checks]
Asks(r) ==
  /\ checkup[r].pc = "idle"
  /\ \E mode \in CheckupModes, scope \in SUBSET DoctorTenants,
        fix \in BOOLEAN, checks \in Selections :
       /\ mode = "report" => scope = DoctorTenants
       /\ mode \in {"report", "watch"} => ~fix
       /\ SetsCheckup(r, Asking(mode, scope, fix, checks))
  /\ UNCHANGED <<World, probes, queryFaults>>

\* What there is to look at for the n-th check, if it was asked for.
Todo(r, n) ==
  IF n > Len(Checks) \/ Checks[n] \notin checkup[r].checks THEN {}
  ELSE CASE Checks[n] \in PerTenant -> checkup[r].scope
         [] Checks[n] = "replica_lag" -> Replicas
         [] OTHER -> {"all"}
\* The first check from the n-th on that has anything to look at, or the end.
NextCheck(r, n) ==
  {k \in n..Len(Checks) + 1 : /\ k <= Len(Checks) => Todo(r, k) # {}
                              /\ \A j \in n..k - 1 : Todo(r, j) = {}}
Begun(r, new, k) ==
  [new EXCEPT !.at = k, !.pc = IF k > Len(Checks) THEN "end" ELSE "check", !.todo = Todo(r, k)]
GoesOn(r, new, n) == {Begun(r, new, k) : k \in NextCheck(r, n)}

\* repo.all(): the rows as they are now, those in scope.
ListsTenants(r) ==
  /\ checkup[r].pc = "list"
  /\ \E new \in GoesOn(r, [checkup[r] EXCEPT !.listed = [t \in checkup[r].scope |-> rowStatus[t]]], 1) :
       SetsCheckup(r, new)
  /\ UNCHANGED <<World, probes, queryFaults>>

\* A check that stops at the first tenant it cannot look at (a mutant).
StopsThere(r, x, issues) ==
  GoesOn(r, [checkup[r] EXCEPT !.issues = @ \cup issues, !.cut = FALSE, !.host = "none"],
         checkup[r].at + 1)
\* A check has looked at x; it ends with the last thing it has to look at.
Found(r, x, issues) ==
  LET new == [checkup[r] EXCEPT !.pc = "check", !.issues = @ \cup issues, !.todo = @ \ {x},
                                !.cut = FALSE, !.host = "none"]
  IN  IF new.todo = {} THEN GoesOn(r, new, checkup[r].at + 1) ELSE {new}
AtCheck(r, check) ==
  checkup[r].pc = "check" /\ checkup[r].at <= Len(Checks) /\ Checks[checkup[r].at] = check

\* --fix: stalled tenants are saved as failed over the row as it was listed,
\* open breakers are closed.
Fixes(r, issues) ==
  LET ids(code) == {i.on : i \in {j \in issues : j.code = code}}
  IN  IF checkup[r].fix
      THEN /\ rowStatus' = [t \in DoctorTenants |-> IF t \in ids("provisioning_stalled") THEN "failed" ELSE rowStatus[t]]
           /\ facts' = facts \ [kind : {"open"}, on : ids("circuit_open")]
      ELSE UNCHANGED <<rowStatus, facts>>

ChecksAll(r) ==
  /\ \E c \in {"failed_tenants", "provisioning_stalled", "schema_drift", "circuit_breakers",
               "connection_pool", "long_running_queries"} :
       /\ AtCheck(r, c)
       /\ Fixes(r, FoundByAll(c, checkup[r].listed))
       /\ \E new \in Found(r, "all", FoundByAll(c, checkup[r].listed)) : SetsCheckup(r, new)
  /\ UNCHANGED <<schema, worldChanges, probes, queryFaults>>

\* The query for the schemas fails: the check throws, its report holds the
\* error and no issue counts.  The query for the activity is caught; where it
\* has no connection to ask, the check returns no issue and says nothing.
QueryFails(r) ==
  /\ queryFaults < MaxQueryFaults /\ queryFaults' = queryFaults + 1
  /\ \/ \E c \in {"schema_drift", "long_running_queries"} :
          /\ AtCheck(r, c)
          /\ \E new \in GoesOn(r, [checkup[r] EXCEPT !.threw = @ \cup {c}], checkup[r].at + 1) :
               SetsCheckup(r, new)
     \/ /\ AtCheck(r, "long_running_queries")
        /\ \E new \in Found(r, "all", {Issue("pg_stat_activity_unreadable", "database")}) : SetsCheckup(r, new)
  /\ UNCHANGED <<World, probes>>

ChecksTenant(r, t) ==
  /\ \E c \in PerTenant :
       /\ AtCheck(r, c) /\ t \in checkup[r].todo
       /\ \E new \in Found(r, t, FoundAt(c, t, checkup[r].listed[t])) : SetsCheckup(r, new)
  /\ UNCHANGED <<World, probes, queryFaults>>

CannotLook(r, t) ==
  /\ queryFaults < MaxQueryFaults /\ queryFaults' = queryFaults + 1
  /\ \E c \in PerTenant :
       /\ AtCheck(r, c) /\ t \in checkup[r].todo
       /\ \E new \in Found(r, t, {Issue(InspectFailed[c], t)}) : SetsCheckup(r, new)
  /\ UNCHANGED <<World, probes>>

\* The replica check adds the probe connection unless the process has it, asks,
\* and closes it; a run whose connection another one closes may get no answer.
Probes(r, h) ==
  /\ AtCheck(r, "replica_lag") /\ h \in checkup[r].todo
  /\ SetsCheckup(r, [checkup[r] EXCEPT !.pc = "probe", !.host = h, !.cut = FALSE])
  /\ probes' = probes \cup {h}
  /\ UNCHANGED <<World, queryFaults>>
Answers(r, h) ==
  /\ checkup[r].pc = "probe" /\ h = checkup[r].host
  /\ \E issues \in {ReplicaLag(h)} \cup
                   IF checkup[r].cut THEN {{Issue("replica_unreachable", h)}} ELSE {} :
     \E new \in Found(r, h, issues) :
       checkup' = [q \in Checkups |->
                     IF q = r THEN new
                     ELSE IF checkup[q].host = h /\ h \in probes
                          THEN [checkup[q] EXCEPT !.cut = TRUE] ELSE checkup[q]]
  /\ probes' = probes \ {h}
  /\ UNCHANGED <<World, queryFaults>>

\* The exit code, the status of the response; a watch looks again until it is
\* stopped, which is no failure.
ExitCode(issues) == IF \E i \in issues : Severity(i.code) = "error" THEN 1 ELSE 0
CheckupEnds(r) ==
  /\ checkup[r].pc = "end"
  /\ \/ /\ checkup[r].mode # "watch"
        /\ SetsCheckup(r, [checkup[r] EXCEPT !.pc = "over", !.exitCode = ExitCode(checkup[r].issues)])
     \/ /\ checkup[r].mode = "watch"
        /\ SetsCheckup(r, [checkup[r] EXCEPT !.pc = "list", !.issues = {}, !.threw = {}])
     \/ /\ checkup[r].mode = "watch"
        /\ SetsCheckup(r, [checkup[r] EXCEPT !.pc = "over"])
  /\ UNCHANGED <<World, probes, queryFaults>>

Look(r) ==
  \/ Asks(r) \/ ListsTenants(r) \/ ChecksAll(r) \/ QueryFails(r)
  \/ \E t \in DoctorTenants : ChecksTenant(r, t) \/ CannotLook(r, t)
  \/ \E h \in Replicas : Probes(r, h) \/ Answers(r, h)
  \/ CheckupEnds(r)
DoctorNext ==
  /\ WorldChanges \/ \E r \in Checkups : Look(r)
  /\ steady' = [r \in Checkups |->
       CASE checkup'[r].pc \in {"idle", "list"} -> {}
         [] checkup'[r].pc \notin {"idle", "list"} /\ checkup[r].pc = "list" -> Problems'
         [] OTHER -> steady[r] \cap Problems']
DoctorSpec == DoctorInit /\ [][DoctorNext]_doctor
-----------------------------------------------------------------------------
Places == DoctorTenants \cup Replicas \cup {"database"}
Checkup ==
  [pc : {"idle", "list", "check", "probe", "end", "over"}, mode : CheckupModes,
   scope : SUBSET DoctorTenants, fix : BOOLEAN, checks : Selections \cup {{}},
   at : 1 .. Len(Checks) + 1, todo : SUBSET (DoctorTenants \cup Replicas \cup {"all"}),
   listed : UNION {[S -> Statuses] : S \in SUBSET DoctorTenants},
   issues : SUBSET [code : Codes, on : Places], threw : SUBSET {"schema_drift", "long_running_queries"},
   host : Replicas \cup {"none"}, cut : BOOLEAN, exitCode : {0, 1}]
DoctorTypeOK ==
  /\ rowStatus \in [DoctorTenants -> Statuses]
  /\ schema \in [DoctorTenants -> {"none", "empty", "migrated"}]
  /\ facts \subseteq WorldFacts /\ probes \subseteq Replicas
  /\ worldChanges \in 0 .. MaxWorldChanges /\ queryFaults \in 0 .. MaxQueryFaults
  /\ checkup \in [Checkups -> Checkup]
  /\ steady \in [Checkups -> SUBSET [code : Codes, on : Places]]

\* The check a code belongs to.
CheckOf(code) ==
  CASE code = "tenant_failed" -> "failed_tenants"
    [] code = "provisioning_stalled" -> "provisioning_stalled"
    [] code = "schema_missing" -> "schema_drift"
    [] code = "migrations_never_ran" -> "migration_state"
    [] code = "circuit_open" -> "circuit_breakers"
    [] code \in {"queue_failed_jobs", "queue_delayed_backlog", "queue_stalled"} -> "queue_health"
    [] code \in {"backup_never_taken", "backup_stale"} -> "backup_recency"
    [] code \in {"replica_unreachable", "replica_not_in_recovery", "replica_lag_critical",
                 "replica_lag_high"} -> "replica_lag"
    [] code \in {"pool_saturated", "pool_near_saturation", "pool_pending_acquires"} -> "connection_pool"
    [] OTHER -> "long_running_queries"

\* The check could not look at x.
Blind(me, check, x) ==
  \/ check \in me.threw
  \/ check \in PerTenant /\ Issue(InspectFailed[check], x) \in me.issues
  \/ check = "long_running_queries" /\ Issue("pg_stat_activity_unreadable", x) \in me.issues
  \/ check = "replica_lag" /\ Issue("replica_unreachable", x) \in me.issues

\* What is wrong from the moment a run reads its list until it ends, about a
\* tenant it was asked about and a check it was asked for, is in its report,
\* whatever changes meanwhile and whatever else it cannot look at, unless the
\* report says that the check could not look there, or the one for long queries
\* had no connection (long_running_queries_check.ts:36-38); and a command or a request
\* that ends well has told of nothing but warnings.
ReportsWhatStays ==
  \A r \in Checkups :
    /\ checkup[r].pc \in {"end", "over"} =>
         \A p \in steady[r] :
           \/ p \in checkup[r].issues
           \/ CheckOf(p.code) \notin checkup[r].checks
           \/ p.on \in DoctorTenants \ checkup[r].scope
           \/ Blind(checkup[r], CheckOf(p.code), p.on)
    /\ checkup[r].pc = "over" /\ checkup[r].mode # "watch" /\ checkup[r].exitCode = 0 =>
         \A p \in steady[r] \cap checkup[r].issues : Severity(p.code) # "error"

=============================================================================
