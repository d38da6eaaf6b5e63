---------------------------- MODULE FleetCommands ---------------------------
(***************************************************************************)
(* The commands that work through a list of tenants:                       *)
(*   migrate   commands/tenant_migrate.ts, run_tenant_migrations.ts        *)
(*   rollback  commands/tenant_migrate_rollback.ts                         *)
(*   fresh     commands/tenant_migrate_fresh.ts                            *)
(*   seed      commands/tenant_seed.ts                                     *)
(*   exec      commands/tenant_exec.ts                                     *)
(* with the migration hooks (services/hook_registry.ts) and what the       *)
(* isolation drivers do for them. The list is read once; tenants are       *)
(* deleted, and other commands run, while it is worked through.            *)
(*                                                                         *)
(* Lucid holds a lock for the migrations of a connection, and each is a    *)
(* transaction, so that driver.migrate is one step that succeeds or stops. *)
(***************************************************************************)
EXTENDS Naturals, FiniteSets

CONSTANTS
    FleetTenants,
    Runs,       \* processes of commands, one command each
    MaxFleetFaults,  \* bound: connections, hooks, migrations, events, seeders that fail
    MaxDeletes, \* bound: tenants destroyed
    Nowhere

FleetAssumption == {MaxFleetFaults, MaxDeletes} \subseteq Nat

VARIABLES
    fleetStatus, \* per tenant: active, suspended or deleted
    store,  \* per tenant: its schema: none, or how far it is migrated
    run,    \* per process: the command in progress
    worked, \* per process: tenants its last call for them did what it is for
    told,   \* per process: tenants for which it dispatched TenantMigrated
    fleetFaults,
    deletes

fleetVars == <<fleetStatus, store, run, worked, told, fleetFaults, deletes>>

Kinds  == {"migrate", "rollback", "fresh", "seed", "exec"}
Stores == {"none", "empty", "partial", "whole"}
Steps  == {"next", "drop", "create", "connect", "before", "migrate", "event",
           "seed", "exec", "done"}

\* go: --continue-on-error; dry: --dry-run; also: --seed; limit: --limit=1
Flags == [go : BOOLEAN, dry : BOOLEAN, also : BOOLEAN, limit : BOOLEAN]
NoCommand  == [pc |-> "idle"]
Command   == [pc : Steps, kind : Kinds, flags : Flags, listed : SUBSET FleetTenants,
          at : FleetTenants \cup {Nowhere}, ok : SUBSET FleetTenants, failed : SUBSET FleetTenants,
          aborted : BOOLEAN, exitCode : {0, 1}]

FleetTypeOK ==
    /\ fleetStatus \in [FleetTenants -> {"active", "suspended", "deleted"}]
    /\ store \in [FleetTenants -> Stores]
    /\ run \in [Runs -> Command \cup {NoCommand}]
    /\ worked \in [Runs -> SUBSET FleetTenants]
    /\ told \in [Runs -> SUBSET FleetTenants]
    /\ fleetFaults \in 0 .. MaxFleetFaults /\ deletes \in 0 .. MaxDeletes

FleetInit ==
    /\ fleetStatus \in [FleetTenants -> {"active", "suspended"}]
    /\ store \in [FleetTenants -> {"empty", "whole"}]
    /\ run = [r \in Runs |-> NoCommand]
    /\ worked = [r \in Runs |-> {}] /\ told = [r \in Runs |-> {}]
    /\ fleetFaults = 0 /\ deletes = 0

-----------------------------------------------------------------------------
(* Starting, taking the next tenant, ending *)

Alive == {t \in FleetTenants : fleetStatus[t] # "deleted"}

\* Whom the command asks the repository for, when no ids are given. (exec asks page by
\* page: what is listed stands for all its pages.)
Population(kind) ==
    CASE kind \in {"migrate", "fresh"} -> FleetTenants
      [] kind = "seed" -> {t \in FleetTenants : fleetStatus[t] = "active"}
      [] OTHER -> Alive

\* The flags the command has.
Allowed(kind, f) ==
    /\ f.go => kind \in {"seed", "exec"}
    /\ f.dry => kind \in {"migrate", "rollback", "exec"}
    /\ f.also => kind = "fresh"
    /\ f.limit => kind = "exec"

Starts(r, kind, f) ==
    /\ run[r] = NoCommand
    /\ Allowed(kind, f)
    /\ \E listed \in SUBSET Population(kind) :
          /\ listed # {}
          /\ run' = [run EXCEPT ![r] =
                [pc |-> "next", kind |-> kind, flags |-> f, listed |-> listed,
                 at |-> Nowhere, ok |-> {}, failed |-> {}, aborted |-> FALSE,
                 exitCode |-> 0]]
    /\ UNCHANGED <<fleetStatus, store, worked, told, fleetFaults, deletes>>

GoesTo(r, pc) == run' = [run EXCEPT ![r].pc = pc]

Visited(r) == run[r].ok \cup run[r].failed

\* The first call for a tenant.
First(r) ==
    CASE run[r].kind = "fresh" -> "drop"
      [] run[r].kind = "exec"  -> "exec"
      [] OTHER                 -> "connect"

\* --limit counts the tenants visited.
HitLimit(r) == run[r].flags.limit /\ Cardinality(Visited(r)) >= 1

Takes(r, t) ==
    /\ run[r].pc = "next"
    /\ ~run[r].aborted /\ ~HitLimit(r)
    /\ t \in run[r].listed \ Visited(r)
    /\ run' = [run EXCEPT ![r].at = t, ![r].pc = First(r)]
    /\ UNCHANGED <<fleetStatus, store, worked, told, fleetFaults, deletes>>

\* tenant:migrate and its rollback end with 0 whatever has failed.
CommandEnds(r) ==
    /\ run[r].pc = "next"
    /\ run[r].aborted \/ HitLimit(r) \/ run[r].listed \subseteq Visited(r)
    /\ run' = [run EXCEPT ![r].pc = "done",
                          ![r].exitCode = IF run[r].kind \in {"fresh", "seed", "exec"}
                                             /\ run[r].failed # {} THEN 1 ELSE 0]
    /\ UNCHANGED <<fleetStatus, store, worked, told, fleetFaults, deletes>>

\* An error for one tenant is caught, counted, and ends the loop only where
\* --continue-on-error could have been given and was not.
Fail(r) ==
    run' = [run EXCEPT ![r].failed = @ \cup {run[r].at}, ![r].at = Nowhere,
                       ![r].pc = "next",
                       ![r].aborted = run[r].kind \in {"seed", "exec"} /\ ~run[r].flags.go]

Succeed(r) ==
    run' = [run EXCEPT ![r].ok = @ \cup {run[r].at}, ![r].at = Nowhere, ![r].pc = "next"]

Work(r) == worked' = [worked EXCEPT ![r] = @ \cup {run[r].at}]
FleetFault   == fleetFaults < MaxFleetFaults /\ fleetFaults' = fleetFaults + 1

-----------------------------------------------------------------------------
(* The calls for one tenant *)

\* A call at pc that fails.
Breaks(r) ==
    /\ run[r].pc \in {"drop", "create", "connect", "before", "event", "seed", "exec"}
    /\ FleetFault
    /\ Fail(r)
    /\ UNCHANGED <<fleetStatus, store, worked, told, deletes>>

\* driver.reset, first half: the schema is dropped.
Drops(r) ==
    /\ run[r].pc = "drop"
    /\ store' = [store EXCEPT ![run[r].at] = "none"]
    /\ GoesTo(r, "create")
    /\ UNCHANGED <<fleetStatus, worked, told, fleetFaults, deletes>>

\* Second half: CREATE SCHEMA without IF NOT EXISTS.
Creates(r) ==
    /\ run[r].pc = "create"
    /\ IF store[run[r].at] = "none"
       THEN store' = [store EXCEPT ![run[r].at] = "empty"] /\ GoesTo(r, "before")
       ELSE Fail(r) /\ UNCHANGED store
    /\ UNCHANGED <<fleetStatus, worked, told, fleetFaults, deletes>>

\* A dry run has no hooks. A pool is opened without asking the database.
OpensConnection(r) ==
    /\ run[r].pc = "connect"
    /\ GoesTo(r, CASE run[r].kind = "seed" -> "seed"
                 [] run[r].flags.dry     -> "migrate"
                 [] OTHER                -> "before")
    /\ UNCHANGED <<fleetStatus, store, worked, told, fleetFaults, deletes>>

\* Hooks before a migration abort it when they throw (Breaks); those after it only log.
Before(r) ==
    /\ run[r].pc = "before"
    /\ GoesTo(r, "migrate")
    /\ UNCHANGED <<fleetStatus, store, worked, told, fleetFaults, deletes>>

\* How far a migration gets that fails: up may stop in the middle.
Stopped(r, s) ==
    IF run[r].kind = "rollback" THEN {s} ELSE IF s = "empty" THEN {"empty", "partial"} ELSE {s}

\* What the migrator leaves: down takes back the last batch.
Migrated(r, s) ==
    CASE run[r].flags.dry         -> {s}
      [] run[r].kind = "rollback" -> IF s = "whole" THEN {"partial", "empty"} ELSE {"empty"}
      [] OTHER                    -> {"whole"}

Migrates(r) ==
    LET t == run[r].at
    IN  /\ run[r].pc = "migrate" /\ store[t] # "none"
        /\ \E s \in Migrated(r, store[t]) : store' = [store EXCEPT ![t] = s]
        /\ IF run[r].flags.dry
           THEN Succeed(r) /\ UNCHANGED worked
           ELSE GoesTo(r, "event") /\ Work(r)
        /\ UNCHANGED <<fleetStatus, told, fleetFaults, deletes>>

\* The error of the runner left in runner.error (a mutant).
RunnerErrorIgnored(r) ==
    /\ run[r].pc = "migrate" /\ store[run[r].at] = "none"
    /\ GoesTo(r, "event")
    /\ UNCHANGED <<fleetStatus, store, worked, told, fleetFaults, deletes>>

\* An error of the runner, which driver.migrate throws on: there is no schema, or a
\* migration fails.
MigrateFails(r) ==
    LET t == run[r].at
    IN  /\ run[r].pc = "migrate"
        /\ IF store[t] = "none"
           THEN UNCHANGED <<store, fleetFaults>>
           ELSE /\ FleetFault
                /\ \E s \in Stopped(r, store[t]) : store' = [store EXCEPT ![t] = s]
        /\ Fail(r)
        /\ UNCHANGED <<fleetStatus, worked, told, deletes>>

\* TenantMigrated
Tells(r) ==
    /\ run[r].pc = "event"
    /\ told' = [told EXCEPT ![r] = @ \cup {run[r].at}]
    /\ IF run[r].flags.also THEN GoesTo(r, "seed") ELSE Succeed(r)
    /\ UNCHANGED <<fleetStatus, store, worked, fleetFaults, deletes>>

\* db:seed writes to the tables of the tenant; without them it fails.
Seeds(r) ==
    /\ run[r].pc = "seed"
    /\ IF store[run[r].at] = "whole" THEN Work(r) /\ Succeed(r)
       ELSE Fail(r) /\ UNCHANGED worked
    /\ UNCHANGED <<fleetStatus, store, told, fleetFaults, deletes>>

\* Any command, in the scope of the tenant.
Execs(r) ==
    /\ run[r].pc = "exec"
    /\ IF run[r].flags.dry THEN UNCHANGED worked ELSE Work(r)
    /\ Succeed(r)
    /\ UNCHANGED <<fleetStatus, store, told, fleetFaults, deletes>>

-----------------------------------------------------------------------------
(* Tenants that go while a list is worked through *)

Destroy(t) ==
    /\ deletes < MaxDeletes
    /\ deletes' = deletes + 1
    /\ fleetStatus[t] # "deleted"
    /\ fleetStatus' = [fleetStatus EXCEPT ![t] = "deleted"]
    /\ store' = [store EXCEPT ![t] = "none"]
    /\ UNCHANGED <<run, worked, told, fleetFaults>>

\* A purge of what was migrated only (a mutant).
PurgesWhole(t) ==
    /\ fleetStatus[t] = "deleted" /\ store[t] = "whole"
    /\ store' = [store EXCEPT ![t] = "none"]
    /\ UNCHANGED <<fleetStatus, run, worked, told, fleetFaults, deletes>>

\* tenant:purge-expired takes every deleted tenant, each time it is run.
Purges(t) ==
    /\ fleetStatus[t] = "deleted" /\ store[t] # "none"
    /\ store' = [store EXCEPT ![t] = "none"]
    /\ UNCHANGED <<fleetStatus, run, worked, told, fleetFaults, deletes>>

-----------------------------------------------------------------------------
CommandStep(r) ==
    \/ CommandEnds(r) \/ \E t \in FleetTenants : Takes(r, t)
    \/ Breaks(r) \/ Drops(r) \/ Creates(r) \/ OpensConnection(r) \/ Before(r)
    \/ Migrates(r) \/ MigrateFails(r) \/ Tells(r) \/ Seeds(r) \/ Execs(r)

FleetNext ==
    \/ \E r \in Runs : CommandStep(r) \/ \E kind \in Kinds, f \in Flags : Starts(r, kind, f)
    \/ \E t \in FleetTenants : Destroy(t) \/ Purges(t)

FleetSpec == FleetInit /\ [][FleetNext]_fleetVars

-----------------------------------------------------------------------------
(* Properties *)

\* What a command reports is what it did: each tenant listed is counted once, as a
\* success only when every call for it went through (a refreshed one is migrated),
\* it is announced as migrated only when it was, a failure stops the others only
\* where it should, and where the exit code tells of failures it tells of these.
ReportIsTrue ==
    \A r \in Runs : run[r] # NoCommand =>
        LET me == run[r]
        IN  /\ me.ok \cap me.failed = {}
            /\ ~me.flags.dry => me.ok \subseteq worked[r]
            /\ told[r] \subseteq worked[r]
            /\ me.kind = "fresh" => me.ok \subseteq told[r]
            /\ me.pc = "done" /\ ~me.flags.limit /\ (me.flags.go \/ me.failed = {}
                    \/ me.kind \in {"migrate", "rollback", "fresh"}) =>
                  Visited(r) = me.listed
            /\ me.pc = "done" /\ me.exitCode = 1 => me.failed # {}

Deleted(t) == fleetStatus[t] = "deleted"
StoreIsGone(t) == store[t] = "none"

\* The storage of a tenant that is deleted goes, though a refresh that had listed it,
\* or lists deleted tenants as all do, creates it again.
DeletedStoreGoes == \A t \in FleetTenants : Deleted(t) ~> StoreIsGone(t)

=============================================================================
