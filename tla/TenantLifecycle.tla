--------------------------- MODULE TenantLifecycle ---------------------------
(***************************************************************************)
(* The life of a tenant: its row in the tenants table and its storage (a   *)
(* PostgreSQL schema or database), and the operations that move them.      *)
(*                                                                         *)
(*   commands/create_tenant.ts, jobs/install_tenant.ts       provisioning  *)
(*   commands/tenant_clone.ts, jobs/clone_tenant.ts,                       *)
(*   services/clone_service.ts                               cloning       *)
(*   commands/destroy_tenant.ts, jobs/uninstall_tenant.ts    destruction   *)
(*   commands/tenant_purge_expired.ts                        retention     *)
(*   admin/admin_controller.ts         the same from the admin interface   *)
(*                                                                         *)
(* An operation loads the tenant's model and works with it across awaits;  *)
(* nothing locks the row. Row and storage of different tenants are         *)
(* independent, but for the source of a clone. Maintenance mode, custom    *)
(* domains, the tenant's queue and its connections are left out.           *)
(***************************************************************************)
EXTENDS Naturals, FiniteSets

CONSTANTS
    Tenants,      \* tenant ids
    Procs,        \* operations that can be in progress at the same time
    MaxAttempts,  \* executions the queue grants one dispatched job
    MaxRequests,  \* bound: requests of operators, the first creation included
    MaxFaults,    \* bound: failed calls, failed hooks, dead workers
    NoTenant      \* the tenant of an idle process

ASSUME LifecycleAssumption ==
    /\ NoTenant \notin Tenants
    /\ MaxAttempts \in Nat \ {0}
    /\ {MaxRequests, MaxFaults} \subseteq Nat

VARIABLES
    row,       \* the tenants table
    store,     \* what a tenant's schema holds
    source,    \* tenants whose clone still has a source to copy from
    proc,      \* operations in progress and queued jobs
    excused,   \* tenants an operator has put at risk (see Risk)
    requests,  \* requests of operators so far
    faults     \* faults so far

bounds == <<requests, faults>>
vars   == <<row, store, source, proc, excused, bounds>>

Status == {"provisioning", "active", "suspended", "failed"}
RowStatus == Status \cup {"none"}

\* How long ago deleted_at was set: not at all, within the retention window, or
\* longer than it.
Deleted == {"no", "recent", "expired"}

\* No schema; an empty one; the migrations' tables; these with the rows of every
\* table of the source, or without the rows of those that the migrations do not make.
Contents == {"none", "bare", "migrated", "copied", "skipped"}
WithRows == {"copied", "skipped"}

\* Whether a tenant is a clone, and of what: of the schema only, or of the rows too.
Cloned == {"no", "schema", "rows"}

Jobs   == {"install", "clone", "uninstall"}
Clones == {"clone", "cloneCommand"}
Kinds  == Jobs \cup {"cloneCommand", "destroy", "archive", "purge"}
Steps  == {"queued", "mark", "provision", "migrate", "copy", "activate", "after",
           "fail", "cleanup", "softDelete", "drop"}

Idle == [kind |-> "none", pc |-> "idle", t |-> NoTenant, seen |-> "none", tries |-> 0]
Busy == [kind : Kinds, pc : Steps, t : Tenants, seen : RowStatus,
         tries : 0 .. MaxAttempts - 1]

TypeOK ==
    /\ row \in [Tenants -> [status : RowStatus, deleted : Deleted, cloned : Cloned]]
    /\ store \in [Tenants -> Contents]
    /\ source \subseteq Tenants
    /\ proc \in [Procs -> Busy \cup {Idle}]
    /\ excused \subseteq Tenants
    /\ requests \in 0 .. MaxRequests
    /\ faults \in 0 .. MaxFaults

Init ==
    /\ row = [t \in Tenants |-> [status |-> "none", deleted |-> "no", cloned |-> "no"]]
    /\ store = [t \in Tenants |-> "none"]
    /\ source = Tenants
    /\ proc = [p \in Procs |-> Idle]
    /\ excused = {}
    /\ requests = 0 /\ faults = 0

-----------------------------------------------------------------------------
(* Helpers *)

Fault == faults < MaxFaults /\ faults' = faults + 1

Request == requests < MaxRequests /\ requests' = requests + 1

Exists(t) == row[t].status # "none"
Live(t) == Exists(t) /\ row[t].deleted = "no"

At(p, kinds, pc) == proc[p].kind \in kinds /\ proc[p].pc = pc

\* The tenant process p works on.
Of(p) == proc[p].t

Begin(p, kind, pc, t, tries) ==
    /\ proc[p] = Idle
    /\ proc' = [proc EXCEPT ![p] = [kind |-> kind, pc |-> pc, t |-> t,
                                    seen |-> row[t].status, tries |-> tries]]

Goto(p, pc) == proc' = [proc EXCEPT ![p].pc = pc]

Finish(p) == proc' = [proc EXCEPT ![p] = Idle]

\* A queue that grants one attempt too many (a mutant).
OneTryTooMany(p) ==
    proc' = [proc EXCEPT ![p] =
               IF proc[p].kind \in Jobs /\ proc[p].tries < MaxAttempts
               THEN [proc[p] EXCEPT !.pc = "queued", !.tries = proc[p].tries + 1]
               ELSE Idle]

\* A job that throws is queued again while it has attempts left; a command ends.
Throw(p) ==
    proc' = [proc EXCEPT ![p] =
               IF proc[p].kind \in Jobs /\ proc[p].tries + 1 < MaxAttempts
               THEN [proc[p] EXCEPT !.pc = "queued", !.tries = proc[p].tries + 1]
               ELSE Idle]

\* tenant.save() after an assignment to status: an UPDATE, unless it is the status
\* the model was loaded with.
SaveStatus(t, seen, status) ==
    IF seen = status THEN UNCHANGED row
    ELSE row' = [row EXCEPT ![t].status = status]

SavesThenGoes(p, status, pc) ==
    /\ SaveStatus(Of(p), proc[p].seen, status)
    /\ proc' = [proc EXCEPT ![p].seen = status, ![p].pc = pc]

\* driver.provision: CREATE SCHEMA IF NOT EXISTS.
Provisioned(t) == IF store[t] = "none" THEN [store EXCEPT ![t] = "bare"] ELSE store

\* driver.destroy: DROP SCHEMA IF EXISTS ... CASCADE.
Dropped(t) == [store EXCEPT ![t] = "none"]

\* What a tenant's schema holds once it is installed or cloned.
Complete(cloned) ==
    CASE cloned = "no"     -> Contents \ {"none"}
      [] cloned = "schema" -> {"migrated"}
      [] cloned = "rows"   -> WithRows

\* A tenant that has all its storage, and that no operation is working on.
Settled(t) ==
    /\ store[t] \in Complete(row[t].cloned)
    /\ \A p \in Procs : Of(p) # t

\* Putting a tenant in service by hand is the operator's risk otherwise.
Risk(t) == excused' = IF Settled(t) THEN excused ELSE excused \cup {t}

-----------------------------------------------------------------------------
(* tenant:create, InstallTenant *)

\* The row, then the job.
Create(t, p) ==
    /\ Request
    /\ ~Exists(t)
    /\ row' = [row EXCEPT ![t].status = "provisioning"]
    /\ proc[p] = Idle
    /\ proc' = [proc EXCEPT ![p] = [kind |-> "install", pc |-> "queued", t |-> t,
                                    seen |-> "none", tries |-> 0]]
    /\ UNCHANGED <<store, source, excused, faults>>

\* The dispatch fails, and nothing will ever provision the tenant.
CreateUnqueued(t) ==
    /\ Request
    /\ Fault
    /\ ~Exists(t)
    /\ row' = [row EXCEPT ![t].status = "provisioning"]
    /\ UNCHANGED <<store, source, proc, excused>>

\* What findByIdOrFail returns, without deleted tenants: of a clone also the source.
Found(p) == Live(Of(p)) /\ (proc[p].kind = "clone" => Of(p) \in source)

\* The tenant is loaded and the before-hooks run.
Load(p) ==
    /\ At(p, {"install", "clone"}, "queued")
    /\ Found(p)
    /\ proc' = [proc EXCEPT ![p].seen = row[Of(p)].status,
                            ![p].pc = IF proc[p].kind = "install" THEN "mark"
                                      ELSE "provision"]
    /\ UNCHANGED <<row, store, source, excused, bounds>>

NotFound(p) ==
    /\ At(p, {"install", "clone"}, "queued")
    /\ ~Found(p)
    /\ Throw(p)
    /\ UNCHANGED <<row, store, source, excused, bounds>>

\* A job that shows the tenant as ready before it is (a mutant).
MarksReady(p) ==
    /\ At(p, {"install"}, "mark")
    /\ SavesThenGoes(p, "active", "provision")
    /\ UNCHANGED <<store, source, excused, bounds>>

Mark(p) ==
    /\ At(p, {"install"}, "mark")
    /\ SavesThenGoes(p, "provisioning", "provision")
    /\ UNCHANGED <<store, source, excused, bounds>>

Provision(p) ==
    /\ proc[p].pc = "provision"
    /\ store' = Provisioned(Of(p))
    /\ Goto(p, IF proc[p].kind = "install" THEN "activate" ELSE "migrate")
    /\ UNCHANGED <<row, source, excused, bounds>>

Activate(p) ==
    /\ proc[p].pc = "activate"
    /\ SavesThenGoes(p, "active", "after")
    /\ UNCHANGED <<store, source, excused, bounds>>

\* After-hooks only log their errors; the event ends the job.
After(p) ==
    /\ proc[p].pc = "after"
    /\ Finish(p)
    /\ UNCHANGED <<row, store, source, excused, bounds>>

-----------------------------------------------------------------------------
(* tenant:clone, CloneTenant, CloneService *)

\* The command clones itself; an application may queue the job instead. Which of
\* the source is cloned is an option of the command and of the job's payload.
Clone(t, p, kind) ==
    /\ Request
    /\ ~Exists(t)
    /\ \E what \in {"schema", "rows"} :
         row' = [row EXCEPT ![t].status = "provisioning", ![t].cloned = what]
    /\ proc[p] = Idle
    /\ proc' = [proc EXCEPT ![p] = [kind |-> kind, t |-> t, tries |-> 0,
                                    pc   |-> IF kind = "clone" THEN "queued" ELSE "provision",
                                    seen |-> "provisioning"]]
    /\ UNCHANGED <<store, source, excused, faults>>

\* The source is destroyed, row and storage: the clone does not lock it.
SourceGone(t) ==
    /\ Request
    /\ t \in source
    /\ \E p \in Procs : Of(p) = t /\ proc[p].kind \in Clones
    /\ source' = source \ {t}
    /\ UNCHANGED <<row, store, proc, excused, faults>>

Migrate(p) ==
    /\ At(p, Clones, "migrate")
    /\ IF store[Of(p)] = "none"
       THEN Goto(p, "fail") /\ UNCHANGED store
       ELSE /\ Goto(p, "copy")
            /\ store' = [store EXCEPT ![Of(p)] =
                           IF store[Of(p)] = "bare" THEN "migrated" ELSE store[Of(p)]]
    /\ UNCHANGED <<row, source, excused, bounds>>

\* A copy that takes an error for a missing table (a mutant).
CopiesWhatItCan(p) ==
    /\ At(p, Clones, "copy")
    /\ Goto(p, "activate")
    /\ UNCHANGED <<row, store, source, excused, bounds>>

\* Unless the schema is all that is asked for, one transaction over the tables that
\* both schemas have: a table that the destination lacks is skipped, and rows that
\* are there already collide with those that are copied.
Copy(p) ==
    /\ At(p, Clones, "copy")
    /\ LET t == Of(p)
           copies == row[t].cloned = "rows" /\ t \in source
       IN \/ /\ copies /\ store[t] \in WithRows
             /\ Goto(p, "fail") /\ UNCHANGED store
          \/ /\ copies /\ store[t] = "migrated"
             /\ \E rows \in WithRows : store' = [store EXCEPT ![t] = rows]
             /\ Goto(p, "activate")
          \/ /\ copies => store[t] \in {"none", "bare"}
             /\ Goto(p, "activate") /\ UNCHANGED store
    /\ UNCHANGED <<row, source, excused, bounds>>

-----------------------------------------------------------------------------
(* The error paths of provisioning and cloning *)

\* A call inside the try fails.
StepFails(p) ==
    /\ proc[p].pc \in {"mark", "provision", "migrate", "copy", "activate"}
    /\ Fault
    /\ Goto(p, "fail")
    /\ UNCHANGED <<row, store, source, excused, requests>>

\* The tenant is saved as failed; a clone then drops its storage.
Fail(p) ==
    /\ proc[p].pc = "fail"
    /\ SaveStatus(Of(p), proc[p].seen, "failed")
    /\ IF proc[p].kind \in Clones THEN Goto(p, "cleanup") ELSE Throw(p)
    /\ UNCHANGED <<store, source, excused, bounds>>

Cleanup(p) ==
    /\ proc[p].pc = "cleanup"
    /\ store' = Dropped(Of(p))
    /\ Throw(p)
    /\ UNCHANGED <<row, source, excused, bounds>>

\* Any other call fails: the hooks and queries before the try, the save of
\* `failed', the drop, the event after the hooks; or the worker dies.
Fails(p) ==
    /\ proc[p].pc # "idle"
    /\ Fault
    /\ Throw(p)
    /\ UNCHANGED <<row, store, source, excused, requests>>

-----------------------------------------------------------------------------
(* tenant:destroy, UninstallTenant, tenant:purge-expired *)

\* The model is loaded, the operator confirms, the before-hooks run.
Destroy(t, p, kind) ==
    /\ Request
    /\ Live(t)
    /\ Begin(p, kind, "softDelete", t, 0)
    /\ UNCHANGED <<row, store, source, excused, faults>>

\* The command soft-deletes and then drops, the job the other way round.
SoftDelete(p) ==
    /\ proc[p].pc = "softDelete"
    /\ row' = [row EXCEPT ![Of(p)].deleted = "recent"]
    /\ \/ proc[p].kind = "destroy"   /\ Goto(p, "drop")
       \/ proc[p].kind = "archive"   /\ Finish(p)
       \/ proc[p].kind = "uninstall" /\ Goto(p, "after")
    /\ UNCHANGED <<store, source, excused, bounds>>

Drop(p) ==
    /\ proc[p].pc = "drop"
    /\ store' = Dropped(Of(p))
    /\ IF proc[p].kind = "uninstall" THEN Goto(p, "softDelete") ELSE Finish(p)
    /\ UNCHANGED <<row, source, excused, bounds>>

\* The application queues the job: from here on the storage may go at any time.
Uninstall(t, p) ==
    /\ Request
    /\ Exists(t)
    /\ Begin(p, "uninstall", "queued", t, 0)
    /\ excused' = excused \cup {t}
    /\ UNCHANGED <<row, store, source, faults>>

LoadAny(p) ==
    /\ At(p, {"uninstall"}, "queued")
    /\ Goto(p, "drop")
    /\ UNCHANGED <<row, store, source, excused, bounds>>

Expire(t) ==
    /\ row[t].deleted = "recent"
    /\ row' = [row EXCEPT ![t].deleted = "expired"]
    /\ UNCHANGED <<store, source, proc, excused, bounds>>

\* Retention of tenants that were in service only (a mutant).
ExpiredInService(t) == row[t].deleted = "expired" /\ row[t].status = "active"

\* Soft-deleted and past the retention window, as the list is made.
Candidate(t) == row[t].deleted = "expired"

\* The list of candidates is confirmed and worked through without a second look.
Purge(t, p) ==
    /\ Candidate(t)
    /\ Begin(p, "purge", "drop", t, 0)
    /\ UNCHANGED <<row, store, source, excused, bounds>>

-----------------------------------------------------------------------------
(* tenant:suspend, tenant:activate, and restore in the admin interface *)

Suspend(t) ==
    /\ Request
    /\ Exists(t)
    /\ row[t].status # "suspended"
    /\ row' = [row EXCEPT ![t].status = "suspended"]
    /\ UNCHANGED <<store, source, proc, excused, faults>>

ActivateByHand(t) ==
    /\ Request
    /\ Exists(t)
    /\ row[t].status # "active"
    /\ row' = [row EXCEPT ![t].status = "active"]
    /\ Risk(t)
    /\ UNCHANGED <<store, source, proc, faults>>

Restore(t) ==
    /\ Request
    /\ row[t].deleted # "no"
    /\ row' = [row EXCEPT ![t].deleted = "no"]
    /\ Risk(t)
    /\ UNCHANGED <<store, source, proc, faults>>

-----------------------------------------------------------------------------
\* Operators have asked for all they will, and every operation has ended.
Rest ==
    /\ \A p \in Procs : proc[p] = Idle
    /\ UNCHANGED vars

Asks(t) ==
    \/ CreateUnqueued(t) \/ SourceGone(t)
    \/ Suspend(t) \/ ActivateByHand(t) \/ Restore(t)
    \/ \E p \in Procs :
          \/ Create(t, p) \/ Uninstall(t, p)
          \/ \E kind \in Clones : Clone(t, p, kind)
          \/ \E kind \in {"destroy", "archive"} : Destroy(t, p, kind)

Step(p) ==
    \/ Load(p) \/ NotFound(p) \/ LoadAny(p)
    \/ Mark(p) \/ Provision(p) \/ Migrate(p) \/ Copy(p) \/ Activate(p) \/ After(p)
    \/ Fail(p) \/ Cleanup(p)
    \/ SoftDelete(p) \/ Drop(p)

Next ==
    \/ \E t \in Tenants : Asks(t) \/ Expire(t) \/ \E p \in Procs : Purge(t, p)
    \/ \E p \in Procs : Step(p) \/ StepFails(p) \/ Fails(p)
    \/ Rest

Spec == Init /\ [][Next]_vars

\* Operations go on once begun, time passes, and the purge runs from cron.
Fairness ==
    /\ \A p \in Procs : WF_vars(Step(p))
    /\ \A t \in Tenants : WF_vars(Expire(t)) /\ WF_vars(\E p \in Procs : Purge(t, p))

FairSpec == Spec /\ Fairness

-----------------------------------------------------------------------------
(* Properties *)

\* The guard of the HTTP middleware lets requests for the tenant through.
Served(t) == row[t].status = "active" /\ row[t].deleted = "no"

\* A tenant that is served has its storage, whatever fails, is retried, or runs at
\* the same time, unless an operator put it in service while its storage was gone
\* or being worked on, or queued the job that drops the storage first.
ServedIsStored ==
    \A t \in Tenants : Served(t) => store[t] # "none" \/ t \in excused

\* A clone of the rows is served with those of all the tables that it shares with
\* its source, never with some of them or twice; a clone of the schema with its
\* tables and no rows. Excepted are tenants that an operator put at risk and those
\* whose source went.
CloneIsWhole ==
    \A t \in Tenants :
        Served(t) /\ row[t].cloned # "no" => \/ store[t] \in Complete(row[t].cloned)
                                             \/ t \in excused
                                             \/ t \notin source

\* No tenant stays deleted with its storage left behind: failed drops, drops that a
\* late provisioning undoes, and --keep-schema all end in a purge.
DeletedLosesStorage ==
    \A t \in Tenants : <>[](row[t].deleted # "no" => store[t] = "none")

\* tenant:purge-expired drops the "schemas of soft-deleted tenants whose retention
\* window has elapsed", and no other.
PurgesExpiredOnly ==
    [][\A p \in Procs :
         /\ At(p, {"purge"}, "drop") /\ proc'[p] = Idle
         /\ store[Of(p)] # "none" /\ store'[Of(p)] = "none"
         => row[Of(p)].deleted = "expired"]_vars

\* What the error path of a clone drops is "orphaned destination storage", as its
\* log message says: a whole clone in service is not taken for a failed one.
ServedCloneIsKept ==
    [][\A t \in Tenants :
         Served(t) /\ store[t] = "copied" /\ t \notin excused =>
            row'[t].status # "failed"]_vars

-----------------------------------------------------------------------------
(* The inductive invariant behind ServedIsStored *)

Installs(p) == proc[p].kind \in {"install"} \cup Clones

\* Inside the try of InstallTenant and of CloneService, and past driver.provision.
Trying == {"mark", "provision", "migrate", "copy", "activate", "fail"}
Built  == {"migrate", "copy", "activate"}

StepsOfKinds ==
    \A p \in Procs :
        /\ proc[p].pc \in Trying \cup {"cleanup"} => Installs(p)
        /\ proc[p].pc = "softDelete" => proc[p].kind \in {"destroy", "archive", "uninstall"}
        /\ proc[p].pc = "drop" => proc[p].kind \in {"destroy", "uninstall", "purge"}
        /\ proc[p].kind = "uninstall" => Of(p) \in excused

TenantsExist ==
    /\ \A p \in Procs : proc[p] # Idle => Exists(Of(p))
    /\ \A t \in Tenants : row[t].deleted # "no" => Exists(t)

\* Only the one that created the row ever provisions or clones a tenant.
OneInstaller ==
    \A p, q \in Procs : Installs(p) /\ Installs(q) /\ Of(p) = Of(q) => p = q

\* A drop comes after the soft delete, and what is built stays until then.
DropsTheDeleted ==
    \A p \in Procs :
        proc[p].pc = "drop" => Of(p) \in excused \/ row[Of(p)].deleted # "no"

BuiltIsStored ==
    \A p \in Procs :
        proc[p].pc \in Built =>
            Of(p) \in excused \/ row[Of(p)].deleted # "no" \/ store[Of(p)] # "none"

\* The model in memory knows of an active status, so that saving `failed' writes
\* it, and the error path drops nothing that is in service.
ActiveIsSeen ==
    \A p \in Procs :
        /\ proc[p].pc \in Trying =>
              \/ Of(p) \in excused
              \/ row[Of(p)].status = "active" => proc[p].seen = "active"
        /\ proc[p].pc = "cleanup" => Of(p) \in excused \/ row[Of(p)].status # "active"

Custody ==
    /\ TypeOK
    /\ ServedIsStored
    /\ StepsOfKinds
    /\ TenantsExist
    /\ OneInstaller
    /\ DropsTheDeleted
    /\ BuiltIsStored
    /\ ActiveIsSeen

=============================================================================
