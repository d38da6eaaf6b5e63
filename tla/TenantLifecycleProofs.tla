------------------------ MODULE TenantLifecycleProofs ------------------------
(***************************************************************************)
(* The type invariant of the tenant's life, that a tenant in service has   *)
(* its storage, and that a clone in service has all the rows it is to      *)
(* have, for every number of tenants, operations, attempts, requests and   *)
(* faults.                                                                 *)
(***************************************************************************)
EXTENDS TenantLifecycle, TLAPS

-----------------------------------------------------------------------------
(* What the helpers that write a process return *)

LEMMA BusyProc ==
  ASSUME TypeOK, NEW p \in Procs
  PROVE  /\ proc[p].pc # "idle" => proc[p] \in Busy
         /\ proc[p] # Idle => proc[p] \in Busy
         /\ proc[p].kind \in Kinds => proc[p] \in Busy
         /\ proc[p].t \in Tenants => proc[p] \in Busy
  BY LifecycleAssumption DEF TypeOK, Idle, Kinds, Jobs

LEMMA BusyOf ==
  ASSUME TypeOK, NEW p \in Procs, proc[p] # Idle
  PROVE  Of(p) \in Tenants
  BY BusyProc DEF Busy, Of

LEMMA MovedProc ==
  ASSUME NEW x \in Busy, NEW pc \in Steps, NEW seen \in RowStatus
  PROVE  /\ [x EXCEPT !.pc = pc] \in Busy
         /\ [x EXCEPT !.seen = seen, !.pc = pc] \in Busy
  BY DEF Busy

LEMMA GotoType ==
  ASSUME TypeOK, NEW p \in Procs, proc[p].pc # "idle", NEW pc \in Steps, Goto(p, pc)
  PROVE  proc' \in [Procs -> Busy \cup {Idle}]
  <1>1. [proc[p] EXCEPT !.pc = pc] \in Busy
    BY BusyProc DEF Busy
  <1> QED
    BY <1>1 DEF Goto, TypeOK

LEMMA FinishType ==
  ASSUME TypeOK, NEW p \in Procs, Finish(p)
  PROVE  proc' \in [Procs -> Busy \cup {Idle}]
  BY DEF Finish, TypeOK

LEMMA ThrowType ==
  ASSUME TypeOK, NEW p \in Procs, proc[p].pc # "idle", Throw(p)
  PROVE  proc' \in [Procs -> Busy \cup {Idle}]
  <1>1. proc[p] \in Busy
    BY BusyProc
  <1>2. CASE proc[p].kind \in Jobs /\ proc[p].tries + 1 < MaxAttempts
    <2>1. proc[p].tries + 1 \in 0 .. MaxAttempts - 1
      BY <1>1, <1>2, LifecycleAssumption DEF Busy
    <2>2. [proc[p] EXCEPT !.pc = "queued", !.tries = proc[p].tries + 1] \in Busy
      BY <1>1, <2>1 DEF Busy, Steps
    <2> QED
      BY <1>2, <2>2 DEF Throw, TypeOK
  <1>3. CASE ~(proc[p].kind \in Jobs /\ proc[p].tries + 1 < MaxAttempts)
    BY <1>3 DEF Throw, TypeOK
  <1> QED
    BY <1>2, <1>3

LEMMA SaveType ==
  ASSUME TypeOK, NEW t \in Tenants, NEW seen, NEW s \in Status, SaveStatus(t, seen, s)
  PROVE  row' \in [Tenants -> [status : RowStatus, deleted : Deleted, cloned : Cloned]]
  <1>1. [row[t] EXCEPT !.status = s]
           \in [status : RowStatus, deleted : Deleted, cloned : Cloned]
    BY DEF TypeOK, RowStatus
  <1> QED
    BY <1>1 DEF SaveStatus, TypeOK

LEMMA SavesThenGoesType ==
  ASSUME TypeOK, NEW p \in Procs, proc[p].pc # "idle", NEW s \in Status,
         NEW pc \in Steps, SavesThenGoes(p, s, pc)
  PROVE  /\ proc' \in [Procs -> Busy \cup {Idle}]
         /\ row' \in [Tenants -> [status : RowStatus, deleted : Deleted, cloned : Cloned]]
  <1>1. proc[p] \in Busy /\ Of(p) \in Tenants
    BY BusyProc DEF Busy, Of
  <1>2. [proc[p] EXCEPT !.seen = s, !.pc = pc] \in Busy
    BY <1>1, MovedProc DEF RowStatus
  <1> QED
    BY <1>1, <1>2, SaveType DEF SavesThenGoes, TypeOK

LEMMA BeginType ==
  ASSUME TypeOK, NEW p \in Procs, NEW kind \in Kinds, NEW pc \in Steps,
         NEW t \in Tenants, Begin(p, kind, pc, t, 0)
  PROVE  proc' \in [Procs -> Busy \cup {Idle}]
  <1>1. [kind |-> kind, pc |-> pc, t |-> t, seen |-> row[t].status, tries |-> 0] \in Busy
    BY LifecycleAssumption DEF TypeOK, Busy
  <1> QED
    BY <1>1 DEF Begin, TypeOK

LEMMA CountersType ==
  ASSUME TypeOK
  PROVE  /\ Request => requests' \in 0 .. MaxRequests
         /\ Fault => faults' \in 0 .. MaxFaults
  BY LifecycleAssumption DEF TypeOK, Request, Fault

-----------------------------------------------------------------------------
(* Type correctness *)

LEMMA TypeInit == Init => TypeOK
  BY LifecycleAssumption DEF Init, TypeOK, RowStatus, Deleted, Cloned, Contents

LEMMA TypeOfRequests ==
  ASSUME TypeOK, NEW t \in Tenants,
         Asks(t) \/ Expire(t) \/ \E p \in Procs : Purge(t, p)
  PROVE  TypeOK'
  <1> USE DEF bounds
  <1>1. ASSUME NEW p \in Procs, Create(t, p) PROVE TypeOK'
    <2>1. [kind |-> "install", pc |-> "queued", t |-> t, seen |-> "none", tries |-> 0] \in Busy
      BY LifecycleAssumption DEF Busy, Kinds, Jobs, Steps, RowStatus
    <2> QED
      BY <1>1, <2>1, CountersType DEF Create, TypeOK, RowStatus, Status
  <1>2. CASE CreateUnqueued(t)
    BY <1>2, CountersType DEF CreateUnqueued, TypeOK, RowStatus, Status
  <1>3. ASSUME NEW p \in Procs, NEW kind \in Clones, Clone(t, p, kind) PROVE TypeOK'
    <2>1. [kind |-> kind, t |-> t, tries |-> 0,
           pc   |-> IF kind = "clone" THEN "queued" ELSE "provision",
           seen |-> "provisioning"] \in Busy
      BY LifecycleAssumption DEF Busy, Clones, Kinds, Jobs, Steps, RowStatus, Status
    <2>2. PICK what \in {"schema", "rows"} :
             row' = [row EXCEPT ![t].status = "provisioning", ![t].cloned = what]
      BY <1>3 DEF Clone
    <2>3. row' \in [Tenants -> [status : RowStatus, deleted : Deleted, cloned : Cloned]]
      BY <2>2 DEF TypeOK, RowStatus, Status, Cloned
    <2> QED
      BY <1>3, <2>1, <2>3, CountersType DEF Clone, TypeOK
  <1>4. CASE SourceGone(t)
    BY <1>4, CountersType DEF SourceGone, TypeOK
  <1>5. ASSUME NEW p \in Procs, NEW kind \in {"destroy", "archive"}, Destroy(t, p, kind)
        PROVE  TypeOK'
    <2>1. proc' \in [Procs -> Busy \cup {Idle}]
      BY <1>5, BeginType DEF Destroy, Kinds, Steps
    <2> QED
      BY <1>5, <2>1, CountersType DEF Destroy, TypeOK
  <1>6. ASSUME NEW p \in Procs, Uninstall(t, p) PROVE TypeOK'
    <2>1. proc' \in [Procs -> Busy \cup {Idle}]
      BY <1>6, BeginType DEF Uninstall, Kinds, Jobs, Steps
    <2> QED
      BY <1>6, <2>1, CountersType DEF Uninstall, TypeOK
  <1>7. CASE Suspend(t)
    BY <1>7, CountersType DEF Suspend, TypeOK, RowStatus, Status
  <1>8. CASE ActivateByHand(t)
    BY <1>8, CountersType DEF ActivateByHand, Risk, TypeOK, RowStatus, Status
  <1>9. CASE Restore(t)
    BY <1>9, CountersType DEF Restore, Risk, TypeOK, Deleted
  <1>10. CASE Expire(t)
    BY <1>10 DEF Expire, TypeOK, Deleted
  <1>11. ASSUME NEW p \in Procs, Purge(t, p) PROVE TypeOK'
    <2>1. proc' \in [Procs -> Busy \cup {Idle}]
      BY <1>11, BeginType DEF Purge, Kinds, Steps
    <2> QED
      BY <1>11, <2>1 DEF Purge, TypeOK
  <1> QED
    BY <1>1, <1>2, <1>3, <1>4, <1>5, <1>6, <1>7, <1>8, <1>9, <1>10, <1>11 DEF Asks

LEMMA TypeOfSteps ==
  ASSUME TypeOK, NEW p \in Procs, Step(p) \/ StepFails(p) \/ Fails(p)
  PROVE  TypeOK'
  <1> USE DEF bounds
  <1> DEFINE ProcsOK == proc' \in [Procs -> Busy \cup {Idle}]
  <1>1. CASE Load(p)
    <2>1. proc[p] \in Busy /\ Of(p) \in Tenants
      BY <1>1, BusyProc DEF Load, At, Busy, Of
    <2>2. row[Of(p)].status \in RowStatus
      BY <2>1 DEF TypeOK
    <2>3. [proc[p] EXCEPT !.seen = row[Of(p)].status,
                          !.pc = IF proc[p].kind = "install" THEN "mark" ELSE "provision"]
             \in Busy
      BY <2>1, <2>2, MovedProc DEF Steps
    <2> QED
      BY <1>1, <2>3 DEF Load, TypeOK
  <1>2. CASE NotFound(p)
    BY <1>2, ThrowType DEF NotFound, At, TypeOK
  <1>3. CASE LoadAny(p)
    <2>1. ProcsOK
      BY <1>3, GotoType DEF LoadAny, At, Steps
    <2> QED
      BY <1>3, <2>1 DEF LoadAny, TypeOK
  <1>4. CASE Mark(p)
    <2>1. SavesThenGoes(p, "provisioning", "provision") /\ proc[p].pc # "idle"
      BY <1>4 DEF Mark, At
    <2> QED
      BY <1>4, <2>1, SavesThenGoesType DEF Mark, TypeOK, Status, Steps
  <1>5. CASE Provision(p)
    <2>1. ProcsOK
      BY <1>5, GotoType DEF Provision, Steps
    <2>2. store' \in [Tenants -> Contents]
      BY <1>5 DEF Provision, Provisioned, TypeOK, Contents
    <2> QED
      BY <1>5, <2>1, <2>2 DEF Provision, TypeOK
  <1>6. CASE Migrate(p)
    <2>1. ProcsOK
      BY <1>6, GotoType DEF Migrate, At, Steps
    <2>2. store' \in [Tenants -> Contents]
      BY <1>6, BusyProc DEF Migrate, At, TypeOK, Contents, Busy, Of
    <2> QED
      BY <1>6, <2>1, <2>2 DEF Migrate, TypeOK
  <1>7. CASE Copy(p)
    <2>1. ProcsOK
      BY <1>7, GotoType DEF Copy, At, Steps
    <2>2. store' \in [Tenants -> Contents]
      BY <1>7 DEF Copy, TypeOK, Contents, WithRows
    <2> QED
      BY <1>7, <2>1, <2>2 DEF Copy, TypeOK
  <1>8. CASE Activate(p)
    <2>1. SavesThenGoes(p, "active", "after") /\ proc[p].pc # "idle"
      BY <1>8 DEF Activate
    <2> QED
      BY <1>8, <2>1, SavesThenGoesType DEF Activate, TypeOK, Status, Steps
  <1>9. CASE After(p)
    BY <1>9, FinishType DEF After, TypeOK
  <1>10. CASE Fail(p)
    <2>1. Of(p) \in Tenants
      BY <1>10, BusyProc DEF Fail, Busy, Of
    <2>2. row' \in [Tenants -> [status : RowStatus, deleted : Deleted, cloned : Cloned]]
      BY <1>10, <2>1, SaveType DEF Fail, Status
    <2>3. ProcsOK
      BY <1>10, GotoType, ThrowType DEF Fail, Steps
    <2> QED
      BY <1>10, <2>2, <2>3 DEF Fail, TypeOK
  <1>11. CASE Cleanup(p)
    <2>1. ProcsOK
      BY <1>11, ThrowType DEF Cleanup
    <2> QED
      BY <1>11, <2>1 DEF Cleanup, Dropped, TypeOK, Contents
  <1>12. CASE SoftDelete(p)
    <2>1. ProcsOK
      BY <1>12, GotoType, FinishType DEF SoftDelete, Steps
    <2>2. row' \in [Tenants -> [status : RowStatus, deleted : Deleted, cloned : Cloned]]
      BY <1>12 DEF SoftDelete, TypeOK, Deleted
    <2> QED
      BY <1>12, <2>1, <2>2 DEF SoftDelete, TypeOK
  <1>13. CASE Drop(p)
    <2>1. ProcsOK
      BY <1>13, GotoType, FinishType DEF Drop, Steps
    <2> QED
      BY <1>13, <2>1 DEF Drop, Dropped, TypeOK, Contents
  <1>14. CASE StepFails(p)
    <2>1. ProcsOK
      BY <1>14, GotoType DEF StepFails, Steps
    <2> QED
      BY <1>14, <2>1, CountersType DEF StepFails, TypeOK
  <1>15. CASE Fails(p)
    <2>1. ProcsOK
      BY <1>15, ThrowType DEF Fails
    <2> QED
      BY <1>15, <2>1, CountersType DEF Fails, TypeOK
  <1> QED
    BY <1>1, <1>2, <1>3, <1>4, <1>5, <1>6, <1>7, <1>8, <1>9, <1>10, <1>11,
       <1>12, <1>13, <1>14, <1>15 DEF Step

LEMMA TypeStep == TypeOK /\ [Next]_vars => TypeOK'
  <1> SUFFICES ASSUME TypeOK, [Next]_vars PROVE TypeOK'
    OBVIOUS
  <1>1. CASE UNCHANGED vars
    BY <1>1 DEF vars, bounds, TypeOK
  <1>2. CASE Rest
    BY <1>1, <1>2 DEF Rest
  <1> QED
    BY <1>1, <1>2, TypeOfRequests, TypeOfSteps DEF Next

\* Type correctness: whatever is asked, fails and is retried, a row, a schema and
\* an operation in progress keep their ranges.
THEOREM LifecycleTypes == Spec => []TypeOK
  BY TypeInit, TypeStep, PTL DEF Spec

-----------------------------------------------------------------------------
(* What one step does to the processes *)

LEMMA GotoProc ==
  ASSUME TypeOK, NEW p \in Procs, proc[p].pc # "idle", NEW pc \in Steps, Goto(p, pc)
  PROVE  /\ \A q \in Procs \ {p} : proc'[q] = proc[q]
         /\ proc'[p].t = proc[p].t
         /\ proc'[p].kind = proc[p].kind
         /\ proc'[p].seen = proc[p].seen
         /\ proc'[p].pc = pc
  <1>1. proc[p] \in Busy
    BY BusyProc
  <1> QED
    BY <1>1 DEF Goto, TypeOK, Busy

LEMMA FinishProc ==
  ASSUME TypeOK, NEW p \in Procs, Finish(p)
  PROVE  /\ \A q \in Procs \ {p} : proc'[q] = proc[q]
         /\ proc'[p] = Idle
  BY DEF Finish, TypeOK

LEMMA ThrowProc ==
  ASSUME TypeOK, NEW p \in Procs, proc[p].pc # "idle", Throw(p)
  PROVE  /\ \A q \in Procs \ {p} : proc'[q] = proc[q]
         /\ \/ proc'[p] = Idle
            \/ /\ proc'[p].t = proc[p].t
               /\ proc'[p].kind = proc[p].kind
               /\ proc'[p].pc = "queued"
  <1>1. proc[p] \in Busy
    BY BusyProc
  <1> QED
    BY <1>1 DEF Throw, TypeOK, Busy

LEMMA SavesThenGoesProc ==
  ASSUME TypeOK, NEW p \in Procs, proc[p].pc # "idle", NEW s \in Status,
         NEW pc \in Steps, SavesThenGoes(p, s, pc)
  PROVE  /\ \A q \in Procs \ {p} : proc'[q] = proc[q]
         /\ proc'[p].t = proc[p].t
         /\ proc'[p].kind = proc[p].kind
         /\ proc'[p].seen = s
         /\ proc'[p].pc = pc
  <1>1. proc[p] \in Busy
    BY BusyProc
  <1> QED
    BY <1>1 DEF SavesThenGoes, TypeOK, Busy

\* A save touches the status of one row, and writes it unless it is what was read.
LEMMA SavedRow ==
  ASSUME TypeOK, NEW t \in Tenants, NEW seen, NEW s \in Status, SaveStatus(t, seen, s)
  PROVE  /\ \A u \in Tenants \ {t} : row'[u] = row[u]
         /\ row'[t].deleted = row[t].deleted
         /\ row'[t].status = IF seen = s THEN row[t].status ELSE s
  BY DEF SaveStatus, TypeOK

-----------------------------------------------------------------------------
(* A tenant in service has its storage *)

LEMMA CustodyInit == Init => Custody
  <1> SUFFICES ASSUME Init PROVE Custody
    OBVIOUS
  <1>1. TypeOK
    BY TypeInit
  <1>2. \A p \in Procs : proc[p] = Idle
    BY DEF Init
  <1>3. ServedIsStored
    BY DEF Init, ServedIsStored, Served
  <1>4. StepsOfKinds /\ TenantsExist /\ OneInstaller
    BY <1>2 DEF Init, StepsOfKinds, TenantsExist, OneInstaller, Installs, Clones, Idle, Trying
  <1>5. DropsTheDeleted /\ BuiltIsStored /\ ActiveIsSeen
    BY <1>2 DEF DropsTheDeleted, BuiltIsStored, ActiveIsSeen, Idle, Trying, Built
  <1> QED
    BY <1>1, <1>3, <1>4, <1>5 DEF Custody

\* What Custody asks of one process.
Sound(p) ==
    /\ proc[p].pc \in Trying \cup {"cleanup"} => Installs(p)
    /\ proc[p].pc = "softDelete" => proc[p].kind \in {"destroy", "archive", "uninstall"}
    /\ proc[p].pc = "drop" => /\ proc[p].kind \in {"destroy", "uninstall", "purge"}
                              /\ Of(p) \in excused \/ row[Of(p)].deleted # "no"
    /\ proc[p].kind = "uninstall" => Of(p) \in excused
    /\ proc[p].pc \in Built =>
          Of(p) \in excused \/ row[Of(p)].deleted # "no" \/ store[Of(p)] # "none"
    /\ proc[p].pc \in Trying =>
          Of(p) \in excused \/ (row[Of(p)].status = "active" => proc[p].seen = "active")
    /\ proc[p].pc = "cleanup" => Of(p) \in excused \/ row[Of(p)].status # "active"

LEMMA CustodyIsSound ==
  /\ Custody => \A p \in Procs : Sound(p)
  /\ /\ TypeOK /\ ServedIsStored /\ TenantsExist /\ OneInstaller
     /\ \A p \in Procs : Sound(p)
     => Custody
  BY DEF Custody, Sound, StepsOfKinds, DropsTheDeleted, BuiltIsStored, ActiveIsSeen

LEMMA IdleIsSound ==
  ASSUME NEW p \in Procs, proc[p] = Idle
  PROVE  Sound(p)
  BY DEF Sound, Idle, Trying, Built

\* What a step of p owes to the other operations on its tenant: only the one
\* that installs it may put it in service or drop what is being built.
Fair(p) ==
    /\ row'[Of(p)].status = "active" /\ row'[Of(p)].deleted = "no" =>
          store'[Of(p)] # "none" \/ Of(p) \in excused
    /\ row'[Of(p)].status # "none"
    /\ row[Of(p)].deleted # "no" => row'[Of(p)].deleted # "no"
    /\ \/ Installs(p)
       \/ Of(p) \in excused
       \/ row'[Of(p)].deleted # "no"
       \/ store'[Of(p)] = store[Of(p)]
    /\ Installs(p) \/ row'[Of(p)].status = row[Of(p)].status

LEMMA StepKeepsCustody ==
  ASSUME Custody, TypeOK', NEW p \in Procs, proc[p].pc # "idle",
         UNCHANGED excused,
         \A q \in Procs \ {p} : proc'[q] = proc[q],
         \/ proc'[p] = Idle
         \/ proc'[p].t = proc[p].t /\ proc'[p].kind = proc[p].kind /\ Sound(p)',
         \A u \in Tenants \ {Of(p)} : row'[u] = row[u] /\ store'[u] = store[u],
         Fair(p)
  PROVE  Custody'
  <1>a. /\ TypeOK /\ proc[p] \in Busy /\ Of(p) \in Tenants
        /\ \A q \in Procs : proc[q] # Idle => Of(q) \in Tenants
    BY BusyProc DEF Custody, Busy, Of
  <1>1. ServedIsStored'
    BY <1>a DEF Custody, ServedIsStored, Served, Fair
  <1>2. TenantsExist'
    <2>1. \A q \in Procs : proc'[q] # Idle => proc[q] # Idle /\ Of(q)' = Of(q)
      BY <1>a DEF Idle, Of
    <2> QED
      BY <1>a, <2>1 DEF Custody, TenantsExist, Exists, Fair
  <1>3. OneInstaller'
    <2>1. \A q \in Procs : Installs(q)' => Installs(q) /\ Of(q)' = Of(q)
      BY DEF Installs, Of, Idle, Clones
    <2> QED
      BY <2>1 DEF Custody, OneInstaller
  <1>4. ASSUME NEW q \in Procs PROVE Sound(q)'
    <2>1. CASE proc'[q] = Idle
      BY <2>1 DEF Sound, Idle, Trying, Built
    <2>2. CASE q = p /\ proc'[q] # Idle
      BY <2>2
    <2>3. CASE q # p /\ proc'[q] # Idle
      <3>1. proc'[q] = proc[q] /\ Sound(q) /\ Of(q) \in Tenants
        BY <1>a, <2>3, CustodyIsSound
      <3>2. CASE Of(q) # Of(p)
        BY <3>1, <3>2 DEF Sound, Of, Installs
      <3>3. CASE Of(q) = Of(p)
        <4>1. Installs(q) => ~Installs(p)
          BY <2>3, <3>3 DEF Custody, OneInstaller
        <4>2. proc[q].pc \in Trying \cup Built \cup {"cleanup"} => ~Installs(p)
          BY <3>1, <4>1 DEF Sound, Trying, Built
        <4> QED
          BY <3>1, <3>3, <4>2 DEF Sound, Fair, Of, Installs, Built
      <3> QED
        BY <3>2, <3>3
    <2> QED
      BY <2>1, <2>2, <2>3
  <1>5. (TypeOK /\ ServedIsStored /\ TenantsExist /\ OneInstaller)'
    BY <1>1, <1>2, <1>3
  <1> QED
    BY <1>4, <1>5 DEF Custody, Sound, StepsOfKinds, DropsTheDeleted, BuiltIsStored,
       ActiveIsSeen

LEMMA CustodyOfSteps ==
  ASSUME Custody, TypeOK', NEW p \in Procs, Step(p) \/ StepFails(p) \/ Fails(p)
  PROVE  Custody'
  <1> USE DEF bounds
  <1>a. TypeOK /\ Sound(p)
    BY CustodyIsSound DEF Custody
  <1>b. proc[p].pc # "idle"
    BY DEF Step, StepFails, Fails, Load, NotFound, LoadAny, Mark, Provision, Migrate,
       Copy, Activate, After, Fail, Cleanup, SoftDelete, Drop, At
  <1>c. proc[p] \in Busy /\ proc[p] # Idle /\ Of(p) \in Tenants
    BY <1>a, <1>b, BusyProc DEF Busy, Of, Idle
  <1>d. row[Of(p)].status # "none"
    BY <1>c DEF Custody, TenantsExist, Exists
  <1>e. row[Of(p)].status = "active" /\ row[Of(p)].deleted = "no" =>
           store[Of(p)] # "none" \/ Of(p) \in excused
    BY <1>c DEF Custody, ServedIsStored, Served
  <1> DEFINE Others == \A q \in Procs \ {p} : proc'[q] = proc[q]
             Ends   == proc'[p] = Idle
             Goes   == proc'[p].t = proc[p].t /\ proc'[p].kind = proc[p].kind
             Rows   == \A u \in Tenants \ {Of(p)} : row'[u] = row[u] /\ store'[u] = store[u]
  <1>f. ASSUME UNCHANGED <<row, store>> PROVE Rows /\ Fair(p)
    BY <1>d, <1>e, <1>f DEF Fair
  <1>g. ASSUME Others, Ends \/ (Goes /\ Sound(p)'), Rows, Fair(p), UNCHANGED excused
        PROVE  Custody'
    BY <1>b, <1>g, StepKeepsCustody
  <1>h. ASSUME Throw(p), UNCHANGED excused
        PROVE  Others /\ (Ends \/ (Goes /\ Sound(p)'))
    <2>1. Others /\ (Ends \/ (Goes /\ proc'[p].pc = "queued"))
      BY <1>a, <1>b, <1>h, ThrowProc
    <2>2. Goes /\ proc'[p].pc = "queued" => Sound(p)'
      BY <1>a, <1>h DEF Sound, Of, Trying, Built
    <2> QED
      BY <2>1, <2>2
  <1> HIDE DEF Others, Ends, Goes, Rows
  <1>1. CASE Load(p)
    <2>1. Others /\ Goes /\ proc'[p].seen = row[Of(p)].status
          /\ proc'[p].pc = IF proc[p].kind = "install" THEN "mark" ELSE "provision"
      BY <1>1, <1>a, <1>c DEF Load, TypeOK, Busy, Others, Goes
    <2>2. Sound(p)'
      BY <1>1, <2>1 DEF Load, At, Sound, Goes, Of, Installs, Clones, Trying, Built
    <2> QED
      BY <1>1, <1>f, <1>g, <2>1, <2>2 DEF Load
  <1>2. CASE NotFound(p)
    BY <1>2, <1>f, <1>g, <1>h DEF NotFound
  <1>3. CASE LoadAny(p)
    <2>1. Others /\ Goes /\ proc'[p].pc = "drop"
      BY <1>3, <1>a, <1>b, GotoProc DEF LoadAny, Others, Goes, Steps
    <2>2. Sound(p)'
      BY <1>3, <1>a, <2>1 DEF LoadAny, At, Sound, Goes, Of, Trying, Built
    <2> QED
      BY <1>3, <1>f, <1>g, <2>1, <2>2 DEF LoadAny
  <1>4. CASE Mark(p)
    <2>1. Others /\ Goes /\ proc'[p].seen = "provisioning" /\ proc'[p].pc = "provision"
      BY <1>4, <1>a, <1>b, SavesThenGoesProc DEF Mark, Others, Goes, Steps, Status
    <2>2. SaveStatus(Of(p), proc[p].seen, "provisioning") /\ Installs(p)
      BY <1>4 DEF Mark, At, SavesThenGoes, Installs
    <2>3. /\ \A u \in Tenants \ {Of(p)} : row'[u] = row[u]
          /\ row'[Of(p)].deleted = row[Of(p)].deleted
          /\ row'[Of(p)].status = IF proc[p].seen = "provisioning" THEN row[Of(p)].status
                                  ELSE "provisioning"
      BY <1>a, <1>c, <2>2, SavedRow DEF Status
    <2>4. Rows /\ Fair(p)
      BY <1>4, <1>d, <1>e, <2>2, <2>3 DEF Mark, Rows, Fair
    <2>5. Sound(p)'
      BY <1>4, <1>a, <2>1, <2>2, <2>3
         DEF Mark, At, Sound, Goes, Of, Installs, Trying, Built
    <2> QED
      BY <1>4, <1>g, <2>1, <2>4, <2>5 DEF Mark
  <1>5. CASE Provision(p)
    <2>1. Others /\ Goes /\ proc'[p].seen = proc[p].seen
          /\ proc'[p].pc \in {"activate", "migrate"}
      BY <1>5, <1>a, <1>b, GotoProc DEF Provision, Others, Goes, Steps
    <2>2. Installs(p)
      BY <1>5, <1>a DEF Provision, Sound, Trying
    <2>3. store'[Of(p)] # "none" /\ \A u \in Tenants \ {Of(p)} : store'[u] = store[u]
      BY <1>5, <1>a, <1>c DEF Provision, Provisioned, TypeOK
    <2>4. Rows /\ Fair(p)
      BY <1>5, <1>d, <2>2, <2>3 DEF Provision, Rows, Fair
    <2>5. Sound(p)'
      BY <1>5, <1>a, <2>1, <2>2, <2>3
         DEF Provision, Sound, Goes, Of, Installs, Trying, Built
    <2> QED
      BY <1>5, <1>g, <2>1, <2>4, <2>5 DEF Provision
  <1>6. CASE Migrate(p) \/ Copy(p)
    <2>1. Others /\ Goes /\ proc'[p].seen = proc[p].seen
          /\ proc'[p].pc \in {"copy", "activate", "fail"}
      BY <1>6, <1>a, <1>b, GotoProc DEF Migrate, Copy, Others, Goes, Steps
    <2>2. Installs(p) /\ proc[p].pc \in Trying \cap Built
      BY <1>6 DEF Migrate, Copy, At, Installs, Trying, Built
    <2>3. /\ (store'[Of(p)] = "none") <=> (store[Of(p)] = "none")
          /\ \A u \in Tenants \ {Of(p)} : store'[u] = store[u]
      BY <1>6, <1>a, <1>c DEF Migrate, Copy, WithRows, TypeOK
    <2>4. Rows /\ Fair(p)
      BY <1>6, <1>d, <1>e, <2>2, <2>3 DEF Migrate, Copy, Rows, Fair
    <2>5. Sound(p)'
      BY <1>6, <1>a, <2>1, <2>2, <2>3
         DEF Migrate, Copy, Sound, Goes, Of, Installs, Trying, Built
    <2> QED
      BY <1>6, <1>g, <2>1, <2>4, <2>5 DEF Migrate, Copy
  <1>7. CASE Activate(p)
    <2>1. Others /\ Goes /\ proc'[p].pc = "after"
      BY <1>7, <1>a, <1>b, SavesThenGoesProc DEF Activate, Others, Goes, Steps, Status
    <2>2. SaveStatus(Of(p), proc[p].seen, "active")
      BY <1>7 DEF Activate, SavesThenGoes
    <2>3. /\ \A u \in Tenants \ {Of(p)} : row'[u] = row[u]
          /\ row'[Of(p)].deleted = row[Of(p)].deleted
          /\ row'[Of(p)].status # "none"
      BY <1>a, <1>c, <1>d, <2>2, SavedRow DEF Status
    <2>4. Rows /\ Fair(p)
      BY <1>7, <1>a, <2>3 DEF Activate, Rows, Fair, Sound, Trying, Built
    <2>5. Sound(p)'
      BY <1>7, <1>a, <2>1 DEF Activate, Sound, Goes, Of, Trying, Built
    <2> QED
      BY <1>7, <1>g, <2>1, <2>4, <2>5 DEF Activate
  <1>8. CASE After(p)
    BY <1>8, <1>a, <1>f, <1>g, FinishProc DEF After, Others, Ends
  <1>9. CASE Fail(p)
    <2>1. SaveStatus(Of(p), proc[p].seen, "failed") /\ Installs(p)
      BY <1>9, <1>a DEF Fail, Sound, Trying
    <2>2. /\ \A u \in Tenants \ {Of(p)} : row'[u] = row[u]
          /\ row'[Of(p)].deleted = row[Of(p)].deleted
          /\ row'[Of(p)].status = IF proc[p].seen = "failed" THEN row[Of(p)].status
                                  ELSE "failed"
      BY <1>a, <1>c, <2>1, SavedRow DEF Status
    <2>3. Rows /\ Fair(p)
      BY <1>9, <1>d, <1>e, <2>1, <2>2 DEF Fail, Rows, Fair
    <2>4. CASE proc[p].kind \in Clones
      <3>1. Others /\ Goes /\ proc'[p].pc = "cleanup"
        BY <1>9, <1>a, <1>b, <2>4, GotoProc DEF Fail, Others, Goes, Steps
      <3>2. Sound(p)'
        BY <1>9, <1>a, <2>1, <2>2, <3>1
           DEF Fail, Sound, Goes, Of, Installs, Trying, Built
      <3> QED
        BY <1>9, <1>g, <2>3, <3>1, <3>2 DEF Fail
    <2>5. CASE proc[p].kind \notin Clones
      BY <1>9, <1>g, <1>h, <2>3, <2>5 DEF Fail
    <2> QED
      BY <2>4, <2>5
  <1>10. CASE Cleanup(p)
    <2>1. /\ Installs(p)
          /\ Of(p) \in excused \/ row[Of(p)].status # "active"
      BY <1>10, <1>a DEF Cleanup, Sound
    <2>2. \A u \in Tenants \ {Of(p)} : store'[u] = store[u]
      BY <1>10, <1>a DEF Cleanup, Dropped, TypeOK
    <2>3. Rows /\ Fair(p)
      BY <1>10, <1>d, <2>1, <2>2 DEF Cleanup, Rows, Fair
    <2> QED
      BY <1>10, <1>g, <1>h, <2>3 DEF Cleanup
  <1>11. CASE SoftDelete(p)
    <2>1. Others /\ (Ends \/ (Goes /\ \/ proc'[p].pc = "after"
                                      \/ proc'[p].pc = "drop" /\ proc[p].kind = "destroy"))
      BY <1>11, <1>a, <1>b, GotoProc, FinishProc
         DEF SoftDelete, Others, Ends, Goes, Steps
    <2>2. /\ \A u \in Tenants \ {Of(p)} : row'[u] = row[u]
          /\ row'[Of(p)].deleted = "recent"
          /\ row'[Of(p)].status = row[Of(p)].status
      BY <1>11, <1>a, <1>c DEF SoftDelete, TypeOK
    <2>3. Rows /\ Fair(p)
      BY <1>11, <1>d, <2>2 DEF SoftDelete, Rows, Fair
    <2>4. Ends \/ (Goes /\ Sound(p)')
      BY <1>11, <1>a, <1>c, <2>1, <2>2
         DEF SoftDelete, Sound, Goes, Of, Trying, Built
    <2> QED
      BY <1>11, <1>g, <2>1, <2>3, <2>4 DEF SoftDelete
  <1>12. CASE Drop(p)
    <2>1. Others /\ (Ends \/ (Goes /\ proc'[p].pc = "softDelete"
                              /\ proc[p].kind = "uninstall"))
      BY <1>12, <1>a, <1>b, GotoProc, FinishProc DEF Drop, Others, Ends, Goes, Steps
    <2>2. /\ \A u \in Tenants \ {Of(p)} : store'[u] = store[u]
          /\ Of(p) \in excused \/ row[Of(p)].deleted # "no"
      BY <1>12, <1>a DEF Drop, Dropped, TypeOK, Sound
    <2>3. Rows /\ Fair(p)
      BY <1>12, <1>d, <2>2 DEF Drop, Rows, Fair
    <2>4. Ends \/ (Goes /\ Sound(p)')
      BY <1>12, <1>a, <2>1 DEF Drop, Sound, Goes, Of, Trying, Built
    <2> QED
      BY <1>12, <1>g, <2>1, <2>3, <2>4 DEF Drop
  <1>13. CASE StepFails(p)
    <2>1. Others /\ Goes /\ proc'[p].seen = proc[p].seen /\ proc'[p].pc = "fail"
      BY <1>13, <1>a, <1>b, GotoProc DEF StepFails, Others, Goes, Steps
    <2>2. Sound(p)'
      BY <1>13, <1>a, <2>1 DEF StepFails, Sound, Goes, Of, Installs, Trying, Built
    <2> QED
      BY <1>13, <1>f, <1>g, <2>1, <2>2 DEF StepFails
  <1>14. CASE Fails(p)
    BY <1>14, <1>f, <1>g, <1>h DEF Fails
  <1> QED
    BY <1>1, <1>2, <1>3, <1>4, <1>5, <1>6, <1>7, <1>8, <1>9, <1>10, <1>11,
       <1>12, <1>13, <1>14 DEF Step

\* A tenant without a row is worked on by nobody.
LEMMA NobodyYet ==
  ASSUME Custody, NEW t \in Tenants, ~Exists(t), NEW p \in Procs
  PROVE  Of(p) # t
  BY LifecycleAssumption DEF Custody, TenantsExist, Idle, Of

\* A new operation on a tenant that exists.
LEMMA BegunProc ==
  ASSUME TypeOK, NEW p \in Procs, NEW kind \in Kinds, NEW pc \in Steps,
         NEW t \in Tenants, Begin(p, kind, pc, t, 0)
  PROVE  /\ \A q \in Procs \ {p} : proc'[q] = proc[q]
         /\ proc'[p].t = t
         /\ proc'[p].kind = kind
         /\ proc'[p].pc = pc
  BY DEF Begin, TypeOK

LEMMA BeginKeepsCustody ==
  ASSUME Custody, TypeOK', NEW p \in Procs, NEW t \in Tenants, Exists(t),
         UNCHANGED <<row, store>>, excused \subseteq excused',
         \A q \in Procs \ {p} : proc'[q] = proc[q],
         proc'[p].t = t, ~Installs(p)', Sound(p)'
  PROVE  Custody'
  <1>1. ServedIsStored'
    BY DEF Custody, ServedIsStored, Served
  <1>2. TenantsExist'
    BY BusyOf DEF Custody, TenantsExist, Exists, Of
  <1>3. OneInstaller'
    BY DEF Custody, OneInstaller, Installs, Of
  <1>4. ASSUME NEW q \in Procs PROVE Sound(q)'
    BY CustodyIsSound DEF Sound, Of, Installs
  <1> QED
    BY <1>1, <1>2, <1>3, <1>4 DEF Custody, Sound, StepsOfKinds, DropsTheDeleted,
       BuiltIsStored, ActiveIsSeen

\* An operator's change of a tenant no process touches, or at the operator's risk.
LEMMA RowChangeKeepsCustody ==
  ASSUME Custody, TypeOK', NEW t \in Tenants, UNCHANGED <<store, proc>>,
         excused \subseteq excused',
         \A u \in Tenants \ {t} : row'[u] = row[u],
         row'[t].status # "none",
         \/ t \in excused'
         \/ /\ row'[t].status = "active" /\ row'[t].deleted = "no" => store[t] # "none"
            /\ \/ \A p \in Procs : Of(p) # t
               \/ /\ row[t].deleted # "no" => row'[t].deleted # "no"
                  /\ row'[t].status = "active" => row[t].status = "active"
  PROVE  Custody'
  <1>1. ServedIsStored'
    BY DEF Custody, ServedIsStored, Served
  <1>2. TenantsExist'
    BY BusyOf DEF Custody, TenantsExist, Exists, Of
  <1>3. OneInstaller'
    BY DEF Custody, OneInstaller, Installs, Of
  <1>4. ASSUME NEW q \in Procs PROVE Sound(q)'
    <2>1. CASE proc[q] = Idle
      BY <2>1 DEF Sound, Idle, Trying, Built
    <2>2. CASE proc[q] # Idle
      <3>1. Sound(q) /\ Of(q) \in Tenants
        BY <2>2, CustodyIsSound, BusyProc DEF Custody, Busy, Of
      <3>2. CASE Of(q) # t
        BY <3>1, <3>2 DEF Sound, Of, Installs
      <3>3. CASE Of(q) = t
        BY <3>1, <3>3 DEF Sound, Of, Installs
      <3> QED
        BY <3>2, <3>3
    <2> QED
      BY <2>1, <2>2
  <1> QED
    BY <1>1, <1>2, <1>3, <1>4 DEF Custody, Sound, StepsOfKinds, DropsTheDeleted,
       BuiltIsStored, ActiveIsSeen

\* The row of a new tenant, and the process that provisions or clones it.
LEMMA CreationKeepsCustody ==
  ASSUME Custody, TypeOK', NEW p \in Procs, NEW t \in Tenants, ~Exists(t),
         proc[p] = Idle, UNCHANGED <<store, excused>>,
         \A u \in Tenants \ {t} : row'[u] = row[u],
         row'[t].status = "provisioning",
         \A q \in Procs \ {p} : proc'[q] = proc[q],
         proc'[p].t = t, Installs(p)', proc'[p].pc \in {"queued", "provision"}
  PROVE  Custody'
  <1>a. \A q \in Procs : Of(q) # t
    BY NobodyYet
  <1>1. ServedIsStored'
    BY DEF Custody, ServedIsStored, Served
  <1>2. TenantsExist'
    BY BusyOf DEF Custody, TenantsExist, Exists, Of
  <1>3. OneInstaller'
    BY <1>a DEF Custody, OneInstaller, Installs, Of
  <1>4. ASSUME NEW q \in Procs PROVE Sound(q)'
    <2>1. CASE q = p
      BY <2>1 DEF Sound, Of, Installs, Trying, Built, Clones
    <2>2. CASE q # p /\ proc[q] = Idle
      BY <2>2 DEF Sound, Idle, Trying, Built
    <2>3. CASE q # p /\ proc[q] # Idle
      <3>1. Sound(q) /\ Of(q) \in Tenants \ {t}
        BY <1>a, <2>3, CustodyIsSound, BusyProc DEF Custody, Busy, Of
      <3> QED
        BY <2>3, <3>1 DEF Sound, Of, Installs
    <2> QED
      BY <2>1, <2>2, <2>3
  <1> QED
    BY <1>1, <1>2, <1>3, <1>4 DEF Custody, Sound, StepsOfKinds, DropsTheDeleted,
       BuiltIsStored, ActiveIsSeen

LEMMA CustodyOfRequests ==
  ASSUME Custody, TypeOK', NEW t \in Tenants,
         Asks(t) \/ Expire(t) \/ \E p \in Procs : Purge(t, p)
  PROVE  Custody'
  <1> USE DEF bounds
  <1>a. TypeOK
    BY DEF Custody
  <1>1. ASSUME NEW p \in Procs, Create(t, p) PROVE Custody'
    <2>1. /\ \A u \in Tenants \ {t} : row'[u] = row[u]
          /\ row'[t].status = "provisioning"
          /\ \A q \in Procs \ {p} : proc'[q] = proc[q]
          /\ proc'[p].t = t /\ Installs(p)' /\ proc'[p].pc = "queued"
      BY <1>1, <1>a DEF Create, TypeOK, Installs
    <2> QED
      BY <1>1, <2>1, CreationKeepsCustody DEF Create
  <1>2. CASE CreateUnqueued(t)
    <2>1. /\ \A u \in Tenants \ {t} : row'[u] = row[u]
          /\ row'[t].status = "provisioning"
      BY <1>2, <1>a DEF CreateUnqueued, TypeOK
    <2> QED
      BY <1>2, <2>1, NobodyYet, RowChangeKeepsCustody DEF CreateUnqueued
  <1>3. ASSUME NEW p \in Procs, NEW kind \in Clones, Clone(t, p, kind) PROVE Custody'
    <2>1. /\ \A u \in Tenants \ {t} : row'[u] = row[u]
          /\ row'[t].status = "provisioning"
          /\ \A q \in Procs \ {p} : proc'[q] = proc[q]
          /\ proc'[p].t = t /\ Installs(p)' /\ proc'[p].pc \in {"queued", "provision"}
      BY <1>3, <1>a DEF Clone, TypeOK, Installs
    <2> QED
      BY <1>3, <2>1, CreationKeepsCustody DEF Clone
  <1>4. CASE SourceGone(t)
    BY <1>4 DEF SourceGone, Custody, ServedIsStored, Served, StepsOfKinds, TenantsExist,
       Exists, OneInstaller, Installs, DropsTheDeleted, BuiltIsStored, ActiveIsSeen, Of
  <1>5. ASSUME NEW p \in Procs, NEW kind \in {"destroy", "archive"}, Destroy(t, p, kind)
        PROVE  Custody'
    <2>1. /\ \A q \in Procs \ {p} : proc'[q] = proc[q]
          /\ proc'[p].t = t /\ proc'[p].kind = kind /\ proc'[p].pc = "softDelete"
      BY <1>5, <1>a, BegunProc DEF Destroy, Kinds, Steps
    <2>2. ~Installs(p)' /\ Sound(p)'
      BY <2>1 DEF Installs, Sound, Clones, Trying, Built
    <2> QED
      BY <1>5, <2>1, <2>2, BeginKeepsCustody DEF Destroy, Live
  <1>6. ASSUME NEW p \in Procs, Uninstall(t, p) PROVE Custody'
    <2>1. /\ \A q \in Procs \ {p} : proc'[q] = proc[q]
          /\ proc'[p].t = t /\ proc'[p].kind = "uninstall" /\ proc'[p].pc = "queued"
      BY <1>6, <1>a, BegunProc DEF Uninstall, Kinds, Jobs, Steps
    <2>2. ~Installs(p)' /\ Sound(p)'
      BY <1>6, <2>1 DEF Uninstall, Installs, Sound, Of, Clones, Trying, Built
    <2> QED
      BY <1>6, <2>1, <2>2, BeginKeepsCustody DEF Uninstall
  <1>7. CASE Suspend(t)
    <2>1. /\ \A u \in Tenants \ {t} : row'[u] = row[u]
          /\ row'[t].status = "suspended" /\ row'[t].deleted = row[t].deleted
      BY <1>7, <1>a DEF Suspend, TypeOK
    <2> QED
      BY <1>7, <2>1, RowChangeKeepsCustody DEF Suspend
  <1>8. CASE ActivateByHand(t) \/ Restore(t)
    <2>1. /\ \A u \in Tenants \ {t} : row'[u] = row[u]
          /\ UNCHANGED <<store, proc>>
          /\ Risk(t)
      BY <1>8, <1>a DEF ActivateByHand, Restore, TypeOK
    <2>2. row'[t].status # "none"
      BY <1>8, <1>a DEF ActivateByHand, Restore, TypeOK, Custody, TenantsExist, Exists
    <2>3. \/ t \in excused'
          \/ store[t] # "none" /\ \A p \in Procs : Of(p) # t
      BY <1>a, <2>1 DEF Risk, Settled, Complete, WithRows, TypeOK, Cloned
    <2>4. excused \subseteq excused'
      BY <2>1 DEF Risk
    <2> QED
      BY <2>1, <2>2, <2>3, <2>4, RowChangeKeepsCustody
  <1>9. CASE Expire(t)
    <2>1. /\ \A u \in Tenants \ {t} : row'[u] = row[u]
          /\ row'[t].status = row[t].status /\ row'[t].deleted = "expired"
      BY <1>9, <1>a DEF Expire, TypeOK
    <2>2. row[t].status # "none"
      BY <1>9 DEF Expire, Custody, TenantsExist, Exists
    <2> QED
      BY <1>9, <2>1, <2>2, RowChangeKeepsCustody DEF Expire
  <1>10. ASSUME NEW p \in Procs, Purge(t, p) PROVE Custody'
    <2>1. /\ \A q \in Procs \ {p} : proc'[q] = proc[q]
          /\ proc'[p].t = t /\ proc'[p].kind = "purge" /\ proc'[p].pc = "drop"
      BY <1>10, <1>a, BegunProc DEF Purge, Kinds, Steps
    <2>2. ~Installs(p)' /\ Sound(p)'
      BY <1>10, <2>1 DEF Purge, Candidate, Installs, Sound, Of, Clones, Trying, Built
    <2> QED
      BY <1>10, <2>1, <2>2, BeginKeepsCustody DEF Purge, Candidate, Custody, TenantsExist
  <1> QED
    BY <1>1, <1>2, <1>3, <1>4, <1>5, <1>6, <1>7, <1>8, <1>9, <1>10 DEF Asks

LEMMA CustodyStep == Custody /\ [Next]_vars => Custody'
  <1> SUFFICES ASSUME Custody, [Next]_vars PROVE Custody'
    OBVIOUS
  <1>a. TypeOK'
    BY TypeStep DEF Custody
  <1>1. CASE UNCHANGED vars
    BY <1>a, <1>1 DEF vars, bounds, Custody, ServedIsStored, Served, StepsOfKinds,
       TenantsExist, Exists, OneInstaller, Installs, DropsTheDeleted, BuiltIsStored,
       ActiveIsSeen, Of
  <1>2. CASE Rest
    BY <1>1, <1>2 DEF Rest
  <1> QED
    BY <1>a, <1>1, <1>2, CustodyOfRequests, CustodyOfSteps DEF Next

\* No interleaving of provisioning, cloning, destruction and purges, with any
\* number of failures and retries, leaves a tenant in service without storage:
\* only its own installer puts it in service, the installer knows the status it
\* has written when it fails, and a drop waits for the soft delete.
THEOREM ServedTenantsHaveStorage == Spec => []ServedIsStored
  <1>1. Custody => ServedIsStored
    BY DEF Custody
  <1> QED
    BY <1>1, CustodyInit, CustodyStep, PTL DEF Spec

-----------------------------------------------------------------------------
(* A clone in service is whole *)

\* Nothing is promised of these.
Exempt(t) == t \in excused \/ t \notin source \/ row[t].deleted # "no"

Whole(t) ==
    /\ row[t].cloned # "no" /\ row[t].status = "active" =>
          store[t] \in Complete(row[t].cloned) \/ Exempt(t)
    /\ store[t] \in WithRows => row[t].cloned = "rows"
    /\ ~Exists(t) => row[t].cloned = "no"

\* A clone that gets as far as a step has done the ones before it.
Stage(p) ==
    /\ proc[p].kind \in Clones => row[Of(p)].cloned # "no"
    /\ proc[p].kind = "install" => row[Of(p)].cloned = "no"
    /\ At(p, Clones, "copy") => store[Of(p)] \in WithRows \cup {"migrated"} \/ Exempt(Of(p))
    /\ At(p, Clones, "activate") =>
          store[Of(p)] \in Complete(row[Of(p)].cloned) \/ Exempt(Of(p))

Wholeness == (\A t \in Tenants : Whole(t)) /\ \A p \in Procs : Stage(p)

LEMMA WholenessInit == Init => Wholeness
  BY DEF Init, Wholeness, Whole, Stage, Exists, At, Idle, Clones, WithRows

LEMMA IdleIsStaged ==
  ASSUME NEW p \in Procs, proc[p] = Idle
  PROVE  Stage(p)
  BY DEF Stage, At, Idle, Clones

\* Exempt after the step, of a tenant named before it.
ExemptNext(t) == t \in excused' \/ t \notin source' \/ row'[t].deleted # "no"

\* What a step of p owes to the clone of its tenant.
Heeds(p) ==
    /\ row'[Of(p)].cloned = row[Of(p)].cloned
    /\ row'[Of(p)].status # "none"
    /\ row[Of(p)].deleted # "no" => row'[Of(p)].deleted # "no"
    /\ \/ Installs(p)
       \/ ExemptNext(Of(p))
       \/ store'[Of(p)] = store[Of(p)]
    /\ store'[Of(p)] \in WithRows => row'[Of(p)].cloned = "rows"
    /\ row'[Of(p)].cloned # "no" /\ row'[Of(p)].status = "active" =>
          store'[Of(p)] \in Complete(row'[Of(p)].cloned) \/ ExemptNext(Of(p))

LEMMA StepKeepsWholeness ==
  ASSUME Custody, Wholeness, NEW p \in Procs, proc[p].pc # "idle",
         UNCHANGED <<source, excused>>,
         \A q \in Procs \ {p} : proc'[q] = proc[q],
         \/ proc'[p] = Idle
         \/ proc'[p].t = proc[p].t /\ proc'[p].kind = proc[p].kind /\ Stage(p)',
         \A u \in Tenants \ {Of(p)} : row'[u] = row[u] /\ store'[u] = store[u],
         Heeds(p)
  PROVE  Wholeness'
  <1>a. Of(p) \in Tenants
    BY BusyProc DEF Custody, Busy, Of
  <1>1. ASSUME NEW t \in Tenants PROVE Whole(t)'
    <2>1. CASE t # Of(p)
      BY <2>1 DEF Wholeness, Whole, Exempt, Exists
    <2>2. CASE t = Of(p)
      BY <2>2 DEF Wholeness, Whole, Heeds, Exempt, ExemptNext, Exists
    <2> QED
      BY <2>1, <2>2
  <1>2. ASSUME NEW q \in Procs PROVE Stage(q)'
    <2>1. CASE proc'[q] = Idle
      BY <2>1 DEF Stage, At, Idle, Clones
    <2>2. CASE q = p /\ proc'[q] # Idle
      BY <2>2
    <2>3. CASE q # p /\ proc'[q] # Idle
      <3>1. proc'[q] = proc[q] /\ Stage(q) /\ Of(q) \in Tenants
        BY <2>3, BusyProc DEF Wholeness, Custody, TypeOK, Busy, Of
      <3>2. CASE Of(q) # Of(p)
        BY <3>1, <3>2 DEF Stage, At, Of, Exempt
      <3>3. CASE Of(q) = Of(p)
        <4>1. Installs(q) => ~Installs(p)
          BY <2>3, <3>3 DEF Custody, OneInstaller
        <4>2. proc[q].kind \in Clones => ~Installs(p)
          BY <4>1 DEF Installs
        <4> QED
          BY <3>1, <3>3, <4>2 DEF Stage, At, Heeds, Of, Exempt, ExemptNext
      <3> QED
        BY <3>2, <3>3
    <2> QED
      BY <2>1, <2>2, <2>3
  <1> QED
    BY <1>1, <1>2 DEF Wholeness

LEMMA WholenessOfSteps ==
  ASSUME Custody, Wholeness, NEW p \in Procs, Step(p) \/ StepFails(p) \/ Fails(p)
  PROVE  Wholeness'
  <1> USE DEF bounds
  <1>a. TypeOK /\ Sound(p) /\ Stage(p)
    BY CustodyIsSound DEF Custody, Wholeness
  <1>b. proc[p].pc # "idle"
    BY DEF Step, StepFails, Fails, Load, NotFound, LoadAny, Mark, Provision, Migrate,
       Copy, Activate, After, Fail, Cleanup, SoftDelete, Drop, At
  <1>c. proc[p] \in Busy /\ proc[p] # Idle /\ Of(p) \in Tenants
    BY <1>a, <1>b, BusyProc DEF Busy, Of, Idle
  <1>d. row[Of(p)].status # "none"
    BY <1>c DEF Custody, TenantsExist, Exists
  <1>e. Whole(Of(p)) /\ store[Of(p)] \in Contents
    BY <1>a, <1>c DEF Wholeness, TypeOK
  <1> DEFINE Others == \A q \in Procs \ {p} : proc'[q] = proc[q]
             Ends   == proc'[p] = Idle
             Goes   == proc'[p].t = proc[p].t /\ proc'[p].kind = proc[p].kind
             Rows   == \A u \in Tenants \ {Of(p)} : row'[u] = row[u] /\ store'[u] = store[u]
  <1>f. ASSUME UNCHANGED <<row, store, source, excused>> PROVE Rows /\ Heeds(p)
    BY <1>d, <1>e, <1>f DEF Heeds, Whole, Exempt, ExemptNext
  <1>g. ASSUME Others, Ends \/ (Goes /\ Stage(p)'), Rows, Heeds(p), UNCHANGED <<source, excused>>
        PROVE  Wholeness'
    BY <1>b, <1>g, StepKeepsWholeness
  <1>h. ASSUME Goes, row'[Of(p)].cloned = row[Of(p)].cloned,
               proc'[p].pc \notin {"copy", "activate"}
        PROVE  Stage(p)'
    BY <1>a, <1>h DEF Stage, Of, At
  <1>i. ASSUME Throw(p), row'[Of(p)].cloned = row[Of(p)].cloned
        PROVE  Others /\ (Ends \/ (Goes /\ Stage(p)'))
    BY <1>a, <1>b, <1>h, <1>i, ThrowProc
  <1>j. /\ "bare" \notin Complete("schema") \cup Complete("rows")
        /\ "none" \notin Complete("schema") \cup Complete("rows")
        /\ "migrated" \notin Complete("rows") /\ WithRows = Complete("rows")
        /\ row[Of(p)].cloned \in {"no", "schema", "rows"}
    BY <1>a, <1>c DEF Complete, WithRows, TypeOK, Cloned
  <1> HIDE DEF Others, Ends, Goes, Rows
  <1>1. CASE Load(p)
    <2>1. Others /\ Goes /\ proc'[p].pc \in {"mark", "provision"}
      BY <1>1, <1>a, <1>c DEF Load, TypeOK, Busy, Others, Goes
    <2> QED
      BY <1>1, <1>f, <1>g, <1>h, <2>1 DEF Load
  <1>2. CASE NotFound(p)
    BY <1>2, <1>f, <1>g, <1>i DEF NotFound
  <1>3. CASE LoadAny(p)
    <2>1. Others /\ Goes /\ proc'[p].pc = "drop"
      BY <1>3, <1>a, <1>b, GotoProc DEF LoadAny, Others, Goes, Steps
    <2> QED
      BY <1>3, <1>f, <1>g, <1>h, <2>1 DEF LoadAny
  <1>4. CASE Mark(p)
    <2>1. Others /\ Goes /\ proc'[p].pc = "provision"
      BY <1>4, <1>a, <1>b, SavesThenGoesProc DEF Mark, Others, Goes, Steps, Status
    <2>2. SaveStatus(Of(p), proc[p].seen, "provisioning") /\ Installs(p) /\ row[Of(p)].cloned = "no"
      BY <1>4, <1>a DEF Mark, At, SavesThenGoes, Installs, Stage
    <2>3. /\ \A u \in Tenants \ {Of(p)} : row'[u] = row[u]
          /\ row'[Of(p)].deleted = row[Of(p)].deleted
          /\ row'[Of(p)].cloned = row[Of(p)].cloned
          /\ row'[Of(p)].status # "none"
      BY <1>a, <1>c, <1>d, <2>2 DEF SaveStatus, TypeOK
    <2>4. Rows /\ Heeds(p)
      BY <1>4, <1>e, <2>2, <2>3 DEF Mark, Rows, Heeds, Whole
    <2> QED
      BY <1>4, <1>g, <1>h, <2>1, <2>3, <2>4 DEF Mark
  <1>5. CASE Provision(p)
    <2>1. Others /\ Goes /\ proc'[p].pc = IF proc[p].kind = "install" THEN "activate"
                                          ELSE "migrate"
      BY <1>5, <1>a, <1>b, GotoProc DEF Provision, Others, Goes, Steps
    <2>2. Installs(p)
      BY <1>5, <1>a DEF Provision, Sound, Trying
    <2>3. /\ \/ store'[Of(p)] = store[Of(p)]
             \/ store[Of(p)] = "none" /\ store'[Of(p)] = "bare"
          /\ \A u \in Tenants \ {Of(p)} : store'[u] = store[u]
          /\ UNCHANGED <<row, source, excused>>
      BY <1>5, <1>a, <1>c DEF Provision, Provisioned, TypeOK
    <2>4. Rows /\ Heeds(p)
      BY <1>d, <1>e, <1>j, <2>2, <2>3 DEF Rows, Heeds, Whole, WithRows, Exempt, ExemptNext
    <2>5. Stage(p)'
      BY <1>a, <2>1, <2>3 DEF Stage, At, Goes, Of, Clones
    <2> QED
      BY <1>g, <2>1, <2>3, <2>4, <2>5
  <1>6. CASE Migrate(p)
    <2>1. Others /\ Goes /\ proc'[p].pc = IF store[Of(p)] = "none" THEN "fail" ELSE "copy"
      BY <1>6, <1>a, <1>b, GotoProc DEF Migrate, Others, Goes, Steps
    <2>2. Installs(p)
      BY <1>6 DEF Migrate, At, Installs
    <2>3. /\ \/ store'[Of(p)] = store[Of(p)]
             \/ store[Of(p)] = "bare" /\ store'[Of(p)] = "migrated"
          /\ store[Of(p)] # "none" => store'[Of(p)] \in WithRows \cup {"migrated"}
          /\ \A u \in Tenants \ {Of(p)} : store'[u] = store[u]
          /\ UNCHANGED <<row, source, excused>>
      BY <1>6, <1>a, <1>c, <1>e DEF Migrate, TypeOK, Contents, WithRows
    <2>4. Rows /\ Heeds(p)
      BY <1>d, <1>e, <1>j, <2>2, <2>3 DEF Rows, Heeds, Whole, WithRows, Exempt, ExemptNext
    <2>5. Stage(p)'
      BY <1>a, <2>1, <2>3 DEF Stage, At, Goes, Of, Clones
    <2> QED
      BY <1>g, <2>1, <2>3, <2>4, <2>5
  <1>7. CASE Copy(p)
    <2>1. Others /\ Goes /\ proc'[p].pc \in {"fail", "activate"}
      BY <1>7, <1>a, <1>b, GotoProc DEF Copy, Others, Goes, Steps
    <2>2. /\ Installs(p) /\ row[Of(p)].cloned \in {"schema", "rows"}
          /\ store[Of(p)] \in WithRows \cup {"migrated"} \/ Exempt(Of(p))
      BY <1>7, <1>a, <1>c DEF Copy, At, Installs, Stage, TypeOK, Cloned
    <2>3. /\ \A u \in Tenants \ {Of(p)} : store'[u] = store[u]
          /\ UNCHANGED <<row, source, excused>>
          /\ \/ store'[Of(p)] = store[Of(p)]
             \/ /\ row[Of(p)].cloned = "rows" /\ store[Of(p)] = "migrated"
                /\ store'[Of(p)] \in WithRows
      BY <1>7, <1>a, <1>c DEF Copy, TypeOK
    <2>4. proc'[p].pc = "activate" =>
             store'[Of(p)] \in Complete(row[Of(p)].cloned) \/ Exempt(Of(p))
      <3>1. CASE row[Of(p)].cloned = "rows" /\ Of(p) \in source
        <4>1. proc'[p].pc = "activate" /\ store[Of(p)] \in WithRows \cup {"migrated"} =>
                 store'[Of(p)] \in WithRows
          <5>1. CASE store[Of(p)] \in WithRows
            <6>1. Goto(p, "fail")
              BY <1>7, <3>1, <5>1 DEF Copy, WithRows
            <6>2. proc'[p].pc = "fail"
              BY <1>a, <1>b, <6>1, GotoProc DEF Steps
            <6> QED
              BY <6>2
          <5>2. CASE store[Of(p)] = "migrated"
            BY <1>7, <1>a, <1>c, <3>1, <5>2 DEF Copy, WithRows, TypeOK
          <5> QED
            BY <5>1, <5>2
        <4> QED
          BY <2>2, <3>1, <4>1 DEF Complete, Exempt
      <3>2. CASE row[Of(p)].cloned = "schema"
        BY <1>e, <2>2, <2>3, <3>2 DEF Whole, WithRows, Complete
      <3>3. CASE Of(p) \notin source
        BY <3>3 DEF Exempt
      <3> QED
        BY <2>2, <3>1, <3>2, <3>3
    <2>5. Rows /\ Heeds(p)
      BY <1>d, <1>e, <1>j, <2>2, <2>3 DEF Rows, Heeds, Whole, WithRows, Exempt, ExemptNext
    <2>6. Stage(p)'
      BY <1>a, <2>1, <2>3, <2>4 DEF Stage, At, Goes, Of, Exempt, Clones
    <2> QED
      BY <1>g, <2>1, <2>3, <2>5, <2>6
  <1>8. CASE Activate(p)
    <2>1. Others /\ Goes /\ proc'[p].pc = "after"
      BY <1>8, <1>a, <1>b, SavesThenGoesProc DEF Activate, Others, Goes, Steps, Status
    <2>2. SaveStatus(Of(p), proc[p].seen, "active") /\ Installs(p)
      BY <1>8, <1>a DEF Activate, SavesThenGoes, Sound, Trying
    <2>3. /\ \A u \in Tenants \ {Of(p)} : row'[u] = row[u]
          /\ row'[Of(p)].deleted = row[Of(p)].deleted
          /\ row'[Of(p)].cloned = row[Of(p)].cloned
          /\ row'[Of(p)].status # "none"
      BY <1>a, <1>c, <1>d, <2>2 DEF SaveStatus, TypeOK
    <2>4. \/ row[Of(p)].cloned = "no"
          \/ store[Of(p)] \in Complete(row[Of(p)].cloned) \/ Exempt(Of(p))
      BY <1>8, <1>a, <2>2 DEF Activate, Installs, Stage, At
    <2>5. Rows /\ Heeds(p)
      BY <1>8, <1>e, <2>2, <2>3, <2>4 DEF Activate, Rows, Heeds, Whole, Exempt, ExemptNext
    <2> QED
      BY <1>8, <1>g, <1>h, <2>1, <2>3, <2>5 DEF Activate
  <1>9. CASE After(p)
    BY <1>9, <1>a, <1>f, <1>g, FinishProc DEF After, Others, Ends
  <1>10. CASE Fail(p)
    <2>1. SaveStatus(Of(p), proc[p].seen, "failed") /\ Installs(p)
      BY <1>10, <1>a DEF Fail, Sound, Trying
    <2>2. /\ \A u \in Tenants \ {Of(p)} : row'[u] = row[u]
          /\ row'[Of(p)].deleted = row[Of(p)].deleted
          /\ row'[Of(p)].cloned = row[Of(p)].cloned
          /\ row'[Of(p)].status \in {row[Of(p)].status, "failed"}
      BY <1>a, <1>c, <2>1 DEF SaveStatus, TypeOK
    <2>3. Rows /\ Heeds(p)
      BY <1>10, <1>d, <1>e, <2>1, <2>2 DEF Fail, Rows, Heeds, Whole, Exempt, ExemptNext
    <2>4. CASE proc[p].kind \in Clones
      <3>1. Others /\ Goes /\ proc'[p].pc = "cleanup"
        BY <1>10, <1>a, <1>b, <2>4, GotoProc DEF Fail, Others, Goes, Steps
      <3> QED
        BY <1>10, <1>g, <1>h, <2>2, <2>3, <3>1 DEF Fail
    <2>5. CASE proc[p].kind \notin Clones
      BY <1>10, <1>g, <1>i, <2>2, <2>3, <2>5 DEF Fail
    <2> QED
      BY <2>4, <2>5
  <1>11. CASE Cleanup(p)
    <2>1. Installs(p) /\ (Of(p) \in excused \/ row[Of(p)].status # "active")
      BY <1>11, <1>a DEF Cleanup, Sound
    <2>2. \A u \in Tenants \ {Of(p)} : store'[u] = store[u]
      BY <1>11, <1>a DEF Cleanup, Dropped, TypeOK
    <2>3. Rows /\ Heeds(p)
      BY <1>11, <1>a, <1>c, <1>d, <2>1, <2>2
         DEF Cleanup, Dropped, WithRows, TypeOK, Rows, Heeds, ExemptNext
    <2> QED
      BY <1>11, <1>g, <1>i, <2>3 DEF Cleanup
  <1>12. CASE SoftDelete(p)
    <2>1. Others /\ (Ends \/ (Goes /\ proc'[p].pc \in {"after", "drop"}))
      BY <1>12, <1>a, <1>b, GotoProc, FinishProc
         DEF SoftDelete, Others, Ends, Goes, Steps
    <2>2. /\ \A u \in Tenants \ {Of(p)} : row'[u] = row[u]
          /\ row'[Of(p)].deleted = "recent"
          /\ row'[Of(p)].status = row[Of(p)].status
          /\ row'[Of(p)].cloned = row[Of(p)].cloned
      BY <1>12, <1>a, <1>c DEF SoftDelete, TypeOK
    <2>3. Rows /\ Heeds(p)
      BY <1>12, <1>d, <1>e, <2>2 DEF SoftDelete, Rows, Heeds, Whole, ExemptNext
    <2> QED
      BY <1>12, <1>g, <1>h, <2>1, <2>2, <2>3 DEF SoftDelete
  <1>13. CASE Drop(p)
    <2>1. Others /\ (Ends \/ (Goes /\ proc'[p].pc = "softDelete"))
      BY <1>13, <1>a, <1>b, GotoProc, FinishProc DEF Drop, Others, Ends, Goes, Steps
    <2>2. /\ \A u \in Tenants \ {Of(p)} : store'[u] = store[u]
          /\ Of(p) \in excused \/ row[Of(p)].deleted # "no"
      BY <1>13, <1>a DEF Drop, Dropped, TypeOK, Sound
    <2>3. Rows /\ Heeds(p)
      BY <1>13, <1>a, <1>c, <1>d, <2>2
         DEF Drop, Dropped, WithRows, TypeOK, Rows, Heeds, ExemptNext
    <2> QED
      BY <1>13, <1>g, <1>h, <2>1, <2>3 DEF Drop
  <1>14. CASE StepFails(p)
    <2>1. Others /\ Goes /\ proc'[p].pc = "fail"
      BY <1>14, <1>a, <1>b, GotoProc DEF StepFails, Others, Goes, Steps
    <2> QED
      BY <1>14, <1>f, <1>g, <1>h, <2>1 DEF StepFails
  <1>15. CASE Fails(p)
    BY <1>15, <1>f, <1>g, <1>i DEF Fails
  <1> QED
    BY <1>1, <1>2, <1>3, <1>4, <1>5, <1>6, <1>7, <1>8, <1>9, <1>10, <1>11,
       <1>12, <1>13, <1>14, <1>15 DEF Step

\* A request that begins an operation on t, which neither installs nor clones it.
LEMMA BeginKeepsWholeness ==
  ASSUME Wholeness, NEW p \in Procs, UNCHANGED <<row, store, source>>,
         excused \subseteq excused',
         \A q \in Procs \ {p} : proc'[q] = proc[q], ~Installs(p)'
  PROVE  Wholeness'
  <1>1. ASSUME NEW t \in Tenants PROVE Whole(t)'
    BY DEF Wholeness, Whole, Exempt, Exists
  <1>2. ASSUME NEW q \in Procs PROVE Stage(q)'
    BY DEF Wholeness, Stage, Exempt, At, Of, Installs
  <1> QED
    BY <1>1, <1>2 DEF Wholeness

\* A change of the row of t alone, that no clone in progress relies on.
LEMMA RowChangeKeepsWholeness ==
  ASSUME Custody, Wholeness, NEW t \in Tenants, UNCHANGED <<store, source>>,
         excused \subseteq excused', UNCHANGED proc,
         \A u \in Tenants \ {t} : row'[u] = row[u],
         row'[t].cloned = row[t].cloned, row'[t].status # "none",
         \/ t \in excused'
         \/ row[t].deleted # "no" => row'[t].deleted # "no"
         \/ \A p \in Procs : Of(p) # t,
         \/ t \in excused'
         \/ row'[t].cloned # "no" => store[t] \in Complete(row'[t].cloned)
         \/ row'[t].deleted # "no"
         \/ row'[t].status # "active"
  PROVE  Wholeness'
  <1>1. ASSUME NEW u \in Tenants PROVE Whole(u)'
    BY DEF Wholeness, Whole, Exempt, Exists
  <1>2. ASSUME NEW q \in Procs PROVE Stage(q)'
    <2>1. CASE proc[q] = Idle
      BY <2>1 DEF Stage, At, Idle, Clones
    <2>2. CASE proc[q] # Idle
      <3>1. Stage(q) /\ Of(q) \in Tenants
        BY <2>2, BusyProc DEF Wholeness, Custody, TypeOK, Busy, Of
      <3>2. CASE Of(q) # t
        BY <3>1, <3>2 DEF Stage, At, Of, Exempt
      <3>3. CASE Of(q) = t
        BY <3>1, <3>3 DEF Stage, At, Of, Exempt
      <3> QED
        BY <3>2, <3>3
    <2> QED
      BY <2>1, <2>2
  <1> QED
    BY <1>1, <1>2 DEF Wholeness

LEMMA CreationKeepsWholeness ==
  ASSUME Custody, Wholeness, NEW p \in Procs, NEW t \in Tenants, ~Exists(t),
         UNCHANGED <<store, source, excused>>,
         \A u \in Tenants \ {t} : row'[u] = row[u],
         row'[t].status = "provisioning",
         \A q \in Procs \ {p} : proc'[q] = proc[q],
         proc'[p].t = t, proc'[p].pc \in {"queued", "provision"},
         proc'[p].kind \in Clones => row'[t].cloned # "no",
         proc'[p].kind = "install" => row'[t].cloned = "no"
  PROVE  Wholeness'
  <1>1. ASSUME NEW u \in Tenants PROVE Whole(u)'
    BY DEF Wholeness, Whole, Exempt, Exists
  <1>2. ASSUME NEW q \in Procs PROVE Stage(q)'
    <2>1. CASE q = p
      BY <2>1 DEF Stage, At, Of
    <2>2. CASE q # p /\ proc[q] = Idle
      BY <2>2 DEF Stage, At, Idle, Clones
    <2>3. CASE q # p /\ proc[q] # Idle
      <3>1. Stage(q) /\ Of(q) \in Tenants \ {t}
        BY <2>3, NobodyYet, BusyProc DEF Wholeness, Custody, TypeOK, Busy, Of
      <3> QED
        BY <2>3, <3>1 DEF Stage, At, Of, Exempt
    <2> QED
      BY <2>1, <2>2, <2>3
  <1> QED
    BY <1>1, <1>2 DEF Wholeness

LEMMA WholenessOfRequests ==
  ASSUME Custody, Wholeness, NEW t \in Tenants,
         Asks(t) \/ Expire(t) \/ \E p \in Procs : Purge(t, p)
  PROVE  Wholeness'
  <1> USE DEF bounds
  <1>a. TypeOK
    BY DEF Custody
  <1>1. ASSUME NEW p \in Procs, Create(t, p) PROVE Wholeness'
    <2>1. /\ \A u \in Tenants \ {t} : row'[u] = row[u]
          /\ row'[t].status = "provisioning" /\ row'[t].cloned = row[t].cloned
          /\ \A q \in Procs \ {p} : proc'[q] = proc[q]
          /\ proc'[p].t = t /\ proc'[p].kind = "install" /\ proc'[p].pc = "queued"
      BY <1>1, <1>a DEF Create, TypeOK
    <2>2. row[t].cloned = "no"
      BY <1>1 DEF Create, Wholeness, Whole
    <2> QED
      BY <1>1, <2>1, <2>2, CreationKeepsWholeness DEF Create, Clones
  <1>2. CASE CreateUnqueued(t)
    <2>1. /\ \A u \in Tenants \ {t} : row'[u] = row[u]
          /\ row'[t].status = "provisioning" /\ row'[t].cloned = row[t].cloned
          /\ row'[t].deleted = row[t].deleted
      BY <1>2, <1>a DEF CreateUnqueued, TypeOK
    <2> QED
      BY <1>2, <2>1, RowChangeKeepsWholeness DEF CreateUnqueued
  <1>3. ASSUME NEW p \in Procs, NEW kind \in Clones, Clone(t, p, kind) PROVE Wholeness'
    <2>1. /\ \A u \in Tenants \ {t} : row'[u] = row[u]
          /\ row'[t].status = "provisioning" /\ row'[t].cloned # "no"
          /\ \A q \in Procs \ {p} : proc'[q] = proc[q]
          /\ proc'[p].t = t /\ proc'[p].kind = kind /\ proc'[p].pc \in {"queued", "provision"}
      BY <1>3, <1>a DEF Clone, TypeOK
    <2> QED
      BY <1>3, <2>1, CreationKeepsWholeness DEF Clone, Clones
  <1>4. CASE SourceGone(t)
    BY <1>4 DEF SourceGone, Wholeness, Whole, Stage, Exempt, Exists, At, Of
  <1>5. ASSUME NEW p \in Procs, NEW kind \in {"destroy", "archive"}, Destroy(t, p, kind)
        PROVE  Wholeness'
    <2>1. (\A q \in Procs \ {p} : proc'[q] = proc[q]) /\ proc'[p].kind = kind
      BY <1>5, <1>a, BegunProc DEF Destroy, Kinds, Steps
    <2>2. ~Installs(p)'
      BY <2>1 DEF Installs, Clones
    <2> QED
      BY <1>5, <2>1, <2>2, BeginKeepsWholeness DEF Destroy
  <1>6. ASSUME NEW p \in Procs, Uninstall(t, p) PROVE Wholeness'
    <2>1. (\A q \in Procs \ {p} : proc'[q] = proc[q]) /\ proc'[p].kind = "uninstall"
      BY <1>6, <1>a, BegunProc DEF Uninstall, Kinds, Jobs, Steps
    <2>2. ~Installs(p)'
      BY <2>1 DEF Installs, Clones
    <2> QED
      BY <1>6, <2>1, <2>2, BeginKeepsWholeness DEF Uninstall
  <1>7. CASE Suspend(t)
    <2>1. /\ \A u \in Tenants \ {t} : row'[u] = row[u]
          /\ row'[t].status = "suspended" /\ row'[t].deleted = row[t].deleted
          /\ row'[t].cloned = row[t].cloned
      BY <1>7, <1>a DEF Suspend, TypeOK
    <2> QED
      BY <1>7, <2>1, RowChangeKeepsWholeness DEF Suspend
  <1>8. CASE ActivateByHand(t) \/ Restore(t)
    <2>1. /\ \A u \in Tenants \ {t} : row'[u] = row[u]
          /\ row'[t].cloned = row[t].cloned
          /\ UNCHANGED <<store, source, proc>>
          /\ Risk(t)
      BY <1>8, <1>a DEF ActivateByHand, Restore, TypeOK
    <2>2. row'[t].status # "none"
      BY <1>8, <1>a DEF ActivateByHand, Restore, TypeOK, Custody, TenantsExist, Exists
    <2>3. \/ t \in excused'
          \/ store[t] \in Complete(row[t].cloned) /\ \A p \in Procs : Of(p) # t
      BY <2>1 DEF Risk, Settled
    <2>4. excused \subseteq excused'
      BY <2>1 DEF Risk
    <2> QED
      BY <2>1, <2>2, <2>3, <2>4, RowChangeKeepsWholeness
  <1>9. CASE Expire(t)
    <2>1. /\ \A u \in Tenants \ {t} : row'[u] = row[u]
          /\ row'[t].status = row[t].status /\ row'[t].deleted = "expired"
          /\ row'[t].cloned = row[t].cloned
      BY <1>9, <1>a DEF Expire, TypeOK
    <2>2. row[t].status # "none"
      BY <1>9 DEF Expire, Custody, TenantsExist, Exists
    <2> QED
      BY <1>9, <2>1, <2>2, RowChangeKeepsWholeness DEF Expire
  <1>10. ASSUME NEW p \in Procs, Purge(t, p) PROVE Wholeness'
    <2>1. (\A q \in Procs \ {p} : proc'[q] = proc[q]) /\ proc'[p].kind = "purge"
      BY <1>10, <1>a, BegunProc DEF Purge, Kinds, Steps
    <2>2. ~Installs(p)'
      BY <2>1 DEF Installs, Clones
    <2> QED
      BY <1>10, <2>1, <2>2, BeginKeepsWholeness DEF Purge
  <1> QED
    BY <1>1, <1>2, <1>3, <1>4, <1>5, <1>6, <1>7, <1>8, <1>9, <1>10 DEF Asks

LEMMA WholenessStep == Custody /\ Wholeness /\ [Next]_vars => Wholeness'
  <1> SUFFICES ASSUME Custody, Wholeness, [Next]_vars PROVE Wholeness'
    OBVIOUS
  <1>1. CASE UNCHANGED vars
    BY <1>1 DEF vars, bounds, Wholeness, Whole, Stage, Exempt, Exists, At, Of
  <1>2. CASE Rest
    BY <1>1, <1>2 DEF Rest
  <1> QED
    BY <1>1, <1>2, WholenessOfRequests, WholenessOfSteps DEF Next

\* A clone in service has the rows of all the tables that it shares with its source,
\* never some of them, or the tables alone when only the schema was asked for: whatever
\* fails between provisioning, migrating and copying, only a clone that has come
\* through all three is put in service, and nobody undoes them under it.
THEOREM ServedClonesAreWhole == Spec => []CloneIsWhole
  <1>1. Init => Custody /\ Wholeness
    BY CustodyInit, WholenessInit
  <1>2. Custody /\ Wholeness /\ [Next]_vars => (Custody /\ Wholeness)'
    BY CustodyStep, WholenessStep
  <1>3. Custody /\ Wholeness => CloneIsWhole
    BY DEF Wholeness, Whole, Exempt, CloneIsWhole, Served
  <1> QED
    BY <1>1, <1>2, <1>3, PTL DEF Spec

=============================================================================
