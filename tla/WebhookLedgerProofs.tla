------------------------ MODULE WebhookLedgerProofs ------------------------
(***************************************************************************)
(* The type invariant of the ledger, that an acknowledged event whose row  *)
(* is pending is owned, and that one that is given up is announced, for    *)
(* every number of events, requests, jobs and attempts.                    *)
(***************************************************************************)
EXTENDS WebhookLedger, FiniteSetTheorems, TLAPS

-----------------------------------------------------------------------------
(* What the helpers that write a record return *)

\* A job slot in use holds a job.
LEMMA BusyJob ==
  ASSUME TypeOK, NEW j \in Jobs, job[j].pc # "free"
  PROVE  job[j] \in Job
  BY DEF TypeOK, FreeJob

LEMMA BusyRequest ==
  ASSUME TypeOK, NEW r \in Requests, req[r].pc # "idle"
  PROVE  req[r] \in Request
  BY DEF TypeOK, IdleRequest

LEMMA MovedJob ==
  ASSUME NEW x \in Job, NEW pc \in {"queued"} \cup Active, NEW seen \in RowStatus
  PROVE  [x EXCEPT !.pc = pc, !.seen = seen] \in Job
  BY DEF Job

\* Goto moves one job and keeps the row it has read only where it is used.
LEMMA GotoType ==
  ASSUME TypeOK, NEW j \in Jobs, job[j].pc # "free",
         NEW pc \in {"queued"} \cup Active, Goto(j, pc)
  PROVE  job' \in [Jobs -> Job \cup {FreeJob}]
  <1>1. job[j] \in Job
    BY BusyJob
  <1>2. (IF pc \in HoldsRow THEN job[j].seen ELSE "none") \in RowStatus
    BY <1>1 DEF Job, RowStatus
  <1>3. [job[j] EXCEPT !.pc = pc,
                       !.seen = IF pc \in HoldsRow THEN job[j].seen ELSE "none"] \in Job
    BY <1>1, <1>2, MovedJob
  <1> QED
    BY <1>3 DEF Goto, TypeOK

LEMMA ThrowType ==
  ASSUME TypeOK, NEW j \in Jobs, job[j].pc # "free", Throw(j)
  PROVE  job' \in [Jobs -> Job \cup {FreeJob}]
  <1>1. job[j] \in Job
    BY BusyJob
  <1>2. CASE job[j].tries + 1 < MaxAttempts
    <2>1. job[j].tries + 1 \in 0 .. MaxAttempts - 1
      BY <1>1, <1>2, LedgerAssumption DEF Job
    <2>2. [job[j] EXCEPT !.pc = "queued", !.tries = job[j].tries + 1,
                         !.seen = "none"] \in Job
      BY <1>1, <2>1 DEF Job, RowStatus
    <2> QED
      BY <1>2, <2>2 DEF Throw, TypeOK
  <1>3. CASE ~(job[j].tries + 1 < MaxAttempts)
    <2>1. [job[j] EXCEPT !.pc = "exhausted", !.seen = "none"] \in Job
      BY <1>1, MovedJob DEF Active, RowStatus
    <2> QED
      BY <1>3, <2>1 DEF Throw, TypeOK
  <1> QED
    BY <1>2, <1>3

LEMMA FinishType ==
  ASSUME TypeOK, NEW j \in Jobs, Finish(j)
  PROVE  job' \in [Jobs -> Job \cup {FreeJob}]
  BY DEF Finish, TypeOK

LEMMA EnqueueType ==
  ASSUME TypeOK, NEW e \in Events, NEW j \in Jobs, Enqueue(e, j)
  PROVE  /\ job' \in [Jobs -> Job \cup {FreeJob}]
         /\ stranded' \subseteq Events
  <1>1. [pc |-> "queued", ev |-> e, tries |-> 0, seen |-> "none"] \in Job
    BY LedgerAssumption DEF Job, RowStatus
  <1> QED
    BY <1>1 DEF Enqueue, TypeOK

LEMMA SaveType ==
  ASSUME TypeOK, NEW e \in Events, NEW seen, NEW s \in Status, SaveStatus(e, seen, s)
  PROVE  ledger' \in [Events -> Row]
  <1>1. [ledger[e] EXCEPT !.status = s] \in Row
    BY DEF TypeOK, Row, RowStatus
  <1> QED
    BY <1>1 DEF SaveStatus, SetStatus, TypeOK

LEMMA FaultType == TypeOK /\ Fault => faults' \in 0 .. MaxFaults
  BY LedgerAssumption DEF TypeOK, Fault

-----------------------------------------------------------------------------
(* Type correctness *)

LEMMA TypeInit == Init => TypeOK
  BY LedgerAssumption DEF Init, TypeOK, Row, IdleReplay, RowStatus

LEMMA TypeOfRequests ==
  ASSUME TypeOK, NEW r \in Requests
  PROVE  /\ \A e \in Events : Deliver(r, e) => TypeOK'
         /\ RequestStep(r) \/ DispatchRefused(r) \/ ResponseLost(r) => TypeOK'
  <1> USE DEF tables, history, bounds
  <1>1. ASSUME NEW e \in Events, Deliver(r, e) PROVE TypeOK'
    <2>1. deliveries' \in [Events -> 0 .. MaxDeliveries]
      <3>1. deliveries[e] + 1 \in 0 .. MaxDeliveries
        BY <1>1, LedgerAssumption DEF Deliver, TypeOK
      <3> QED
        BY <1>1, <3>1 DEF Deliver, TypeOK
    <2>2. ledger' \in [Events -> Row]
      <3>1. [status |-> "pending", touched |-> FALSE] \in Row
        BY DEF Row, RowStatus, Status
      <3> QED
        BY <1>1, <3>1 DEF Deliver, TypeOK
    <2>3. req' \in [Requests -> Request \cup {IdleRequest}]
      BY <1>1 DEF Deliver, TypeOK, Request
    <2> QED
      BY <1>1, <2>1, <2>2, <2>3 DEF Deliver, TypeOK
  <1>2. CASE Reread(r)
    <2>1. req[r] \in Request
      BY <1>2, BusyRequest DEF Reread
    <2>2. req' \in [Requests -> Request \cup {IdleRequest}]
      BY <1>2, <2>1 DEF Reread, TypeOK, Request
    <2> QED
      BY <1>2, <2>2 DEF Reread, TypeOK
  <1>3. ASSUME NEW j \in Jobs, Dispatch(r, j) PROVE TypeOK'
    <2>1. req[r] \in Request
      BY <1>3, BusyRequest DEF Dispatch
    <2>2. req' \in [Requests -> Request \cup {IdleRequest}]
      BY <1>3, <2>1 DEF Dispatch, TypeOK, Request
    <2>3. /\ job' \in [Jobs -> Job \cup {FreeJob}]
          /\ stranded' \subseteq Events
      BY <1>3, <2>1, EnqueueType DEF Dispatch, Request
    <2> QED
      BY <1>3, <2>2, <2>3 DEF Dispatch, TypeOK
  <1>4. CASE DispatchRefused(r)
    BY <1>4, FaultType DEF DispatchRefused, TypeOK
  <1>5. CASE Respond(r)
    <2>1. req[r].ev \in Events
      BY <1>5, BusyRequest DEF Respond, Request
    <2> QED
      BY <1>5, <2>1 DEF Respond, TypeOK
  <1>6. CASE ResponseLost(r)
    BY <1>6, FaultType DEF ResponseLost, TypeOK
  <1> QED
    BY <1>1, <1>2, <1>3, <1>4, <1>5, <1>6 DEF RequestStep

LEMMA TypeOfJobs ==
  ASSUME TypeOK, NEW j \in Jobs, JobStep(j) \/ JobFault(j)
  PROVE  TypeOK'
  <1> USE DEF tables, history, bounds
  <1> DEFINE JobsOK == job' \in [Jobs -> Job \cup {FreeJob}]
  <1>1. CASE Skip(j)
    BY <1>1, FinishType DEF Skip, TypeOK
  <1>2. CASE Start(j)
    <2>1. job[j] \in Job
      BY <1>2, BusyJob DEF Start, At
    <2>2. ledger[job[j].ev].status \in RowStatus
      BY <2>1 DEF TypeOK, Job, Row
    <2>3. [job[j] EXCEPT !.pc = "bump", !.seen = ledger[job[j].ev].status] \in Job
      BY <2>1, <2>2, MovedJob DEF Active, HoldsRow
    <2>4. JobsOK
      BY <1>2, <2>3 DEF Start, TypeOK
    <2> QED
      BY <1>2, <2>4 DEF Start, TypeOK
  <1>3. CASE Bump(j)
    <2>1. JobsOK
      BY <1>3, GotoType DEF Bump, At, Active, HoldsRow
    <2>2. ledger' \in [Events -> Row]
      BY <1>3 DEF Bump, TypeOK, Row
    <2> QED
      BY <1>3, <2>1, <2>2 DEF Bump, TypeOK
  <1>4. CASE HandlerSucceeds(j)
    <2>1. JobsOK
      BY <1>4, GotoType DEF HandlerSucceeds, At, Active, HoldsRow
    <2> QED
      BY <1>4, <2>1 DEF HandlerSucceeds, TypeOK
  <1>5. CASE HandlerFatal(j)
    <2>1. JobsOK
      BY <1>5, GotoType DEF HandlerFatal, At, Active, HoldsRow
    <2> QED
      BY <1>5, <2>1 DEF HandlerFatal, TypeOK
  <1>6. CASE HandlerRetryable(j)
    <2>1. JobsOK
      BY <1>6, ThrowType DEF HandlerRetryable, At
    <2> QED
      BY <1>6, <2>1 DEF HandlerRetryable, TypeOK
  <1>7. CASE Complete(j)
    <2>1. job[j].ev \in Events
      BY <1>7, BusyJob DEF Complete, At, Job
    <2>2. ledger' \in [Events -> Row]
      BY <1>7, <2>1, SaveType DEF Complete, Status
    <2>3. JobsOK
      BY <1>7, FinishType DEF Complete
    <2> QED
      BY <1>7, <2>2, <2>3 DEF Complete, TypeOK
  <1>8. CASE Mark(j)
    <2>1. job[j].ev \in Events
      BY <1>8, BusyJob DEF Mark, At, Job
    <2>2. ledger' \in [Events -> Row]
      BY <1>8, <2>1, SaveType DEF Mark, Status
    <2>3. JobsOK
      BY <1>8, ThrowType DEF Mark, At
    <2> QED
      BY <1>8, <2>2, <2>3 DEF Mark, TypeOK
  <1>9. CASE Fatal(j)
    <2>1. job[j].ev \in Events
      BY <1>9, BusyJob DEF Fatal, At, Job
    <2>2. ledger' \in [Events -> Row]
      BY <1>9, <2>1, SaveType DEF Fatal, Status
    <2>3. JobsOK
      BY <1>9, GotoType DEF Fatal, At, Active
    <2> QED
      BY <1>9, <2>2, <2>3 DEF Fatal, TypeOK
  <1>10. CASE Exhausted(j)
    <2>1. job[j] \in Job
      BY <1>10, BusyJob DEF Exhausted, At
    <2>2. ledger[job[j].ev].status \in RowStatus
      BY <2>1 DEF TypeOK, Job, Row
    <2>3. [job[j] EXCEPT !.pc = "deadLetter"] \in Job
      BY <2>1 DEF Job, Active
    <2>4. [job[j] EXCEPT !.pc = "giveUp", !.seen = ledger[job[j].ev].status] \in Job
      BY <2>1, <2>2, MovedJob DEF Active, HoldsRow
    <2>5. JobsOK
      BY <1>10, <2>3, <2>4 DEF Exhausted, TypeOK
    <2> QED
      BY <1>10, <2>5 DEF Exhausted, TypeOK
  <1>11. CASE GiveUp(j)
    <2>1. job[j].ev \in Events
      BY <1>11, BusyJob DEF GiveUp, At, Job
    <2>2. ledger' \in [Events -> Row]
      BY <1>11, <2>1, SaveType DEF GiveUp, Status
    <2>3. JobsOK
      BY <1>11, GotoType DEF GiveUp, At, Active
    <2> QED
      BY <1>11, <2>2, <2>3 DEF GiveUp, TypeOK
  <1>12. CASE DeadLetter(j)
    <2>1. job[j].ev \in Events
      BY <1>12, BusyJob DEF DeadLetter, At, Job
    <2>2. JobsOK
      BY <1>12, FinishType DEF DeadLetter
    <2> QED
      BY <1>12, <2>1, <2>2 DEF DeadLetter, TypeOK
  <1>13. CASE CompleteFails(j)
    <2>1. JobsOK
      BY <1>13, GotoType DEF CompleteFails, At, Active, HoldsRow
    <2> QED
      BY <1>13, <2>1, FaultType DEF CompleteFails, TypeOK
  <1>14. CASE HookFails(j)
    <2>1. job[j].ev \in Events
      BY <1>14, BusyJob DEF HookFails, Job
    <2>2. JobsOK
      BY <1>14, FinishType DEF HookFails
    <2> QED
      BY <1>14, <2>1, <2>2, FaultType DEF HookFails, TypeOK
  <1>15. CASE DatabaseFails(j)
    <2>1. JobsOK
      BY <1>15, ThrowType DEF DatabaseFails, At
    <2> QED
      BY <1>15, <2>1, FaultType DEF DatabaseFails, TypeOK
  <1>16. CASE Crash(j)
    <2>1. job[j].pc # "free"
      BY <1>16 DEF Crash, Active, HoldsRow
    <2>2. JobsOK
      BY <1>16, <2>1, GotoType DEF Crash
    <2> QED
      BY <1>16, <2>2, FaultType DEF Crash, TypeOK
  <1> QED
    BY <1>1, <1>2, <1>3, <1>4, <1>5, <1>6, <1>7, <1>8, <1>9, <1>10, <1>11,
       <1>12, <1>13, <1>14, <1>15, <1>16 DEF JobStep, JobFault

LEMMA TypeOfReplays ==
  ASSUME TypeOK, NEW e \in Events,
         ReplayFind(e) \/ ReplayStep(e) \/ ReplayDispatchFails(e) \/ Expire(e)
  PROVE  TypeOK'
  <1> USE DEF tables, history, bounds
  <1> DEFINE ReplaysOK ==
        replay' \in [Events -> [pc : {"idle", "found", "saved"}, seen : RowStatus]]
  <1>1. CASE ReplayFind(e)
    <2>1. ReplaysOK
      BY <1>1 DEF ReplayFind, TypeOK, Row
    <2>2. replays' \in 0 .. MaxReplays
      BY <1>1, LedgerAssumption DEF ReplayFind, TypeOK
    <2> QED
      BY <1>1, <2>1, <2>2 DEF ReplayFind, TypeOK
  <1>2. CASE ReplaySave(e)
    <2>1. ReplaysOK
      BY <1>2 DEF ReplaySave, TypeOK, RowStatus
    <2>2. ledger' \in [Events -> Row]
      BY <1>2, SaveType DEF ReplaySave, Status
    <2> QED
      BY <1>2, <2>1, <2>2 DEF ReplaySave, TypeOK
  <1>3. ASSUME NEW j \in Jobs, ReplayDispatch(e, j) PROVE TypeOK'
    <2>1. ReplaysOK
      BY <1>3 DEF ReplayDispatch, TypeOK, IdleReplay, RowStatus
    <2>2. /\ job' \in [Jobs -> Job \cup {FreeJob}]
          /\ stranded' \subseteq Events
      BY <1>3, EnqueueType DEF ReplayDispatch
    <2> QED
      BY <1>3, <2>1, <2>2 DEF ReplayDispatch, TypeOK
  <1>4. CASE ReplayDispatchFails(e)
    <2>1. ReplaysOK
      BY <1>4 DEF ReplayDispatchFails, TypeOK, IdleReplay, RowStatus
    <2> QED
      BY <1>4, <2>1, FaultType DEF ReplayDispatchFails, TypeOK
  <1>5. CASE Expire(e)
    BY <1>5 DEF Expire, TypeOK
  <1> QED
    BY <1>1, <1>2, <1>3, <1>4, <1>5 DEF ReplayStep

LEMMA TypeStep == TypeOK /\ [Next]_vars => TypeOK'
  <1> SUFFICES ASSUME TypeOK, [Next]_vars PROVE TypeOK'
    OBVIOUS
  <1> USE DEF tables, history, bounds
  <1>1. CASE CleanupSelect
    BY <1>1 DEF CleanupSelect, TypeOK
  <1>2. CASE CleanupDelete
    <2>1. ledger' \in [Events -> Row]
      BY <1>2 DEF CleanupDelete, TypeOK, Row, RowStatus
    <2> QED
      BY <1>2, <2>1 DEF CleanupDelete, TypeOK
  <1>3. CASE UNCHANGED vars
    BY <1>3 DEF vars, TypeOK
  <1>4. CASE Rest
    BY <1>3, <1>4 DEF Rest
  <1> QED
    BY <1>1, <1>2, <1>3, <1>4, TypeOfRequests, TypeOfJobs, TypeOfReplays DEF Next

\* Type correctness: no sequence of deliveries, replays and faults puts a value
\* outside its range into a row, a request or a job.
THEOREM LedgerTypes == Spec => []TypeOK
  <1>1. Init => TypeOK
    BY TypeInit
  <1>2. TypeOK /\ [Next]_vars => TypeOK'
    BY TypeStep
  <1> QED
    BY <1>1, <1>2, PTL DEF Spec

-----------------------------------------------------------------------------
(* An acknowledged pending row is owned *)

LEMMA HandoverInit == Init => Handover
  <1> SUFFICES ASSUME Init PROVE Handover
    OBVIOUS
  <1>1. TypeOK
    BY TypeInit
  <1>2. \A e \in Events : ~HandedOver(e)
    BY LedgerAssumption DEF Init, HandedOver, IdleRequest, FreeJob
  <1>3. PendingIsOwned
    BY <1>2 DEF PendingIsOwned
  <1>4. NothingBeforeTheRow
    BY <1>2 DEF NothingBeforeTheRow, Init, IdleReplay
  <1>5. RequestsHaveRows
    BY LedgerAssumption DEF RequestsHaveRows, Init, IdleRequest
  <1> QED
    BY <1>1, <1>3, <1>4, <1>5 DEF Handover, DoomedAreExpired, Init

\* A free slot and an idle request carry no event.
LEMMA IdleIsEmpty ==
  ASSUME TypeOK
  PROVE  /\ \A r \in Requests : req[r].pc = "idle" => req[r].ev \notin Events
         /\ \A j \in Jobs : job[j].pc = "free" => job[j].ev \notin Events
  <1>1. \A j \in Jobs : job[j].pc = "free" => job[j] = FreeJob
    BY DEF TypeOK, Job, Active, HoldsRow
  <1>2. \A r \in Requests : req[r].pc = "idle" => req[r] = IdleRequest
    BY DEF TypeOK, Request
  <1> QED
    BY <1>1, <1>2, LedgerAssumption DEF FreeJob, IdleRequest

\* What one step of a job does to the slots.
LEMMA GotoJob ==
  ASSUME TypeOK, NEW j \in Jobs, job[j].pc # "free",
         NEW pc \in {"queued"} \cup Active, Goto(j, pc)
  PROVE  /\ \A k \in Jobs \ {j} : job'[k] = job[k]
         /\ job'[j].ev = job[j].ev
         /\ job'[j].pc = pc
         /\ pc \in HoldsRow => job'[j].seen = job[j].seen
  <1>1. job[j] \in Job
    BY BusyJob
  <1> QED
    BY <1>1 DEF Goto, TypeOK, Job

LEMMA ThrowJob ==
  ASSUME TypeOK, NEW j \in Jobs, job[j].pc # "free", Throw(j)
  PROVE  /\ \A k \in Jobs \ {j} : job'[k] = job[k]
         /\ job'[j].ev = job[j].ev
         /\ job'[j].pc \in {"queued", "exhausted"}
  <1>1. job[j] \in Job
    BY BusyJob
  <1> QED
    BY <1>1 DEF Throw, TypeOK, Job

LEMMA FinishJob ==
  ASSUME TypeOK, NEW j \in Jobs, Finish(j)
  PROVE  /\ \A k \in Jobs \ {j} : job'[k] = job[k]
         /\ job'[j].ev = NoEvent
  BY DEF Finish, TypeOK, FreeJob

LEMMA EnqueueJob ==
  ASSUME TypeOK, NEW e \in Events, NEW j \in Jobs, Enqueue(e, j)
  PROVE  /\ \A k \in Jobs \ {j} : job'[k] = job[k]
         /\ job'[j].ev = e
         /\ job'[j].pc = "queued"
         /\ job[j].ev \notin Events
         /\ stranded' = stranded \ {e}
  BY IdleIsEmpty DEF Enqueue, TypeOK

\* What a save does to the rows: a row is never made or lost by it, only the row
\* of e can change, and it ends with status s unless that is what was read.
LEMMA SaveRow ==
  ASSUME TypeOK, NEW e \in Events, NEW seen, NEW s \in Status, SaveStatus(e, seen, s)
  PROVE  /\ \A f \in Events : ledger'[f].touched = ledger[f].touched
         /\ \A f \in Events : (ledger'[f].status = "none") <=> (ledger[f].status = "none")
         /\ \A f \in Events \ {e} : ledger'[f] = ledger[f]
         /\ seen # s /\ ledger[e].status # "none" => ledger'[e].status = s
         /\ seen = s => ledger' = ledger
  <1>1. CASE seen = s \/ ledger[e].status = "none"
    BY <1>1 DEF SaveStatus, SetStatus
  <1>2. CASE seen # s /\ ledger[e].status # "none"
    <2>1. ledger' = [ledger EXCEPT ![e].status = s]
      BY <1>2 DEF SaveStatus, SetStatus
    <2>2. ledger[e] \in Row
      BY DEF TypeOK
    <2>3. /\ ledger'[e].touched = ledger[e].touched
          /\ ledger'[e].status = s
          /\ \A f \in Events \ {e} : ledger'[f] = ledger[f]
      BY <2>1, <2>2 DEF TypeOK, Row
    <2> QED
      BY <1>2, <2>3 DEF Status
  <1> QED
    BY <1>1, <1>2

\* A step of job j that keeps it the owner it was, or ends it when its row is no
\* longer pending, and leaves everything else of the handover alone.
LEMMA JobKeepsHandover ==
  ASSUME Handover, TypeOK', NEW j \in Jobs, NEW e \in Events, job[j].ev = e,
         \A k \in Jobs \ {j} : job'[k] = job[k],
         job'[j].ev \in {e, NoEvent},
         \/ Owner(j, e)'
         \/ ledger'[e].status # "pending"
         \/ e \in stranded'
         \/ ~Owner(j, e),
         \A f \in Events : (ledger'[f].status = "none") <=> (ledger[f].status = "none"),
         \A f \in Events \ {e} : ledger'[f] = ledger[f],
         \/ ledger'[e].status # "pending"
         \/ ledger'[e].status = ledger[e].status,
         ledger[e].status = "none" =>
            ledger'[e].touched = ledger[e].touched,
         UNCHANGED <<req, replay, doomed, expired, acked>>,
         stranded \subseteq stranded'
  PROVE  Handover'
  <1>1. ASSUME NEW f \in Events, ledger'[f].status = "pending", HandedOver(f)'
        PROVE  Owned(f)' \/ f \in stranded'
    <2>1. HandedOver(f)
      BY <1>1, LedgerAssumption DEF HandedOver
    <2>2. Owned(f) \/ f \in stranded
      BY <1>1, <2>1 DEF Handover, PendingIsOwned
    <2>3. CASE f # e
      BY <2>2, <2>3 DEF Owned, Owner
    <2>4. CASE f = e
      <3>1. CASE Owner(j, e)'
        BY <3>1, <2>4, <1>1, LedgerAssumption DEF Owned, Owner
      <3>2. CASE ~Owner(j, e)
        <4>1. CASE replay[f].pc = "saved"
          BY <4>1 DEF Owned
        <4>2. ASSUME NEW k \in Jobs, Owner(k, f) PROVE Owned(f)'
          <5>1. k # j
            BY <3>2, <4>2, <2>4
          <5> QED
            BY <4>2, <5>1 DEF Owned, Owner
        <4> QED
          BY <4>1, <4>2, <2>2 DEF Owned
      <3> QED
        BY <3>1, <3>2, <2>4, <1>1
    <2> QED
      BY <2>3, <2>4
  <1>2. PendingIsOwned'
    BY <1>1 DEF PendingIsOwned
  <1>3. NothingBeforeTheRow'
    <2> SUFFICES ASSUME NEW f \in Events, ledger'[f].status = "none", f \notin expired'
                 PROVE  ~HandedOver(f)' /\ replay'[f].pc = "idle"
      BY DEF NothingBeforeTheRow
    <2>1. ~HandedOver(f) /\ replay[f].pc = "idle"
      BY DEF Handover, NothingBeforeTheRow
    <2>2. f # e
      BY <2>1 DEF HandedOver
    <2> QED
      BY <2>1, <2>2, LedgerAssumption DEF HandedOver
  <1>4. RequestsHaveRows' /\ DoomedAreExpired'
    BY DEF Handover, RequestsHaveRows, DoomedAreExpired
  <1> QED
    BY <1>2, <1>3, <1>4 DEF Handover

\* Every step of a job, and every fault of one, keeps the handover.
LEMMA HandoverOfJobs ==
  ASSUME Handover, TypeOK', NEW j \in Jobs, JobStep(j) \/ JobFault(j)
  PROVE  Handover'
  <1> USE DEF tables, history, bounds
  <1>a. TypeOK
    BY DEF Handover
  <1>b. job[j].pc # "free"
    BY DEF JobStep, JobFault, Skip, Start, Bump, HandlerSucceeds, HandlerFatal,
       HandlerRetryable, Complete, Mark, Fatal, Exhausted, GiveUp, DeadLetter,
       CompleteFails, HookFails, DatabaseFails, Crash, At, Active, HoldsRow
  <1>c. job[j] \in Job
    BY <1>a, <1>b, BusyJob
  <1>e. PICK e \in Events : job[j].ev = e
    BY <1>c DEF Job
  <1> USE <1>a, <1>b, <1>c, <1>e
  <1>1. CASE Skip(j)
    <2>1. ledger[e].status # "pending"
      BY <1>1 DEF Skip, Skips
    <2>2. /\ \A k \in Jobs \ {j} : job'[k] = job[k]
          /\ job'[j].ev = NoEvent
      BY <1>1, FinishJob DEF Skip
    <2> QED
      BY <1>1, <2>1, <2>2, JobKeepsHandover DEF Skip
  <1>2. CASE Start(j)
    <2>1. /\ \A k \in Jobs \ {j} : job'[k] = job[k]
          /\ job'[j].ev = e
          /\ job'[j].pc = "bump"
          /\ job'[j].seen = ledger[e].status
      BY <1>2 DEF Start, TypeOK, Job
    <2>2. Owner(j, e)' \/ ledger[e].status # "pending"
      BY <2>1 DEF Owner, HoldsRow
    <2> QED
      BY <1>2, <2>1, <2>2, JobKeepsHandover DEF Start
  <1>3. CASE Bump(j)
    <2>1. /\ \A k \in Jobs \ {j} : job'[k] = job[k]
          /\ job'[j].ev = e
          /\ Owner(j, e) => Owner(j, e)'
      BY <1>3, GotoJob DEF Bump, At, Active, HoldsRow, Owner
    <2>2. /\ \A f \in Events : ledger'[f].status = ledger[f].status
          /\ \A f \in Events \ {e} : ledger'[f] = ledger[f]
          /\ ledger[e].status = "none" => ledger' = ledger
      BY <1>3 DEF Bump, TypeOK, Row
    <2> QED
      BY <1>3, <2>1, <2>2, JobKeepsHandover DEF Bump
  <1>4. CASE HandlerSucceeds(j)
    <2>1. /\ \A k \in Jobs \ {j} : job'[k] = job[k]
          /\ job'[j].ev = e
          /\ Owner(j, e) => Owner(j, e)'
      BY <1>4, GotoJob DEF HandlerSucceeds, At, Active, HoldsRow, Owner
    <2> QED
      BY <1>4, <2>1, JobKeepsHandover DEF HandlerSucceeds
  <1>5. CASE HandlerFatal(j)
    <2>1. /\ \A k \in Jobs \ {j} : job'[k] = job[k]
          /\ job'[j].ev = e
          /\ Owner(j, e) => Owner(j, e)'
      BY <1>5, GotoJob DEF HandlerFatal, At, Active, HoldsRow, Owner
    <2> QED
      BY <1>5, <2>1, JobKeepsHandover DEF HandlerFatal
  <1>6. CASE HandlerRetryable(j)
    <2>1. /\ \A k \in Jobs \ {j} : job'[k] = job[k]
          /\ job'[j].ev = e
          /\ Owner(j, e) => Owner(j, e)'
      BY <1>6, ThrowJob DEF HandlerRetryable, At, Active, HoldsRow, Owner
    <2> QED
      BY <1>6, <2>1, JobKeepsHandover DEF HandlerRetryable
  <1>7. CASE Complete(j)
    <2>1. SaveStatus(e, job[j].seen, "completed")
      BY <1>7 DEF Complete
    <2>2. /\ \A f \in Events : ledger'[f].touched = ledger[f].touched
          /\ \A f \in Events : (ledger'[f].status = "none") <=> (ledger[f].status = "none")
          /\ \A f \in Events \ {e} : ledger'[f] = ledger[f]
          /\ job[j].seen # "completed" /\ ledger[e].status # "none"
                => ledger'[e].status = "completed"
          /\ job[j].seen = "completed" => ledger' = ledger
      BY <2>1, SaveRow DEF Status
    <2>3. \/ ledger'[e].status # "pending"
          \/ ~Owner(j, e) /\ ledger' = ledger
      BY <1>7, <2>2 DEF Owner, Complete, At, HoldsRow
    <2>4. /\ \A k \in Jobs \ {j} : job'[k] = job[k]
          /\ job'[j].ev \in {e, NoEvent}
      BY <1>7, FinishJob DEF Complete
    <2> QED
      BY <1>7, <2>2, <2>3, <2>4, JobKeepsHandover DEF Complete
  <1>8. CASE Mark(j)
    <2>1. SaveStatus(e, job[j].seen, "completed")
      BY <1>8 DEF Mark
    <2>2. /\ \A f \in Events : ledger'[f].touched = ledger[f].touched
          /\ \A f \in Events : (ledger'[f].status = "none") <=> (ledger[f].status = "none")
          /\ \A f \in Events \ {e} : ledger'[f] = ledger[f]
          /\ job[j].seen # "completed" /\ ledger[e].status # "none"
                => ledger'[e].status = "completed"
          /\ job[j].seen = "completed" => ledger' = ledger
      BY <2>1, SaveRow DEF Status
    <2>3. \/ ledger'[e].status # "pending"
          \/ ~Owner(j, e) /\ ledger' = ledger
      BY <1>8, <2>2 DEF Owner, Mark, At, HoldsRow
    <2>4. /\ \A k \in Jobs \ {j} : job'[k] = job[k]
          /\ job'[j].ev \in {e, NoEvent}
      BY <1>8, ThrowJob DEF Mark
    <2> QED
      BY <1>8, <2>2, <2>3, <2>4, JobKeepsHandover DEF Mark
  <1>9. CASE Fatal(j)
    <2>1. SaveStatus(e, job[j].seen, "failed")
      BY <1>9 DEF Fatal
    <2>2. /\ \A f \in Events : ledger'[f].touched = ledger[f].touched
          /\ \A f \in Events : (ledger'[f].status = "none") <=> (ledger[f].status = "none")
          /\ \A f \in Events \ {e} : ledger'[f] = ledger[f]
          /\ job[j].seen # "failed" /\ ledger[e].status # "none"
                => ledger'[e].status = "failed"
          /\ job[j].seen = "failed" => ledger' = ledger
      BY <2>1, SaveRow DEF Status
    <2>3. \/ ledger'[e].status # "pending"
          \/ ~Owner(j, e) /\ ledger' = ledger
      BY <1>9, <2>2 DEF Owner, Fatal, At, HoldsRow
    <2>4. /\ \A k \in Jobs \ {j} : job'[k] = job[k]
          /\ job'[j].ev \in {e, NoEvent}
      BY <1>9, GotoJob DEF Fatal, Active
    <2> QED
      BY <1>9, <2>2, <2>3, <2>4, JobKeepsHandover DEF Fatal
  <1>10. CASE Exhausted(j)
    <2>1. /\ \A k \in Jobs \ {j} : job'[k] = job[k]
          /\ job'[j].ev = e
          /\ ledger[e].status = "pending" =>
                job'[j].pc = "giveUp" /\ job'[j].seen = "pending"
      BY <1>10 DEF Exhausted, TypeOK, Job, Skips
    <2>2. Owner(j, e)' \/ ledger[e].status # "pending"
      BY <2>1 DEF Owner, HoldsRow
    <2> QED
      BY <1>10, <2>1, <2>2, JobKeepsHandover DEF Exhausted
  <1>11. CASE GiveUp(j)
    <2>1. SaveStatus(e, job[j].seen, "failed")
      BY <1>11 DEF GiveUp
    <2>2. /\ \A f \in Events : ledger'[f].touched = ledger[f].touched
          /\ \A f \in Events : (ledger'[f].status = "none") <=> (ledger[f].status = "none")
          /\ \A f \in Events \ {e} : ledger'[f] = ledger[f]
          /\ job[j].seen # "failed" /\ ledger[e].status # "none"
                => ledger'[e].status = "failed"
          /\ job[j].seen = "failed" => ledger' = ledger
      BY <2>1, SaveRow DEF Status
    <2>3. \/ ledger'[e].status # "pending"
          \/ ~Owner(j, e) /\ ledger' = ledger
      BY <1>11, <2>2 DEF Owner, GiveUp, At, HoldsRow
    <2>4. /\ \A k \in Jobs \ {j} : job'[k] = job[k]
          /\ job'[j].ev \in {e, NoEvent}
      BY <1>11, GotoJob DEF GiveUp, Active
    <2> QED
      BY <1>11, <2>2, <2>3, <2>4, JobKeepsHandover DEF GiveUp
  <1>12. CASE DeadLetter(j)
    <2>1. ~Owner(j, e)
      BY <1>12 DEF DeadLetter, Owner, At, HoldsRow
    <2>2. /\ \A k \in Jobs \ {j} : job'[k] = job[k]
          /\ job'[j].ev = NoEvent
      BY <1>12, FinishJob DEF DeadLetter
    <2> QED
      BY <1>12, <2>1, <2>2, JobKeepsHandover DEF DeadLetter
  <1>13. CASE CompleteFails(j)
    <2>1. /\ \A k \in Jobs \ {j} : job'[k] = job[k]
          /\ job'[j].ev = e
          /\ Owner(j, e) => Owner(j, e)'
      BY <1>13, GotoJob DEF CompleteFails, At, Active, HoldsRow, Owner
    <2> QED
      BY <1>13, <2>1, JobKeepsHandover DEF CompleteFails
  <1>14. CASE HookFails(j)
    <2>1. /\ \A k \in Jobs \ {j} : job'[k] = job[k]
          /\ job'[j].ev = NoEvent
      BY <1>14, FinishJob DEF HookFails
    <2> QED
      BY <1>14, <2>1, JobKeepsHandover DEF HookFails
  <1>15. CASE DatabaseFails(j)
    <2>1. /\ \A k \in Jobs \ {j} : job'[k] = job[k]
          /\ job'[j].ev = e
          /\ Owner(j, e) => Owner(j, e)'
      BY <1>15, ThrowJob DEF DatabaseFails, At, Active, HoldsRow, Owner
    <2> QED
      BY <1>15, <2>1, JobKeepsHandover DEF DatabaseFails
  <1>16. CASE Crash(j)
    <2>1. /\ \A k \in Jobs \ {j} : job'[k] = job[k]
          /\ job'[j].ev = e
          /\ Owner(j, e) => Owner(j, e)'
      BY <1>16, GotoJob DEF Crash, At, Active, HoldsRow, Owner
    <2> QED
      BY <1>16, <2>1, JobKeepsHandover DEF Crash
  <1> QED
    BY <1>1, <1>2, <1>3, <1>4, <1>5, <1>6, <1>7, <1>8, <1>9, <1>10, <1>11,
       <1>12, <1>13, <1>14, <1>15, <1>16 DEF JobStep, JobFault

\* A new job for f owns it, and takes nothing from the other events.
LEMMA EnqueueOwns ==
  ASSUME TypeOK, NEW e \in Events, NEW j \in Jobs, Enqueue(e, j)
  PROVE  /\ Owned(e)'
         /\ \A f \in Events, k \in Jobs : f # e /\ Owner(k, f) => Owner(k, f)'
  <1>1. Owner(j, e)'
    BY EnqueueJob DEF Owner
  <1>2. Owned(e)'
    BY <1>1 DEF Owned
  <1>3. ASSUME NEW f \in Events, f # e, NEW k \in Jobs, Owner(k, f)
        PROVE  Owner(k, f)'
    <2>1. k # j
      BY <1>3, EnqueueJob DEF Owner
    <2> QED
      BY <1>3, <2>1, EnqueueJob DEF Owner
  <1> QED
    BY <1>2, <1>3

LEMMA HandoverOfRequests ==
  ASSUME Handover, TypeOK', NEW r \in Requests
  PROVE  /\ \A e \in Events : Deliver(r, e) => Handover'
         /\ RequestStep(r) \/ DispatchRefused(r) \/ ResponseLost(r) => Handover'
  <1> USE DEF tables, history, bounds
  <1>a. TypeOK
    BY DEF Handover
  <1>1. ASSUME NEW e \in Events, Deliver(r, e) PROVE Handover'
    <2>1. /\ req'[r].ev = e
          /\ req'[r].pc # "respond"
          /\ \A q \in Requests \ {r} : req'[q] = req[q]
      BY <1>1, <1>a DEF Deliver, TypeOK
    <2>2. \A f \in Events \ {e} : ledger'[f] = ledger[f]
      BY <1>1, <1>a DEF Deliver, TypeOK
    <2>3. \/ ledger' = ledger /\ ledger[e].status # "none"
          \/ ledger[e].status = "none" /\ ledger'[e] = [status |-> "pending", touched |-> FALSE]
      BY <1>1, <1>a DEF Deliver, TypeOK
    <2>4. \A f \in Events : HandedOver(f)' => HandedOver(f)
      BY <1>1, <2>1, <2>2, <2>3 DEF Deliver, HandedOver
    <2>5. ledger[e].status = "none" => ~HandedOver(e)
      BY <1>1 DEF Deliver, Handover, NothingBeforeTheRow
    <2>6. PendingIsOwned'
      BY <1>1, <2>2, <2>3, <2>4, <2>5
         DEF Deliver, Handover, PendingIsOwned, Owned, Owner
    <2>7. NothingBeforeTheRow'
      BY <1>1, <2>2, <2>3, <2>4 DEF Deliver, Handover, NothingBeforeTheRow
    <2>8. RequestsHaveRows'
      BY <1>1, <2>1, <2>2, <2>3 DEF Deliver, Handover, RequestsHaveRows
    <2> QED
      BY <1>1, <2>6, <2>7, <2>8 DEF Deliver, Handover, DoomedAreExpired
  <1>2. CASE Reread(r)
    <2>1. req[r].ev \in Events
      BY <1>2, <1>a, BusyRequest DEF Reread, Request
    <2>2. /\ req'[r].ev = req[r].ev
          /\ req'[r].pc = "respond" =>
                ledger[req[r].ev].status # "pending" \/ HandedOver(req[r].ev)
          /\ \A q \in Requests \ {r} : req'[q] = req[q]
      BY <1>2, <1>a, BusyRequest, <2>1
         DEF Reread, TypeOK, Request, NeverDispatched, HandedOver
    <2>3. PendingIsOwned'
      BY <1>2, <2>2 DEF Reread, Handover, PendingIsOwned, HandedOver, Owned, Owner
    <2>4. NothingBeforeTheRow'
      BY <1>2, <2>1, <2>2
         DEF Reread, Handover, NothingBeforeTheRow, HandedOver, RequestsHaveRows
    <2>5. RequestsHaveRows'
      BY <1>2, <2>2 DEF Reread, Handover, RequestsHaveRows
    <2> QED
      BY <1>2, <2>3, <2>4, <2>5 DEF Reread, Handover, DoomedAreExpired
  <1>3. ASSUME NEW j \in Jobs, Dispatch(r, j) PROVE Handover'
    <2>1. PICK e \in Events : req[r].ev = e
      BY <1>3, <1>a, BusyRequest DEF Dispatch, Request
    <2>2. Enqueue(e, j)
      BY <1>3, <2>1 DEF Dispatch
    <2>3. /\ req'[r].ev = e
          /\ \A q \in Requests \ {r} : req'[q] = req[q]
      BY <1>3, <1>a, BusyRequest, <2>1 DEF Dispatch, TypeOK, Request
    <2>4. \A f \in Events \ {e} : HandedOver(f)' => HandedOver(f)
      BY <1>3, <1>a, <2>1, <2>2, <2>3, EnqueueJob DEF Dispatch, HandedOver
    <2>5. PendingIsOwned'
      <3> SUFFICES ASSUME NEW f \in Events, ledger'[f].status = "pending", HandedOver(f)'
                   PROVE  Owned(f)' \/ f \in stranded'
        BY DEF PendingIsOwned
      <3>1. CASE f = e
        BY <1>3, <1>a, <2>2, <3>1, EnqueueOwns DEF Dispatch
      <3>2. CASE f # e
        <4>1. Owned(f) \/ f \in stranded
          BY <1>3, <2>4, <3>2 DEF Dispatch, Handover, PendingIsOwned
        <4>2. \A k \in Jobs : Owner(k, f) => Owner(k, f)'
          BY <1>a, <2>2, <3>2, EnqueueOwns
        <4> QED
          BY <1>3, <1>a, <2>2, <3>2, <4>1, <4>2, EnqueueJob DEF Dispatch, Owned
      <3> QED
        BY <3>1, <3>2
    <2>6. NothingBeforeTheRow'
      BY <1>3, <2>1, <2>4 DEF Dispatch, Handover, NothingBeforeTheRow, RequestsHaveRows
    <2>7. RequestsHaveRows'
      BY <1>3, <2>1, <2>3 DEF Dispatch, Handover, RequestsHaveRows
    <2> QED
      BY <1>3, <2>5, <2>6, <2>7 DEF Dispatch, Handover, DoomedAreExpired
  <1>4. CASE Respond(r) \/ DispatchRefused(r) \/ ResponseLost(r)
    <2>1. /\ req' = [req EXCEPT ![r] = IdleRequest]
          /\ UNCHANGED <<ledger, doomed, expired, job, replay, stranded>>
          /\ \A f \in acked' \ acked : req[r].ev = f /\ req[r].pc = "respond"
      BY <1>4 DEF Respond, DispatchRefused, ResponseLost
    <2>2. /\ req'[r].ev \notin Events
          /\ \A q \in Requests \ {r} : req'[q] = req[q]
      BY <2>1, <1>a, LedgerAssumption DEF TypeOK, IdleRequest
    <2>3. \A f \in Events : HandedOver(f)' => HandedOver(f)
      BY <2>1, <2>2 DEF HandedOver
    <2>4. PendingIsOwned'
      BY <2>1, <2>3 DEF Handover, PendingIsOwned, Owned, Owner
    <2>5. NothingBeforeTheRow'
      BY <2>1, <2>3 DEF Handover, NothingBeforeTheRow
    <2>6. RequestsHaveRows'
      BY <2>1, <2>2 DEF Handover, RequestsHaveRows
    <2> QED
      BY <2>1, <2>4, <2>5, <2>6 DEF Handover, DoomedAreExpired
  <1> QED
    BY <1>1, <1>2, <1>3, <1>4 DEF RequestStep

LEMMA HandoverOfReplays ==
  ASSUME Handover, TypeOK', NEW e \in Events,
         ReplayFind(e) \/ ReplayStep(e) \/ ReplayDispatchFails(e) \/ Expire(e)
  PROVE  Handover'
  <1> USE DEF tables, history, bounds
  <1>a. TypeOK
    BY DEF Handover
  <1>1. CASE ReplayFind(e)
    <2>1. /\ \A f \in Events \ {e} : replay'[f] = replay[f]
          /\ replay[e].pc = "idle"
          /\ ledger[e].status # "none"
      BY <1>1, <1>a DEF ReplayFind, TypeOK
    <2> QED
      BY <1>1, <2>1 DEF ReplayFind, Handover, PendingIsOwned, NothingBeforeTheRow,
         RequestsHaveRows, DoomedAreExpired, HandedOver, Owned, Owner
  <1>2. CASE ReplaySave(e)
    <2>1. /\ \A f \in Events : ledger'[f].touched = ledger[f].touched
          /\ \A f \in Events : (ledger'[f].status = "none") <=> (ledger[f].status = "none")
          /\ \A f \in Events \ {e} : ledger'[f] = ledger[f]
      BY <1>2, <1>a, SaveRow DEF ReplaySave, Status
    <2>2. /\ \A f \in Events \ {e} : replay'[f] = replay[f]
          /\ replay[e].pc # "idle"
          /\ replay'[e].pc = "saved"
      BY <1>2, <1>a DEF ReplaySave, TypeOK
    <2>3. \A f \in Events : HandedOver(f)' => HandedOver(f)
      BY <1>2, <2>1 DEF ReplaySave, HandedOver
    <2>4. PendingIsOwned'
      BY <1>2, <2>1, <2>2, <2>3
         DEF ReplaySave, Handover, PendingIsOwned, Owned, Owner
    <2>5. NothingBeforeTheRow'
      BY <1>2, <2>1, <2>2, <2>3 DEF ReplaySave, Handover, NothingBeforeTheRow
    <2> QED
      BY <1>2, <2>1, <2>4, <2>5
         DEF ReplaySave, Handover, RequestsHaveRows, DoomedAreExpired
  <1>3. ASSUME NEW j \in Jobs, ReplayDispatch(e, j) PROVE Handover'
    <2>1. Enqueue(e, j)
      BY <1>3 DEF ReplayDispatch
    <2>2. /\ \A f \in Events \ {e} : replay'[f] = replay[f]
          /\ replay'[e].pc = "idle"
          /\ replay[e].pc = "saved"
      BY <1>3, <1>a DEF ReplayDispatch, TypeOK, IdleReplay
    <2>3. \A f \in Events \ {e} : HandedOver(f)' => HandedOver(f)
      BY <1>3, <1>a, <2>1, EnqueueJob DEF ReplayDispatch, HandedOver
    <2>4. Owned(e)'
      BY <1>a, <2>1, EnqueueOwns
    <2>5. ASSUME NEW f \in Events \ {e}, Owned(f) \/ f \in stranded
          PROVE  Owned(f)' \/ f \in stranded'
      <3>1. \A k \in Jobs : Owner(k, f) => Owner(k, f)'
        BY <1>a, <2>1, EnqueueOwns
      <3> QED
        BY <1>a, <2>1, <2>2, <2>5, <3>1, EnqueueJob DEF Owned
    <2>6. PendingIsOwned'
      BY <1>3, <2>3, <2>4, <2>5 DEF ReplayDispatch, Handover, PendingIsOwned
    <2>7. NothingBeforeTheRow'
      BY <1>3, <2>2, <2>3 DEF ReplayDispatch, Handover, NothingBeforeTheRow
    <2> QED
      BY <1>3, <2>6, <2>7
         DEF ReplayDispatch, Handover, RequestsHaveRows, DoomedAreExpired
  <1>4. CASE ReplayDispatchFails(e)
    <2>1. /\ \A f \in Events \ {e} : replay'[f] = replay[f]
          /\ replay'[e].pc = "idle"
      BY <1>4, <1>a DEF ReplayDispatchFails, TypeOK, IdleReplay
    <2> QED
      BY <1>4, <2>1 DEF ReplayDispatchFails, Handover, PendingIsOwned,
         NothingBeforeTheRow, RequestsHaveRows, DoomedAreExpired, HandedOver,
         Owned, Owner
  <1>5. CASE Expire(e)
    <2>1. PendingIsOwned' /\ NothingBeforeTheRow'
      BY <1>5 DEF Expire, Handover, PendingIsOwned, NothingBeforeTheRow,
         HandedOver, Owned, Owner
    <2>2. RequestsHaveRows' /\ DoomedAreExpired'
      BY <1>5 DEF Expire, Handover, RequestsHaveRows, DoomedAreExpired
    <2> QED
      BY <2>1, <2>2 DEF Handover
  <1> QED
    BY <1>1, <1>2, <1>3, <1>4, <1>5 DEF ReplayStep

LEMMA HandoverStep == Handover /\ [Next]_vars => Handover'
  <1> SUFFICES ASSUME Handover, [Next]_vars PROVE Handover'
    OBVIOUS
  <1> USE DEF tables, history, bounds
  <1>a. TypeOK /\ TypeOK'
    BY TypeStep DEF Handover
  <1>1. CASE CleanupSelect
    BY <1>a, <1>1 DEF CleanupSelect, Handover, PendingIsOwned, NothingBeforeTheRow,
       RequestsHaveRows, DoomedAreExpired, HandedOver, Owned, Owner
  <1>2. CASE CleanupDelete
    <2>1. /\ \A f \in Events \ doomed : ledger'[f] = ledger[f]
          /\ \A f \in doomed : ledger'[f].status = "none" /\ ~ledger'[f].touched
      BY <1>a, <1>2 DEF CleanupDelete, TypeOK
    <2>2. PendingIsOwned'
      BY <1>2, <2>1
         DEF CleanupDelete, Handover, PendingIsOwned, HandedOver, Owned, Owner
    <2>3. NothingBeforeTheRow'
      BY <1>2, <2>1 DEF CleanupDelete, Handover, NothingBeforeTheRow,
         HandedOver, DoomedAreExpired
    <2>4. RequestsHaveRows' /\ DoomedAreExpired'
      BY <1>2, <2>1 DEF CleanupDelete, Handover, RequestsHaveRows, DoomedAreExpired
    <2> QED
      BY <1>a, <2>2, <2>3, <2>4 DEF Handover
  <1>3. CASE UNCHANGED vars
    BY <1>a, <1>3 DEF vars, Handover, PendingIsOwned, NothingBeforeTheRow,
       RequestsHaveRows, DoomedAreExpired, HandedOver, Owned, Owner
  <1>4. CASE Rest
    BY <1>3, <1>4 DEF Rest
  <1> QED
    BY <1>a, <1>1, <1>2, <1>3, <1>4, HandoverOfRequests, HandoverOfJobs,
       HandoverOfReplays DEF Next

\* Once Stripe has its 200 it will not deliver the event again; from then on a
\* pending row always has a job queued or running, or a replay about to dispatch
\* one, unless a replay's dispatch or the failed() hook was itself lost.
THEOREM NoAckedEventIsLost == Spec => []AckedPendingIsOwned
  <1>1. Init => Handover
    BY HandoverInit
  <1>2. Handover /\ [Next]_vars => Handover'
    BY HandoverStep
  <1>3. Handover => AckedPendingIsOwned
    BY DEF Handover, TypeOK, PendingIsOwned, HandedOver, AckedPendingIsOwned
  <1> QED
    BY <1>1, <1>2, <1>3, PTL DEF Spec

-----------------------------------------------------------------------------
(* Events that are given up *)

\* A job goes on with a row it read as pending or failed, never as completed: what
\* it saves in the end takes a failed row out of that state.
ReadsUnfinished ==
  \A j \in Jobs : job[j].pc \in HoldsRow => job[j].seen \in {"pending", "failed"}

Announcing == TypeOK /\ ReadsUnfinished /\ FailedIsAnnounced

LEMMA AnnouncingInit == Init => Announcing
  BY TypeInit DEF Announcing, ReadsUnfinished, FailedIsAnnounced, Init, FreeJob, HoldsRow

\* A job that is still there keeps its event announced.
LEMMA JobGoesOn ==
  ASSUME Announcing, TypeOK', NEW j \in Jobs, job[j].pc # "free", job'[j].pc # "free",
         job'[j].ev = job[j].ev, UNCHANGED <<announced, stranded>>,
         \A k \in Jobs \ {j} : job'[k] = job[k],
         \A e \in Events : e # job[j].ev => ledger'[e].status = ledger[e].status,
         job'[j].pc \in HoldsRow => job'[j].seen \in {"pending", "failed"}
  PROVE  Announcing'
  <1>1. ReadsUnfinished'
    BY DEF Announcing, ReadsUnfinished
  <1>2. FailedIsAnnounced'
    BY DEF Announcing, FailedIsAnnounced
  <1> QED
    BY <1>1, <1>2 DEF Announcing

\* A job that ends has announced its event, or its row is not failed.
LEMMA JobEnds ==
  ASSUME Announcing, TypeOK', NEW j \in Jobs, Finish(j),
         announced \subseteq announced', stranded \subseteq stranded',
         \A e \in Events : e # job[j].ev => ledger'[e].status = ledger[e].status,
         job[j].ev \in Events =>
            \/ ledger'[job[j].ev].status # "failed"
            \/ job[j].ev \in announced' \cup stranded'
  PROVE  Announcing'
  <1>1. job'[j].pc = "free" /\ \A k \in Jobs \ {j} : job'[k] = job[k]
    BY DEF Finish, Announcing, TypeOK, FreeJob
  <1>2. ReadsUnfinished'
    BY <1>1 DEF Announcing, ReadsUnfinished, HoldsRow
  <1>3. FailedIsAnnounced'
    BY <1>1 DEF Announcing, FailedIsAnnounced
  <1> QED
    BY <1>2, <1>3 DEF Announcing

LEMMA AnnouncingOfJobs ==
  ASSUME Announcing, TypeOK', NEW j \in Jobs, JobStep(j) \/ JobFault(j)
  PROVE  Announcing'
  <1> USE DEF tables, history
  <1>0. /\ job[j].pc # "free" /\ job[j] \in Job /\ job[j].ev \in Events
        /\ job[j].pc \in HoldsRow => job[j].seen \in {"pending", "failed"}
        /\ TypeOK
    <2>1. job[j].pc # "free"
      BY DEF JobStep, JobFault, At, Active, HoldsRow, Skip, Start, Bump, HandlerSucceeds,
             HandlerFatal, HandlerRetryable, Complete, Mark, Fatal, Exhausted, GiveUp,
             DeadLetter, CompleteFails, HookFails, DatabaseFails, Crash
    <2> QED
      BY <2>1, BusyJob DEF Announcing, ReadsUnfinished, Job
  <1>1. CASE Skip(j)
    BY <1>0, <1>1, JobEnds DEF Skip, Skips
  <1>2. CASE Start(j)
    <2>1. /\ job'[j].pc = "bump" /\ job'[j].ev = job[j].ev
          /\ job'[j].seen = ledger[job[j].ev].status
          /\ \A k \in Jobs \ {j} : job'[k] = job[k]
      BY <1>0, <1>2 DEF Start, TypeOK, Job
    <2>2. ledger[job[j].ev].status \in {"pending", "failed"}
      BY <1>0, <1>2 DEF Start, Skips, TypeOK, Row, RowStatus, Status
    <2> QED
      BY <1>0, <1>2, <2>1, <2>2, JobGoesOn DEF Start
  <1>3. CASE Bump(j)
    <2>1. \A e \in Events : ledger'[e].status = ledger[e].status
      BY <1>0, <1>3 DEF Bump, TypeOK, Row
    <2> QED
      BY <1>0, <1>3, <2>1, GotoJob, JobGoesOn DEF Bump, At, Active, HoldsRow
  <1>4. CASE HandlerSucceeds(j) \/ HandlerFatal(j) \/ CompleteFails(j)
    BY <1>0, <1>4, GotoJob, JobGoesOn
    DEF HandlerSucceeds, HandlerFatal, CompleteFails, At, Active, HoldsRow
  <1>5. CASE HandlerRetryable(j) \/ DatabaseFails(j)
    BY <1>0, <1>5, ThrowJob, JobGoesOn DEF HandlerRetryable, DatabaseFails, HoldsRow
  <1>6. CASE Complete(j)
    <2>1. /\ \A e \in Events : e # job[j].ev => ledger'[e].status = ledger[e].status
          /\ ledger'[job[j].ev].status # "failed"
      BY <1>0, <1>6, SaveRow DEF Complete, At, HoldsRow, Status
    <2> QED
      BY <1>0, <1>6, <2>1, JobEnds DEF Complete
  <1>7. CASE Mark(j)
    BY <1>0, <1>7, SaveRow, ThrowJob, JobGoesOn DEF Mark, Status, HoldsRow
  <1>8. CASE Fatal(j) \/ GiveUp(j)
    BY <1>0, <1>8, SaveRow, GotoJob, JobGoesOn DEF Fatal, GiveUp, Status, Active, HoldsRow
  <1>9. CASE Exhausted(j)
    <2>1. /\ job'[j].pc \in {"deadLetter", "giveUp"} /\ job'[j].ev = job[j].ev
          /\ job'[j].pc = "giveUp" => job'[j].seen \in {"pending", "failed"}
          /\ \A k \in Jobs \ {j} : job'[k] = job[k]
      <3>1. ledger[job[j].ev].status \in RowStatus
        BY <1>0 DEF TypeOK, Row
      <3>2. CASE Skips(ledger[job[j].ev].status)
        BY <1>0, <1>9, <3>2 DEF Exhausted, TypeOK, Job
      <3>3. CASE ~Skips(ledger[job[j].ev].status)
        <4>1. job' = [job EXCEPT ![j] =
                        [job[j] EXCEPT !.pc = "giveUp", !.seen = ledger[job[j].ev].status]]
          BY <1>9, <3>3 DEF Exhausted
        <4> QED
          BY <1>0, <3>1, <3>3, <4>1 DEF TypeOK, Job, Skips, RowStatus, Status
      <3> QED
        BY <3>2, <3>3
    <2> QED
      BY <1>0, <1>9, <2>1, JobGoesOn DEF Exhausted, HoldsRow
  <1>10. CASE DeadLetter(j)
    BY <1>0, <1>10, JobEnds DEF DeadLetter
  <1>11. CASE HookFails(j)
    BY <1>0, <1>11, JobEnds DEF HookFails
  <1>12. CASE Crash(j)
    BY <1>0, <1>12, GotoJob, JobGoesOn DEF Crash, HoldsRow
  <1> QED
    BY <1>1, <1>2, <1>3, <1>4, <1>5, <1>6, <1>7, <1>8, <1>9, <1>10, <1>11, <1>12
    DEF JobStep, JobFault

\* A new job is there for its event in the stead of what was stranded.
LEMMA AnnouncingByEnqueue ==
  ASSUME Announcing, TypeOK', NEW e \in Events, NEW j \in Jobs, Enqueue(e, j),
         UNCHANGED <<ledger, announced>>
  PROVE  Announcing'
  <1>1. /\ \A k \in Jobs \ {j} : job'[k] = job[k]
        /\ job'[j].ev = e /\ job'[j].pc = "queued" /\ job[j].pc = "free"
        /\ stranded' = stranded \ {e}
    BY EnqueueJob DEF Announcing, Enqueue
  <1>2. ReadsUnfinished'
    BY <1>1 DEF Announcing, ReadsUnfinished, HoldsRow
  <1>3. FailedIsAnnounced'
    BY <1>1 DEF Announcing, FailedIsAnnounced
  <1> QED
    BY <1>2, <1>3 DEF Announcing

\* A step that gives up no event, and takes no job and no announcement away.
LEMMA AnnouncingElsewhere ==
  ASSUME Announcing, TypeOK', UNCHANGED job, stranded \subseteq stranded',
         \A e \in Events : ledger'[e].status = "failed" =>
            ledger[e].status = "failed" /\ (e \in announced => e \in announced')
  PROVE  Announcing'
  BY DEF Announcing, ReadsUnfinished, FailedIsAnnounced

LEMMA AnnouncingOfRequests ==
  ASSUME Announcing, TypeOK', NEW r \in Requests,
         \/ \E e \in Events : Deliver(r, e)
         \/ RequestStep(r) \/ DispatchRefused(r) \/ ResponseLost(r)
  PROVE  Announcing'
  <1> USE DEF tables, history
  <1>1. ASSUME NEW e \in Events, Deliver(r, e) PROVE Announcing'
    <2>1. \A f \in Events : ledger'[f].status = "failed" => ledger[f].status = "failed"
      BY <1>1 DEF Deliver, Announcing, TypeOK
    <2> QED
      BY <1>1, <2>1, AnnouncingElsewhere DEF Deliver
  <1>2. CASE Reread(r) \/ Respond(r) \/ DispatchRefused(r) \/ ResponseLost(r)
    BY <1>2, AnnouncingElsewhere DEF Reread, Respond, DispatchRefused, ResponseLost
  <1>3. ASSUME NEW j \in Jobs, Dispatch(r, j) PROVE Announcing'
    <2>1. req[r].ev \in Events
      BY <1>3, BusyRequest DEF Dispatch, Announcing, Request
    <2> QED
      BY <1>3, <2>1, AnnouncingByEnqueue DEF Dispatch
  <1> QED
    BY <1>1, <1>2, <1>3 DEF RequestStep

LEMMA AnnouncingOfReplays ==
  ASSUME Announcing, TypeOK', NEW e \in Events,
         ReplayFind(e) \/ ReplayStep(e) \/ ReplayDispatchFails(e) \/ Expire(e)
  PROVE  Announcing'
  <1> USE DEF tables, history
  <1>1. CASE ReplayFind(e) \/ ReplayDispatchFails(e) \/ Expire(e)
    BY <1>1, AnnouncingElsewhere DEF ReplayFind, ReplayDispatchFails, Expire
  <1>2. CASE ReplaySave(e)
    <2>1. CASE ledger' = ledger
      BY <1>2, <2>1, AnnouncingElsewhere DEF ReplaySave
    <2>2. CASE ledger' # ledger
      <3>1. ledger' = [ledger EXCEPT ![e].status = "pending"]
        BY <1>2, <2>2 DEF ReplaySave, SaveStatus, SetStatus
      <3>2. \A f \in Events : ledger'[f].status = "failed" =>
               f # e /\ ledger[f].status = "failed"
        BY <3>1 DEF Announcing, TypeOK, Row
      <3> QED
        BY <1>2, <3>2, AnnouncingElsewhere DEF ReplaySave
    <2> QED
      BY <2>1, <2>2
  <1>3. ASSUME NEW j \in Jobs, ReplayDispatch(e, j) PROVE Announcing'
    BY <1>3, AnnouncingByEnqueue DEF ReplayDispatch
  <1> QED
    BY <1>1, <1>2, <1>3 DEF ReplayStep

LEMMA AnnouncingStep == Announcing /\ [Next]_vars => Announcing'
  <1> SUFFICES ASSUME Announcing, [Next]_vars PROVE Announcing'
    OBVIOUS
  <1>1. TypeOK'
    BY TypeStep DEF Announcing
  <1>2. CASE UNCHANGED vars \/ Rest \/ CleanupSelect
    BY <1>1, <1>2, AnnouncingElsewhere DEF vars, tables, history, Rest, CleanupSelect
  <1>3. CASE CleanupDelete
    <2>1. \A e \in Events : ledger'[e].status = "failed" => ledger[e].status = "failed"
      BY <1>3 DEF CleanupDelete
    <2> QED
      BY <1>1, <1>3, <2>1, AnnouncingElsewhere DEF CleanupDelete, history
  <1> QED
    BY <1>1, <1>2, <1>3, AnnouncingOfRequests, AnnouncingOfJobs, AnnouncingOfReplays
    DEF Next

\* An event that is given up is dead-lettered, or a job is still there to do it:
\* only an error in emitting the dead letter, or in a replay, loses it.
THEOREM GivenUpIsAnnounced == Spec => []FailedIsAnnounced
  <1>1. Announcing => FailedIsAnnounced
    BY DEF Announcing
  <1> QED
    BY <1>1, AnnouncingInit, AnnouncingStep, PTL DEF Spec

-----------------------------------------------------------------------------
(* One worker at a time *)

\* No two jobs run at once, so a job that still holds the row it has read is the
\* only one that can complete it: the row is not completed behind its back.
OneIsActive ==
  \A j, k \in Jobs : job[j].pc \in Active /\ job[k].pc \in Active => j = k

RowIsFresh ==
  \A j \in Jobs : job[j].pc \in HoldsRow => ledger[job[j].ev].status # "completed"

Solo == TypeOK /\ OneIsActive /\ RowIsFresh

LEMMA SoloInit == Init => Solo
  BY TypeInit DEF Solo, OneIsActive, RowIsFresh, Init, FreeJob, Active, HoldsRow

\* A worker that is free under a concurrency of one is the only worker.
LEMMA NobodyElse ==
  ASSUME Concurrency <= 1, WorkerFree
  PROVE  \A k \in Jobs : job[k].pc \notin Active
  <1> DEFINE Running == {k \in Jobs : job[k].pc \in Active}
  <1>1. IsFiniteSet(Running)
    BY LedgerAssumption, FS_Subset
  <1>2. Cardinality(Running) = 0
    <2>1. Cardinality(Running) \in Nat
      BY <1>1, FS_CardinalityType
    <2>2. Cardinality(Running) < Concurrency
      BY DEF WorkerFree
    <2>3. Concurrency \in Nat
      BY LedgerAssumption
    <2> HIDE DEF Running
    <2> QED
      BY <2>1, <2>2, <2>3
  <1>3. Running = {}
    BY <1>1, <1>2, FS_EmptySet
  <1> QED
    BY <1>3

\* A step of the job that runs, or of one that starts while none runs.
LEMMA SoloByJob ==
  ASSUME Concurrency <= 1, Solo, TypeOK', NEW j \in Jobs,
         \A k \in Jobs \ {j} : job'[k] = job[k],
         job[j].pc \in Active \/ WorkerFree,
         job'[j].pc \in HoldsRow => ledger'[job'[j].ev].status # "completed",
         \/ job[j].pc \in Active
         \/ \A e \in Events : ledger'[e].status = ledger[e].status
  PROVE  Solo'
  <1>1. \A k \in Jobs \ {j} : job[k].pc \notin Active
    BY NobodyElse DEF Solo, OneIsActive
  <1>2. OneIsActive'
    BY <1>1 DEF OneIsActive
  <1>3. RowIsFresh'
    BY <1>1 DEF RowIsFresh, Active
  <1> QED
    BY <1>2, <1>3 DEF Solo

LEMMA SoloOfJobs ==
  ASSUME Concurrency <= 1, Solo, TypeOK', NEW j \in Jobs, JobStep(j) \/ JobFault(j)
  PROVE  Solo'
  <1> USE DEF tables
  <1>0. TypeOK
    BY DEF Solo
  <1>a. job[j].pc # "free"
    BY DEF JobStep, JobFault, At, Active, HoldsRow, Skip, Start, Bump, HandlerSucceeds,
           HandlerFatal, HandlerRetryable, Complete, Mark, Fatal, Exhausted, GiveUp,
           DeadLetter, CompleteFails, HookFails, DatabaseFails, Crash
  <1>b. job[j] \in Job /\ job[j].ev \in Events
    BY <1>0, <1>a, BusyJob DEF Job
  <1>c. job[j].pc \in HoldsRow => ledger[job[j].ev].status # "completed"
    BY DEF Solo, RowIsFresh
  <1>1. CASE Skip(j) \/ DeadLetter(j) \/ HookFails(j)
    <2>1. /\ \A k \in Jobs \ {j} : job'[k] = job[k]
          /\ job'[j].pc \notin HoldsRow
      BY <1>0, <1>1 DEF Skip, DeadLetter, HookFails, Finish, TypeOK, FreeJob, HoldsRow
    <2> QED
      BY <1>1, <2>1, SoloByJob DEF Skip, DeadLetter, HookFails, At, Active, HoldsRow
  <1>2. CASE Start(j)
    <2>1. /\ job'[j].ev = job[j].ev
          /\ \A k \in Jobs \ {j} : job'[k] = job[k]
      BY <1>0, <1>b, <1>2 DEF Start, TypeOK, Job
    <2> QED
      BY <1>2, <2>1, SoloByJob DEF Start, Skips
  <1>3. CASE Bump(j)
    <2>1. \A e \in Events : ledger'[e].status = ledger[e].status
      BY <1>0, <1>3 DEF Bump, TypeOK, Row
    <2> QED
      BY <1>0, <1>b, <1>c, <1>3, <2>1, GotoJob, SoloByJob DEF Bump, At, Active, HoldsRow
  <1>4. CASE HandlerSucceeds(j) \/ HandlerFatal(j) \/ CompleteFails(j)
    BY <1>0, <1>b, <1>c, <1>4, GotoJob, SoloByJob
    DEF HandlerSucceeds, HandlerFatal, CompleteFails, At, Active, HoldsRow
  <1>5. CASE HandlerRetryable(j) \/ DatabaseFails(j)
    <2>1. /\ \A k \in Jobs \ {j} : job'[k] = job[k]
          /\ job'[j].pc \notin HoldsRow
      BY <1>0, <1>a, <1>5, ThrowJob DEF HandlerRetryable, DatabaseFails, HoldsRow
    <2> QED
      BY <1>5, <2>1, SoloByJob DEF HandlerRetryable, DatabaseFails, At, Active, HoldsRow
  <1>6. CASE Complete(j)
    <2>1. /\ \A k \in Jobs \ {j} : job'[k] = job[k]
          /\ job'[j].pc \notin HoldsRow
      BY <1>0, <1>6 DEF Complete, Finish, TypeOK, FreeJob, HoldsRow
    <2> QED
      BY <1>6, <2>1, SoloByJob DEF Complete, At, Active, HoldsRow
  <1>7. CASE Mark(j)
    <2>1. /\ \A k \in Jobs \ {j} : job'[k] = job[k]
          /\ job'[j].pc \notin HoldsRow
      BY <1>0, <1>a, <1>7, ThrowJob DEF Mark, HoldsRow
    <2> QED
      BY <1>7, <2>1, SoloByJob DEF Mark, At, Active, HoldsRow
  <1>8. CASE Fatal(j) \/ GiveUp(j)
    <2>1. /\ \A k \in Jobs \ {j} : job'[k] = job[k]
          /\ job'[j].pc \notin HoldsRow
      BY <1>0, <1>a, <1>8, GotoJob DEF Fatal, GiveUp, Active, HoldsRow
    <2> QED
      BY <1>8, <2>1, SoloByJob DEF Fatal, GiveUp, At, Active, HoldsRow
  <1>9. CASE Exhausted(j)
    <2>1. /\ job'[j].ev = job[j].ev
          /\ \A k \in Jobs \ {j} : job'[k] = job[k]
          /\ job'[j].pc \in HoldsRow => ~Skips(ledger[job[j].ev].status)
      BY <1>0, <1>b, <1>9 DEF Exhausted, TypeOK, Job, HoldsRow
    <2> QED
      BY <1>9, <2>1, SoloByJob DEF Exhausted, Skips, At, Active
  <1>10. CASE Crash(j)
    <2>1. /\ \A k \in Jobs \ {j} : job'[k] = job[k]
          /\ job'[j].pc \notin HoldsRow
      BY <1>0, <1>a, <1>10, GotoJob DEF Crash, HoldsRow
    <2> QED
      BY <1>10, <2>1, SoloByJob DEF Crash
  <1> QED
    BY <1>1, <1>2, <1>3, <1>4, <1>5, <1>6, <1>7, <1>8, <1>9, <1>10
    DEF JobStep, JobFault

\* A step that completes no row, and leaves the jobs alone or queues one.
LEMMA SoloElsewhere ==
  ASSUME Solo, TypeOK',
         \A j \in Jobs : job'[j] = job[j] \/ job'[j].pc = "queued",
         \A e \in Events : ledger'[e].status = "completed" => ledger[e].status = "completed"
  PROVE  Solo'
  <1>1. OneIsActive'
    BY DEF Solo, OneIsActive, Active, HoldsRow
  <1>2. RowIsFresh'
    <2> SUFFICES ASSUME NEW j \in Jobs, job'[j].pc \in HoldsRow
                 PROVE  ledger'[job'[j].ev].status # "completed"
      BY DEF RowIsFresh
    <2>1. job'[j] = job[j]
      BY DEF HoldsRow
    <2>2. job[j].ev \in Events
      BY <2>1, BusyJob DEF Solo, Job, HoldsRow
    <2> QED
      BY <2>1, <2>2 DEF Solo, RowIsFresh
  <1> QED
    BY <1>1, <1>2 DEF Solo

LEMMA SoloStep ==
  ASSUME Concurrency <= 1, Solo, [Next]_vars
  PROVE  Solo'
  <1> USE DEF tables, history
  <1>1. TypeOK /\ TypeOK'
    BY TypeStep DEF Solo
  <1>2. CASE UNCHANGED vars \/ Rest \/ CleanupSelect
    BY <1>1, <1>2, SoloElsewhere DEF vars, Rest, CleanupSelect
  <1>3. CASE CleanupDelete
    BY <1>1, <1>3, SoloElsewhere DEF CleanupDelete
  <1>4. ASSUME NEW r \in Requests, NEW e \in Events, Deliver(r, e) PROVE Solo'
    <2>1. \A f \in Events : ledger'[f].status = "completed" => ledger[f].status = "completed"
      BY <1>1, <1>4 DEF Deliver, TypeOK
    <2> QED
      BY <1>1, <1>4, <2>1, SoloElsewhere DEF Deliver
  <1>5. ASSUME NEW r \in Requests,
               Reread(r) \/ Respond(r) \/ DispatchRefused(r) \/ ResponseLost(r)
        PROVE  Solo'
    BY <1>1, <1>5, SoloElsewhere DEF Reread, Respond, DispatchRefused, ResponseLost
  <1>6. ASSUME NEW r \in Requests, NEW j \in Jobs, Dispatch(r, j) PROVE Solo'
    <2>1. req[r].ev \in Events
      BY <1>1, <1>6, BusyRequest DEF Dispatch, Request
    <2> QED
      BY <1>1, <1>6, <2>1, EnqueueJob, SoloElsewhere DEF Dispatch
  <1>7. ASSUME NEW e \in Events, ReplayFind(e) \/ ReplayDispatchFails(e) \/ Expire(e)
        PROVE  Solo'
    BY <1>1, <1>7, SoloElsewhere DEF ReplayFind, ReplayDispatchFails, Expire
  <1>8. ASSUME NEW e \in Events, ReplaySave(e) PROVE Solo'
    <2>1. \A f \in Events : ledger'[f].status = "completed" => ledger[f].status = "completed"
      <3>1. /\ \A f \in Events \ {e} : ledger'[f] = ledger[f]
            /\ ledger'[e].status = "pending" \/ ledger' = ledger
        BY <1>1, <1>8 DEF ReplaySave, SaveStatus, SetStatus, TypeOK, Row
      <3> QED
        BY <3>1
    <2> QED
      BY <1>1, <1>8, <2>1, SoloElsewhere DEF ReplaySave
  <1>9. ASSUME NEW e \in Events, NEW j \in Jobs, ReplayDispatch(e, j) PROVE Solo'
    BY <1>1, <1>9, EnqueueJob, SoloElsewhere DEF ReplayDispatch
  <1>10. ASSUME NEW j \in Jobs, JobStep(j) \/ JobFault(j) PROVE Solo'
    BY <1>1, <1>10, SoloOfJobs
  <1>11. ASSUME NEW r \in Requests, RequestStep(r) PROVE Solo'
    BY <1>5, <1>6, <1>11 DEF RequestStep
  <1>12. ASSUME NEW e \in Events, ReplayStep(e) PROVE Solo'
    BY <1>8, <1>9, <1>12 DEF ReplayStep
  <1> QED
    BY <1>2, <1>3, <1>4, <1>5, <1>7, <1>10, <1>11, <1>12 DEF Next

\* A step other than the deletion of a batch leaves every status, or moves that of
\* one row: a new event's, a handler's outcome or a replay's reset. A completed row
\* is moved by a replay only.
RowMoves(e) ==
  /\ \A f \in Events \ {e} : ledger'[f].status = ledger[f].status
  /\ \/ /\ ledger[e].status = "none" /\ ledger'[e].status = "pending"
        /\ e \notin expired
     \/ ledger[e].status = "pending" /\ ledger'[e].status = "failed"
     \/ ledger[e].status \in {"pending", "failed"} /\ ledger'[e].status = "completed"
     \/ /\ ledger[e].status \in {"completed", "failed"} /\ ledger'[e].status = "pending"
        /\ replay[e].pc = "found"

RowsRest == \A e \in Events : ledger'[e].status = ledger[e].status

\* A save moves its own row to the saved status, or none.
LEMMA SaveMoves ==
  ASSUME TypeOK, NEW e \in Events, NEW seen, NEW s \in Status, SaveStatus(e, seen, s)
  PROVE  \/ RowsRest
         \/ /\ \A f \in Events \ {e} : ledger'[f].status = ledger[f].status
            /\ ledger[e].status # "none" /\ ledger'[e].status = s
  BY SaveRow DEF SaveStatus, SetStatus, RowsRest

LEMMA JobMovesRows ==
  ASSUME Solo, NEW j \in Jobs, JobStep(j) \/ JobFault(j)
  PROVE  RowsRest \/ \E e \in Events : RowMoves(e)
  <1> USE DEF tables
  <1>1. TypeOK
    BY DEF Solo
  <1>2. CASE Complete(j) \/ Mark(j)
    <2>1. job[j].ev \in Events
      BY <1>1, <1>2, BusyJob DEF Complete, Mark, At, Job
    <2>2. SaveStatus(job[j].ev, job[j].seen, "completed")
      BY <1>2 DEF Complete, Mark
    <2>3. ledger[job[j].ev].status \in RowStatus
      BY <1>1, <2>1 DEF TypeOK, Row
    <2> QED
      BY <1>1, <2>1, <2>2, <2>3, SaveMoves DEF RowMoves, RowsRest, RowStatus, Status
  <1>3. CASE Fatal(j) \/ GiveUp(j)
    <2>1. job[j].ev \in Events /\ ledger[job[j].ev].status # "completed"
      BY <1>1, <1>3, BusyJob DEF Fatal, GiveUp, At, Job, Solo, RowIsFresh, HoldsRow
    <2>2. SaveStatus(job[j].ev, job[j].seen, "failed")
      BY <1>3 DEF Fatal, GiveUp
    <2>3. ledger[job[j].ev].status \in RowStatus
      BY <1>1, <2>1 DEF TypeOK, Row
    <2> QED
      BY <1>1, <2>1, <2>2, <2>3, SaveMoves DEF RowMoves, RowsRest, RowStatus, Status
  <1>4. CASE Bump(j)
    BY <1>1, <1>4 DEF Bump, TypeOK, Row, RowsRest
  <1>5. CASE \/ Skip(j) \/ Start(j) \/ HandlerSucceeds(j) \/ HandlerFatal(j)
             \/ HandlerRetryable(j) \/ Exhausted(j) \/ DeadLetter(j) \/ JobFault(j)
    BY <1>5 DEF Skip, Start, HandlerSucceeds, HandlerFatal, HandlerRetryable, Exhausted,
       DeadLetter, JobFault, CompleteFails, HookFails, DatabaseFails, Crash, RowsRest
  <1> QED
    BY <1>2, <1>3, <1>4, <1>5 DEF JobStep

LEMMA StepMovesRows ==
  ASSUME Solo, [Next]_vars, ~CleanupDelete
  PROVE  RowsRest \/ \E e \in Events : RowMoves(e)
  <1> USE DEF tables
  <1>1. TypeOK
    BY DEF Solo
  <1>2. CASE UNCHANGED vars \/ Rest \/ CleanupSelect
    BY <1>2 DEF vars, Rest, CleanupSelect, RowsRest
  <1>3. ASSUME NEW r \in Requests, NEW e \in Events, Deliver(r, e)
        PROVE  RowsRest \/ RowMoves(e)
    BY <1>1, <1>3 DEF Deliver, TypeOK, RowsRest, RowMoves
  <1>4. ASSUME NEW r \in Requests,
               RequestStep(r) \/ DispatchRefused(r) \/ ResponseLost(r)
        PROVE  RowsRest
    BY <1>4 DEF RequestStep, Reread, Respond, Dispatch, DispatchRefused, ResponseLost, RowsRest
  <1>5. ASSUME NEW e \in Events, ReplaySave(e)
        PROVE  RowsRest \/ RowMoves(e)
    <2>1. SaveStatus(e, replay[e].seen, "pending") /\ replay[e].pc = "found"
      BY <1>5 DEF ReplaySave
    <2>2. ledger[e].status \in RowStatus
      BY <1>1 DEF TypeOK, Row
    <2> QED
      BY <1>1, <2>1, <2>2, SaveMoves DEF RowMoves, RowsRest, RowStatus, Status
  <1>6. ASSUME NEW e \in Events,
               \/ ReplayFind(e) \/ ReplayDispatchFails(e) \/ Expire(e)
               \/ \E j \in Jobs : ReplayDispatch(e, j)
        PROVE  RowsRest
    BY <1>6 DEF ReplayFind, ReplayDispatch, ReplayDispatchFails, Expire, RowsRest
  <1>7. ASSUME NEW e \in Events, ReplayStep(e)
        PROVE  RowsRest \/ RowMoves(e)
    BY <1>5, <1>6, <1>7 DEF ReplayStep
  <1> QED
    BY <1>2, <1>3, <1>4, <1>6, <1>7, JobMovesRows DEF Next

\* The comment of the webhook controller holds where one job runs at a time: only a
\* replay or the cleanup takes an event out of `completed', however late the replays
\* come and whatever fails.
THEOREM OneWorkerKeepsCompleted ==
  ASSUME Concurrency <= 1
  PROVE  Spec => CompletedIsFinal
  <1>1. Init => Solo
    BY SoloInit
  <1>2. Solo /\ [Next]_vars => Solo'
    BY SoloStep
  <1> DEFINE Final == \A e \in Events :
                        ledger[e].status = "completed" /\ ledger'[e].status # "completed" =>
                          replay[e].pc = "found" \/ e \in doomed
  <1>3. Solo /\ [Next]_vars => [Final]_vars
    <2> SUFFICES ASSUME Solo, [Next]_vars PROVE Final
      OBVIOUS
    <2>1. CASE CleanupDelete
      BY <2>1 DEF CleanupDelete
    <2>2. CASE ~CleanupDelete
      BY <2>2, StepMovesRows DEF RowsRest, RowMoves
    <2> QED
      BY <2>1, <2>2
  <1>4. CompletedIsFinal <=> [][Final]_vars
    BY DEF CompletedIsFinal
  <1> HIDE DEF Final
  <1> QED
    BY <1>1, <1>2, <1>3, <1>4, PTL DEF Spec

-----------------------------------------------------------------------------
(* The ledger implements the life of an event *)

\* What the cleanup is about to delete is still completed when it deletes it: it is
\* past its retention, and where operators do not replay such events nothing moves it.
DoomedAreDone ==
  \A e \in doomed : ledger[e].status \in {"completed", "none"}

NoOldReplay == \A e \in expired : replay[e].pc = "idle"

Retained == Solo /\ DoomedAreDone /\ DoomedAreExpired /\ NoOldReplay

LEMMA RetainedInit == Init => Retained
  BY SoloInit DEF Retained, DoomedAreDone, DoomedAreExpired, NoOldReplay, Init

LEMMA RetainedStep ==
  ASSUME Concurrency <= 1, ~OldReplays, Retained, [Next]_vars
  PROVE  Retained'
  <1> USE DEF tables
  <1>1. Solo /\ Solo' /\ TypeOK
    BY SoloStep DEF Retained, Solo
  <1>2. CASE CleanupSelect
    BY <1>1, <1>2 DEF CleanupSelect, Retained, DoomedAreDone, DoomedAreExpired, NoOldReplay
  <1>3. CASE CleanupDelete
    BY <1>1, <1>3 DEF CleanupDelete, Retained, DoomedAreDone, DoomedAreExpired, NoOldReplay
  <1>4. ASSUME UNCHANGED doomed, expired \subseteq expired', NoOldReplay', ~CleanupDelete
        PROVE  Retained'
    <2>1. doomed \subseteq Events
      BY <1>1 DEF TypeOK
    <2>2. DoomedAreDone'
      BY <1>1, <1>4, <2>1, StepMovesRows
      DEF Retained, DoomedAreDone, DoomedAreExpired, NoOldReplay, RowsRest, RowMoves
    <2> QED
      BY <1>1, <1>4, <2>2 DEF Retained, DoomedAreExpired
  <1>5. CASE UNCHANGED <<doomed, expired, replay>>
    <2>1. NoOldReplay'
      BY <1>5 DEF Retained, NoOldReplay
    <2> QED
      BY <1>3, <1>4, <1>5, <2>1
  <1>6. ASSUME NEW e \in Events,
               ReplayFind(e) \/ ReplayStep(e) \/ ReplayDispatchFails(e) \/ Expire(e)
        PROVE  Retained'
    <2>1. UNCHANGED doomed /\ expired \subseteq expired'
      BY <1>6 DEF ReplayFind, ReplayStep, ReplaySave, ReplayDispatch, ReplayDispatchFails,
         Expire
    <2>2. ReplayFind(e) \/ ReplaySave(e) \/ Expire(e) => NoOldReplay'
      BY <1>1 DEF ReplayFind, ReplaySave, Expire, Retained, NoOldReplay, TypeOK
    <2>3. ReplayDispatchFails(e) \/ (\E j \in Jobs : ReplayDispatch(e, j)) => NoOldReplay'
      BY <1>1 DEF ReplayDispatchFails, ReplayDispatch, Retained, NoOldReplay,
         TypeOK, IdleReplay
    <2>4. NoOldReplay'
      BY <1>6, <2>2, <2>3 DEF ReplayStep
    <2> QED
      BY <1>3, <1>4, <2>1, <2>4
  <1>7. ASSUME NEW r \in Requests,
               \/ \E e \in Events : Deliver(r, e)
               \/ RequestStep(r) \/ DispatchRefused(r) \/ ResponseLost(r)
        PROVE  Retained'
    BY <1>5, <1>7 DEF Deliver, RequestStep, Reread, Respond, Dispatch, DispatchRefused,
       ResponseLost
  <1>8. ASSUME NEW j \in Jobs, JobStep(j) \/ JobFault(j) PROVE Retained'
    BY <1>5, <1>8 DEF JobStep, JobFault, Skip, Start, Bump, HandlerSucceeds, HandlerFatal,
       HandlerRetryable, Complete, Mark, Fatal, Exhausted, GiveUp, DeadLetter,
       CompleteFails, HookFails, DatabaseFails, Crash
  <1>9. CASE UNCHANGED vars \/ Rest
    BY <1>5, <1>9 DEF vars, Rest
  <1> QED
    BY <1>2, <1>3, <1>6, <1>7, <1>8, <1>9 DEF Next

\* The stage of an event's life that its row stands for.
Stage == [e \in Events |-> LifeOf(ledger[e].status)]

LEMMA StageOf ==
  ASSUME NEW s \in RowStatus
  PROVE  /\ s = "none" <=> LifeOf(s) = "unknown"
         /\ s = "pending" <=> LifeOf(s) = "accepted"
         /\ s = "completed" <=> LifeOf(s) = "done"
         /\ s = "failed" <=> LifeOf(s) = "givenUp"
  BY DEF LifeOf, RowStatus, Status

LEMMA InitRefines == Init => Life!Init
  BY DEF Init, Life!Init, LifeOf

LEMMA StepRefines ==
  ASSUME Concurrency <= 1, ~OldReplays, Retained, [Next]_vars
  PROVE  [Life!Next]_Stage
  <1>1. Solo /\ TypeOK /\ TypeOK'
    BY SoloStep DEF Retained, Solo
  <1>2. /\ \A e \in Events : ledger[e].status \in RowStatus
        /\ \A e \in Events : ledger'[e].status \in RowStatus
    BY <1>1 DEF TypeOK, Row
  <1>3. CASE RowsRest
    BY <1>3 DEF Stage, RowsRest
  <1>4. ASSUME NEW e \in Events, RowMoves(e) PROVE Life!Next
    <2>1. Stage' = [Stage EXCEPT ![e] = LifeOf(ledger'[e].status)]
      BY <1>4 DEF Stage, RowMoves
    <2>2. Stage[e] = LifeOf(ledger[e].status)
      BY DEF Stage
    <2>3. Life!Accept(e) \/ Life!Done(e) \/ Life!GiveUp(e) \/ Life!Replay(e)
      BY <1>2, <1>4, <2>1, <2>2, StageOf
      DEF RowMoves, Stage, Life!Accept, Life!Done, Life!GiveUp, Life!Replay, Life!Move
    <2> QED
      BY <2>3 DEF Life!Next
  <1>5. CASE CleanupDelete
    <2> DEFINE S == {e \in doomed : ledger[e].status = "completed"}
    <2>1. S \in SUBSET Events /\ \A e \in S : LifeOf(ledger[e].status) = "done"
      BY <1>1, <1>2, StageOf DEF TypeOK
    <2>2. \A e \in Events :
            ledger'[e].status = IF e \in S THEN "none" ELSE ledger[e].status
      BY <1>5 DEF CleanupDelete, Retained, DoomedAreDone
    <2>3. CASE S = {}
      BY <2>2, <2>3, <1>3 DEF RowsRest
    <2>4. CASE S # {}
      <3>1. Stage' = [e \in Events |-> IF e \in S THEN "unknown" ELSE Stage[e]]
        BY <2>2, <1>2, StageOf DEF Stage
      <3>2. Life!Forget(S)
        BY <2>1, <2>4, <3>1 DEF Life!Forget, Stage
      <3> QED
        BY <2>1, <3>2 DEF Life!Next
    <2> QED
      BY <2>3, <2>4
  <1> QED
    BY <1>1, <1>3, <1>4, <1>5, StepMovesRows

\* With one job at a time and no replay of events past their retention, the ledger
\* implements the life of an event: accepted once, done or given up, taken back by a
\* replay only, and forgotten only when done. Both hypotheses are needed: with two
\* jobs a late `failed' overwrites `completed', with an old replay the cleanup
\* deletes a row that is pending again.
THEOREM LedgerImplementsLifecycle ==
  ASSUME Concurrency <= 1, ~OldReplays
  PROVE  Spec => ImplementsLifecycle
  <1>1. Init => Retained /\ Life!Init
    BY RetainedInit, InitRefines
  <1>2. Retained /\ [Next]_vars => Retained'
    BY RetainedStep
  <1>3. Retained /\ [Next]_vars => [Life!Next]_Stage
    BY StepRefines
  <1>4. ImplementsLifecycle <=> Life!Init /\ [][Life!Next]_Stage
    BY DEF ImplementsLifecycle, Life!Spec, Stage
  <1> QED
    BY <1>1, <1>2, <1>3, <1>4, PTL DEF Spec

=============================================================================
