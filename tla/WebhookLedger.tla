--------------------------- MODULE WebhookLedger ---------------------------
(***************************************************************************)
(* The Stripe event ledger: how an event that Stripe delivers becomes a    *)
(* row of stripe_processed_events, a queue job, and a settled row.         *)
(*                                                                         *)
(*   controllers/stripe_webhook_controller.ts   requests (insert, re-read, *)
(*                                              dispatch, response)        *)
(*   jobs/process_stripe_event_job.ts           jobs, one await per step   *)
(*   commands/billing_replay.ts                 the operator's replay      *)
(*   jobs/billing_cleanup_job.ts                retention of ledger rows   *)
(*                                                                         *)
(* What the handlers do to the tenant is left to SubscriptionSync: here a  *)
(* handler only succeeds, fails for good, or fails in a way worth a retry. *)
(* A model row keeps `attempts' as attempts = 0 or attempts > 0, which is  *)
(* all the controller asks of it, and leaves out last_error.               *)
(***************************************************************************)
EXTENDS Naturals, FiniteSets

CONSTANTS
    Events,         \* Stripe event ids
    Requests,       \* webhook requests the web servers can have in flight
    Jobs,           \* job slots: queued and running jobs together
    Concurrency,    \* jobs the workers run at once
    MaxAttempts,    \* executions the queue grants one dispatched job
    MaxDeliveries,  \* bound: deliveries of one event by Stripe
    MaxReplays,     \* bound: replay commands
    OldReplays,     \* whether operators replay events past the retention window
    MaxFaults,      \* bound: crashes, refused calls and lost answers
    NoEvent         \* the event of an idle request or a free job slot

ASSUME LedgerAssumption ==
    /\ NoEvent \notin Events
    /\ MaxAttempts \in Nat \ {0}
    /\ OldReplays \in BOOLEAN
    /\ IsFiniteSet(Jobs)
    /\ {Concurrency, MaxDeliveries, MaxReplays, MaxFaults} \subseteq Nat

VARIABLES
    ledger,      \* stripe_processed_events, per event
    req,         \* webhook requests in flight
    job,         \* ProcessStripeEventJob instances in the queue or running
    replay,      \* tenant:billing:replay, per event it works on
    doomed,      \* ids the cleanup has selected and not yet deleted
    expired,     \* events older than the retention window
    acked,       \* events Stripe got a 200 for
    deliveries,  \* deliveries per event
    stranded,    \* events whose replay dispatch or failed() hook was lost
    announced,   \* events dead-lettered since a replay last reset their row
    replays,     \* replay commands so far
    faults       \* faults so far

tables  == <<ledger, doomed, expired>>
history == <<acked, stranded, announced>>
bounds  == <<deliveries, replays, faults>>
vars    == <<tables, req, job, replay, history, bounds>>

Status == {"pending", "completed", "failed"}
RowStatus == Status \cup {"none"}

\* Where an execution stands; the first group holds the row it has read.
HoldsRow == {"bump", "run", "fatal", "complete", "mark", "giveUp"}
Active   == HoldsRow \cup {"exhausted", "deadLetter"}

Row == [status : RowStatus, touched : BOOLEAN]

IdleRequest == [pc |-> "idle", ev |-> NoEvent]
Request == [pc : {"reread", "dispatch", "respond"}, ev : Events]

FreeJob == [pc |-> "free", ev |-> NoEvent, tries |-> 0, seen |-> "none"]
Job == [pc : {"queued"} \cup Active, ev : Events,
        tries : 0 .. MaxAttempts - 1, seen : RowStatus]

IdleReplay == [pc |-> "idle", seen |-> "none"]

TypeOK ==
    /\ ledger \in [Events -> Row]
    /\ req \in [Requests -> Request \cup {IdleRequest}]
    /\ job \in [Jobs -> Job \cup {FreeJob}]
    /\ replay \in [Events -> [pc : {"idle", "found", "saved"}, seen : RowStatus]]
    /\ /\ doomed \subseteq Events
       /\ expired \subseteq Events
       /\ acked \subseteq Events
       /\ stranded \subseteq Events
       /\ announced \subseteq Events
    /\ deliveries \in [Events -> 0 .. MaxDeliveries]
    /\ replays \in 0 .. MaxReplays
    /\ faults \in 0 .. MaxFaults

Init ==
    /\ ledger = [e \in Events |-> [status |-> "none", touched |-> FALSE]]
    /\ req = [r \in Requests |-> IdleRequest]
    /\ job = [j \in Jobs |-> FreeJob]
    /\ replay = [e \in Events |-> IdleReplay]
    /\ doomed = {} /\ expired = {}
    /\ acked = {} /\ stranded = {} /\ announced = {}
    /\ deliveries = [e \in Events |-> 0]
    /\ replays = 0 /\ faults = 0

-----------------------------------------------------------------------------
(* Helpers shared by the three clients of the queue and the table *)

\* A crash, a refused or failed call, a lost answer: one unit of the budget.
Fault == faults < MaxFaults /\ faults' = faults + 1

\* ProcessStripeEventJob.dispatch({eventId}): a new job in a free slot.
Enqueue(e, j) ==
    /\ job[j].pc = "free"
    /\ job' = [job EXCEPT ![j] =
                 [pc |-> "queued", ev |-> e, tries |-> 0, seen |-> "none"]]
    /\ stranded' = stranded \ {e}

\* An UPDATE of the status column; on a deleted row it changes nothing.
SetStatus(e, s) ==
    ledger' = IF ledger[e].status = "none"
              THEN ledger
              ELSE [ledger EXCEPT ![e].status = s]

\* row.save() writes the columns that differ from the row as it was read.
SaveStatus(e, seen, s) ==
    IF seen = s THEN UNCHANGED ledger ELSE SetStatus(e, s)

-----------------------------------------------------------------------------
(* StripeWebhookController.handle *)

\* Stripe delivers e (again): INSERT ... ON CONFLICT (event_id) DO NOTHING.
\* Stripe stops retrying long before the retention window has passed.
Deliver(r, e) ==
    /\ req[r].pc = "idle"
    /\ deliveries[e] < MaxDeliveries
    /\ e \notin expired
    /\ deliveries' = [deliveries EXCEPT ![e] = @ + 1]
    /\ IF ledger[e].status = "none"
       THEN /\ ledger' = [ledger EXCEPT ![e] = [status |-> "pending", touched |-> FALSE]]
            /\ req' = [req EXCEPT ![r] = [pc |-> "dispatch", ev |-> e]]
       ELSE /\ req' = [req EXCEPT ![r] = [pc |-> "reread", ev |-> e]]
            /\ UNCHANGED ledger
    /\ UNCHANGED <<doomed, expired, job, replay, history, replays, faults>>

\* A controller that takes every duplicate for one already handed over (a mutant).
AckEveryDuplicate(e) == FALSE

\* The row says that the first dispatch never reached a worker.
NeverDispatched(e) == ledger[e].status = "pending" /\ ~ledger[e].touched

\* The duplicate's second query decides between a new dispatch and a plain ack.
Reread(r) ==
    /\ req[r].pc = "reread"
    /\ req' = [req EXCEPT ![r] = [@ EXCEPT !.pc =
                 IF NeverDispatched(req[r].ev) THEN "dispatch" ELSE "respond"]]
    /\ UNCHANGED <<tables, job, replay, history, bounds>>

Dispatch(r, j) ==
    /\ req[r].pc = "dispatch"
    /\ Enqueue(req[r].ev, j)
    /\ req' = [req EXCEPT ![r] = [@ EXCEPT !.pc = "respond"]]
    /\ UNCHANGED <<tables, replay, acked, announced, bounds>>

\* The queue refuses (503), or the server dies before it dispatches.
DispatchRefused(r) ==
    /\ req[r].pc = "dispatch"
    /\ Fault
    /\ req' = [req EXCEPT ![r] = IdleRequest]
    /\ UNCHANGED <<tables, job, replay, history, deliveries, replays>>

Respond(r) ==
    /\ req[r].pc = "respond"
    /\ acked' = acked \cup {req[r].ev}
    /\ req' = [req EXCEPT ![r] = IdleRequest]
    /\ UNCHANGED <<tables, job, replay, stranded, announced, bounds>>

\* The 200 never reaches Stripe, which will deliver again.
ResponseLost(r) ==
    /\ req[r].pc = "respond"
    /\ Fault
    /\ req' = [req EXCEPT ![r] = IdleRequest]
    /\ UNCHANGED <<tables, job, replay, history, deliveries, replays>>

-----------------------------------------------------------------------------
(* ProcessStripeEventJob.execute and failed, one await at a time *)

At(j, pc) == job[j].pc = pc

Goto(j, pc) ==
    job' = [job EXCEPT ![j] =
              [@ EXCEPT !.pc = pc,
                        !.seen = IF pc \in HoldsRow THEN job[j].seen ELSE "none"]]

Finish(j) == job' = [job EXCEPT ![j] = FreeJob]

\* A queue that forgets to count, and one that counts one try too many (mutants).
RetryForever(j) ==
    job' = [job EXCEPT ![j] = [@ EXCEPT !.pc = "queued", !.seen = "none"]]

OneTryTooMany(j) ==
    job' = [job EXCEPT ![j] =
              IF job[j].tries < MaxAttempts
              THEN [@ EXCEPT !.pc = "queued", !.tries = job[j].tries + 1,
                             !.seen = "none"]
              ELSE [@ EXCEPT !.pc = "exhausted", !.seen = "none"]]

\* execute() throws: the queue retries, and calls failed() after the last try.
Throw(j) ==
    job' = [job EXCEPT ![j] =
              IF job[j].tries + 1 < MaxAttempts
              THEN [@ EXCEPT !.pc = "queued", !.tries = job[j].tries + 1,
                             !.seen = "none"]
              ELSE [@ EXCEPT !.pc = "exhausted", !.seen = "none"]]

WorkerFree == Cardinality({k \in Jobs : job[k].pc \in Active}) < Concurrency

\* A job that does not ask whether the event is completed (a mutant).
SkipsOnlyMissing(status) == status = "none"

\* find(eventId): no row, or one already completed, ends the job.
Skips(status) == status \in {"none", "completed"}

Skip(j) ==
    /\ At(j, "queued") /\ WorkerFree
    /\ Skips(ledger[job[j].ev].status)
    /\ Finish(j)
    /\ UNCHANGED <<tables, req, replay, history, bounds>>

Start(j) ==
    /\ At(j, "queued") /\ WorkerFree
    /\ LET seen == ledger[job[j].ev].status
       IN  /\ ~Skips(seen)
           /\ job' = [job EXCEPT ![j] = [@ EXCEPT !.pc = "bump", !.seen = seen]]
    /\ UNCHANGED <<tables, req, replay, history, bounds>>

\* row.attempts + 1, saved.
Bump(j) ==
    /\ At(j, "bump")
    /\ ledger' = IF ledger[job[j].ev].status = "none" THEN ledger
                 ELSE [ledger EXCEPT ![job[j].ev].touched = TRUE]
    /\ Goto(j, "run")
    /\ UNCHANGED <<doomed, expired, req, replay, history, bounds>>

\* retrieveEvent and the event's handler: done, a fatal BillingException, or
\* anything else, for which #markFailed notes the error and the job throws.
HandlerSucceeds(j) ==
    /\ At(j, "run") /\ Goto(j, "complete")
    /\ UNCHANGED <<tables, req, replay, history, bounds>>

HandlerFatal(j) ==
    /\ At(j, "run") /\ Goto(j, "fatal")
    /\ UNCHANGED <<tables, req, replay, history, bounds>>

HandlerRetryable(j) ==
    /\ At(j, "run") /\ Throw(j)
    /\ UNCHANGED <<tables, req, replay, history, bounds>>

Complete(j) ==
    /\ At(j, "complete")
    /\ SaveStatus(job[j].ev, job[j].seen, "completed")
    /\ Finish(j)
    /\ UNCHANGED <<doomed, expired, req, replay, history, bounds>>

\* The save fails inside the try: the row in memory stays `completed' and
\* #markFailed saves it again, with the error, before the job throws.
CompleteFails(j) ==
    /\ At(j, "complete")
    /\ Fault
    /\ Goto(j, "mark")
    /\ UNCHANGED <<tables, req, replay, history, deliveries, replays>>

Mark(j) ==
    /\ At(j, "mark")
    /\ SaveStatus(job[j].ev, job[j].seen, "completed")
    /\ Throw(j)
    /\ UNCHANGED <<doomed, expired, req, replay, history, bounds>>

\* #shortCircuitIfFatal saves `failed' without reading the row again.
Fatal(j) ==
    /\ At(j, "fatal")
    /\ SaveStatus(job[j].ev, job[j].seen, "failed")
    /\ Goto(j, "deadLetter")
    /\ UNCHANGED <<doomed, expired, req, replay, history, bounds>>

\* failed(): read the row again, give it up unless completed, dead-letter.
Exhausted(j) ==
    /\ At(j, "exhausted")
    /\ LET seen == ledger[job[j].ev].status
       IN  job' = [job EXCEPT ![j] =
                     IF Skips(seen) THEN [@ EXCEPT !.pc = "deadLetter"]
                     ELSE [@ EXCEPT !.pc = "giveUp", !.seen = seen]]
    /\ UNCHANGED <<tables, req, replay, history, bounds>>

\* A hook that stops once the row is saved (a mutant).
GiveUpSilently(j) ==
    /\ At(j, "giveUp")
    /\ SaveStatus(job[j].ev, job[j].seen, "failed")
    /\ Finish(j)
    /\ UNCHANGED <<doomed, expired, req, replay, history, bounds>>

GiveUp(j) ==
    /\ At(j, "giveUp")
    /\ SaveStatus(job[j].ev, job[j].seen, "failed")
    /\ Goto(j, "deadLetter")
    /\ UNCHANGED <<doomed, expired, req, replay, history, bounds>>

DeadLetter(j) ==
    /\ At(j, "deadLetter")
    /\ announced' = announced \cup {job[j].ev}
    /\ Finish(j)
    /\ UNCHANGED <<tables, req, replay, acked, stranded, bounds>>

\* An error inside failed(), or in emitting the dead letter, is only logged.
HookFails(j) ==
    /\ job[j].pc \in {"exhausted", "giveUp", "deadLetter"}
    /\ Fault
    /\ stranded' = stranded \cup {job[j].ev}
    /\ Finish(j)
    /\ UNCHANGED <<tables, req, replay, acked, announced, deliveries, replays>>

\* Any other query of execute() fails and the job throws.
DatabaseFails(j) ==
    /\ \/ At(j, "queued") /\ WorkerFree
       \/ job[j].pc \in {"bump", "mark", "fatal"}
    /\ Fault
    /\ Throw(j)
    /\ UNCHANGED <<tables, req, replay, history, deliveries, replays>>

\* A worker dies; the queue finds the stalled job and hands it out again.
Crash(j) ==
    /\ job[j].pc \in Active
    /\ Fault
    /\ Goto(j, "queued")
    /\ UNCHANGED <<tables, req, replay, history, deliveries, replays>>

-----------------------------------------------------------------------------
(* tenant:billing:replay and the cleanup *)

\* --event-id takes an event in any state, --all-failed the failed ones.
ReplayFind(e) ==
    /\ replay[e].pc = "idle"
    /\ ledger[e].status # "none"
    /\ e \in expired => OldReplays
    /\ replays < MaxReplays
    /\ replays' = replays + 1
    /\ replay' = [replay EXCEPT ![e] = [pc |-> "found", seen |-> ledger[e].status]]
    /\ UNCHANGED <<tables, req, job, history, deliveries, faults>>

ReplaySave(e) ==
    /\ replay[e].pc = "found"
    /\ SaveStatus(e, replay[e].seen, "pending")
    /\ replay' = [replay EXCEPT ![e] = [pc |-> "saved", seen |-> "none"]]
    /\ announced' = IF ledger' = ledger THEN announced ELSE announced \ {e}
    /\ UNCHANGED <<doomed, expired, req, job, acked, stranded, bounds>>

ReplayDispatch(e, j) ==
    /\ replay[e].pc = "saved"
    /\ Enqueue(e, j)
    /\ replay' = [replay EXCEPT ![e] = IdleReplay]
    /\ UNCHANGED <<tables, req, acked, announced, bounds>>

\* The queue refuses, which the command only logs, or the command dies.
ReplayDispatchFails(e) ==
    /\ replay[e].pc = "saved"
    /\ Fault
    /\ replay' = [replay EXCEPT ![e] = IdleReplay]
    /\ stranded' = stranded \cup {e}
    /\ UNCHANGED <<tables, req, job, acked, announced, deliveries, replays>>

\* processed_at passes the cutoff; the deliveries of that time are long over.
Expire(e) ==
    /\ ledger[e].status # "none"
    /\ e \notin expired
    /\ \A r \in Requests : req[r].ev # e
    /\ replay[e].pc # "idle" => OldReplays
    /\ expired' = expired \cup {e}
    /\ UNCHANGED <<ledger, doomed, req, job, replay, history, bounds>>

\* A batch: the ids of old completed rows, then a delete by id.
CleanupSelect ==
    /\ doomed = {}
    /\ doomed' = {e \in expired : ledger[e].status = "completed"}
    /\ doomed' # {}
    /\ UNCHANGED <<ledger, expired, req, job, replay, history, bounds>>

CleanupDelete ==
    /\ doomed # {}
    /\ ledger' = [e \in Events |->
                    IF e \in doomed THEN [status |-> "none", touched |-> FALSE]
                    ELSE ledger[e]]
    /\ doomed' = {}
    /\ UNCHANGED <<expired, req, job, replay, history, bounds>>

-----------------------------------------------------------------------------
\* Everything has come to rest: no request, job, replay or batch is under way.
Rest ==
    /\ \A r \in Requests : req[r].pc = "idle"
    /\ \A j \in Jobs : job[j].pc = "free"
    /\ \A e \in Events : replay[e].pc = "idle"
    /\ doomed = {}
    /\ UNCHANGED vars

RequestStep(r) ==
    \/ Reread(r) \/ Respond(r)
    \/ \E j \in Jobs : Dispatch(r, j)

JobStep(j) ==
    \/ Skip(j) \/ Start(j) \/ Bump(j)
    \/ HandlerSucceeds(j) \/ HandlerFatal(j) \/ HandlerRetryable(j)
    \/ Complete(j) \/ Mark(j) \/ Fatal(j)
    \/ Exhausted(j) \/ GiveUp(j) \/ DeadLetter(j)

JobFault(j) ==
    CompleteFails(j) \/ HookFails(j) \/ DatabaseFails(j) \/ Crash(j)

ReplayStep(e) ==
    ReplaySave(e) \/ \E j \in Jobs : ReplayDispatch(e, j)

Next ==
    \/ \E r \in Requests : \/ \E e \in Events : Deliver(r, e)
                           \/ RequestStep(r)
                           \/ DispatchRefused(r)
                           \/ ResponseLost(r)
    \/ \E j \in Jobs : JobStep(j) \/ JobFault(j)
    \/ \E e \in Events : \/ ReplayFind(e) \/ ReplayStep(e)
                         \/ ReplayDispatchFails(e)
                         \/ Expire(e)
    \/ CleanupSelect \/ CleanupDelete
    \/ Rest

Spec == Init /\ [][Next]_vars

\* Workers keep taking and running jobs; a replay command runs to its end.
Fairness ==
    /\ \A j \in Jobs : WF_vars(JobStep(j))
    /\ \A e \in Events : WF_vars(ReplayStep(e))

FairSpec == Spec /\ Fairness

-----------------------------------------------------------------------------
(* Properties *)

\* A job that will still settle the row of e: it has yet to read the row, or it
\* has read it as pending, so what it saves in the end is not lost to a stale
\* comparison.
Owner(j, e) ==
    /\ job[j].ev = e
    /\ \/ job[j].pc \in {"queued", "exhausted"}
       \/ job[j].pc \in HoldsRow /\ job[j].seen = "pending"

Owned(e) == replay[e].pc = "saved" \/ \E j \in Jobs : Owner(j, e)

\* Stripe stops delivering an event once it has its 200, so from then on a
\* pending row needs a job of ours, queued or running, or a replay about to
\* dispatch one. The exceptions are what an operator was told of: a replay whose
\* dispatch failed, or a failed() hook that failed itself.
AckedPendingIsOwned ==
    \A e \in acked : ledger[e].status = "pending" => Owned(e) \/ e \in stranded

\* An event that is given up is dead-lettered (the paging integrations hang on
\* it), or a job for it is still there to do so; only an error in emitting the
\* dead letter itself may lose it.
FailedIsAnnounced ==
    \A e \in Events :
        ledger[e].status = "failed" =>
            \/ e \in announced \cup stranded
            \/ \E j \in Jobs : job[j].pc # "free" /\ job[j].ev = e

\* Whatever the crashes, refusals and races, an event that Stripe was told we
\* have is in the end completed, failed or pruned, unless it was stranded.
AckedSettles ==
    \A e \in Events :
        e \in acked ~> (ledger[e].status # "pending" \/ e \in stranded)

\* The ledger as the life of each event.
LifeOf(status) ==
    CASE status = "none"      -> "unknown"
      [] status = "pending"   -> "accepted"
      [] status = "completed" -> "done"
      [] status = "failed"    -> "givenUp"

Life == INSTANCE EventLifecycle WITH state <- [e \in Events |-> LifeOf(ledger[e].status)]

\* Row by row the ledger goes through the life of an event: in particular a job
\* never takes a completed event back, and the cleanup deletes completed rows only.
ImplementsLifecycle == Life!Spec

\* Comment in the webhook controller: dispatching a duplicate is safe, "the
\* worker is idempotent on status='completed' rows": only a replay or the cleanup
\* takes an event out of `completed'.
CompletedIsFinal ==
    [][\A e \in Events :
         ledger[e].status = "completed" /\ ledger'[e].status # "completed" =>
            replay[e].pc = "found" \/ e \in doomed]_vars

-----------------------------------------------------------------------------
(* The inductive invariant behind AckedPendingIsOwned *)

\* Something was done about e beyond inserting its row.
HandedOver(e) ==
    \/ ledger[e].touched
    \/ e \in acked
    \/ \E r \in Requests : req[r].pc = "respond" /\ req[r].ev = e
    \/ \E j \in Jobs : job[j].ev = e

\* From that moment on, and not only from the ack, a pending row has its job.
PendingIsOwned ==
    \A e \in Events :
        ledger[e].status = "pending" /\ HandedOver(e) => Owned(e) \/ e \in stranded

\* Nobody works on an event that has no row yet; one whose row was pruned is
\* past its retention, and then no request carries it any more.
NothingBeforeTheRow ==
    \A e \in Events :
        ledger[e].status = "none" /\ e \notin expired =>
            /\ ~HandedOver(e)
            /\ replay[e].pc = "idle"

RequestsHaveRows ==
    \A r \in Requests : req[r].ev \in Events =>
        /\ req[r].ev \notin expired
        /\ ledger[req[r].ev].status # "none"

DoomedAreExpired == doomed \subseteq expired

Handover ==
    /\ TypeOK
    /\ PendingIsOwned
    /\ NothingBeforeTheRow
    /\ RequestsHaveRows
    /\ DoomedAreExpired

=============================================================================
