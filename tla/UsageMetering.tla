--------------------------- MODULE UsageMetering ---------------------------
(***************************************************************************)
(* Metered usage of one tenant on one meter, from the QuotaTracked event   *)
(* to Stripe. Tenants and meters share no bucket, key or row.              *)
(*                                                                         *)
(*   listeners/usage_auto_bridge_listener.ts   buckets in the memory of    *)
(*                                             each server, flushed by a   *)
(*                                             timer or at shutdown        *)
(*   jobs/report_usage_batch_job.ts            one job per flushed bucket  *)
(*   services/billing_service.ts, reportUsage  audit row, Stripe, audit    *)
(*                                                                         *)
(* The quantity of a batch is the set of the uses in it, so that a use can *)
(* be followed; a batch is named by that set. The idempotency key is       *)
(* tenant, meter and minute: here, the minute. Retention of sent rows,     *)
(* which is days after the last retry, is left out.                        *)
(***************************************************************************)
EXTENDS Naturals, Sequences, FiniteSets

CONSTANTS
    Processes,      \* servers that track uses
    Concurrency,    \* jobs the workers run at once
    MaxAttempts,    \* executions the queue grants one dispatched job
    MaxUses,        \* bound: uses of the quota
    LastMinute,     \* bound: minutes of the clock
    MaxFaults       \* bound: crashes, refused calls and lost answers

ASSUME UsageAssumption ==
    /\ MaxAttempts \in Nat \ {0}
    /\ {Concurrency, MaxUses, LastMinute, MaxFaults} \subseteq Nat

VARIABLES
    minute,    \* the clock, in the buckets of the idempotency key
    tenant,    \* whether the tenant exists and has a Stripe customer
    used,      \* uses tracked so far: the uses 1 .. used
    bucket,    \* per process, the pending quantity of the listener
    sending,   \* per process, batches it has taken and is dispatching
    job,       \* per batch, its ReportUsageBatchJob
    row,       \* stripe_meter_events, per key
    order,     \* keys of these rows by created_at
    meter,     \* what Stripe has counted under each key
    lost,      \* uses lost with a process or a refused dispatch
    faults     \* faults so far

memory == <<used, bucket, sending, lost>>
audit  == <<row, order>>
vars   == <<minute, tenant, memory, job, audit, meter, faults>>

Uses    == 1 .. MaxUses
Minutes == 0 .. LastMinute
Batches == (SUBSET Uses) \ {{}}

RowStatus == {"none", "pending", "sent", "failed"}

\* Where a job stands; the Active ones occupy a worker.
Active == {"lookup", "insert", "call", "saveSent", "saveFailed", "exhausted", "giveUp"}
Ended  == {"done", "dropped", "dead"}

\* minute: the key of this execution (in giveUp, of the row it has selected);
\* seen: the status of the audit row in memory as it was read.
Job == [pc : {"none", "queued"} \cup Active \cup Ended,
        tries : 0 .. MaxAttempts - 1, minute : Minutes, seen : RowStatus]

NoJob == [pc |-> "none", tries |-> 0, minute |-> 0, seen |-> "none"]

TypeOK ==
    /\ minute \in Minutes
    /\ tenant \in {"linked", "unlinked", "gone"}
    /\ used \in 0 .. MaxUses
    /\ bucket \in [Processes -> SUBSET Uses]
    /\ sending \in [Processes -> SUBSET Batches]
    /\ job \in [Batches -> Job]
    /\ row \in [Minutes -> [status : RowStatus, of : SUBSET Uses]]
    /\ order \in Seq(Minutes)
    /\ meter \in [Minutes -> SUBSET Uses]
    /\ lost \subseteq Uses
    /\ faults \in 0 .. MaxFaults

Init ==
    /\ minute = 0 /\ tenant = "linked" /\ used = 0
    /\ bucket = [p \in Processes |-> {}]
    /\ sending = [p \in Processes |-> {}]
    /\ job = [B \in Batches |-> NoJob]
    /\ row = [m \in Minutes |-> [status |-> "none", of |-> {}]]
    /\ order = <<>>
    /\ meter = [m \in Minutes |-> {}]
    /\ lost = {} /\ faults = 0

\* A crash, a refused or failed call, a lost answer: one unit of the budget.
Fault == faults < MaxFaults /\ faults' = faults + 1

-----------------------------------------------------------------------------
(* UsageAutoBridgeListener *)

\* QuotaTracked of one more use reaches the listener: it joins the bucket, and
\* the first of a bucket sets its timer.
Track(p) ==
    /\ used < MaxUses
    /\ used' = used + 1
    /\ bucket' = [bucket EXCEPT ![p] = @ \cup {used + 1}]
    /\ UNCHANGED <<minute, tenant, sending, lost, job, audit, meter, faults>>

\* A flush that leaves the bucket in place until the dispatch is done (a mutant).
FlushKeepsBucket(p) ==
    /\ bucket[p] # {}
    /\ sending' = [sending EXCEPT ![p] = @ \cup {bucket[p]}]
    /\ UNCHANGED <<minute, tenant, used, bucket, lost, job, audit, meter, faults>>

\* The timer, or drainAll at shutdown: the bucket is taken before the dispatch
\* is awaited, so that uses tracked meanwhile start a bucket of their own.
Flush(p) ==
    /\ bucket[p] # {}
    /\ sending' = [sending EXCEPT ![p] = @ \cup {bucket[p]}]
    /\ bucket' = [bucket EXCEPT ![p] = {}]
    /\ UNCHANGED <<minute, tenant, used, lost, job, audit, meter, faults>>

Dispatch(p, B) ==
    /\ B \in sending[p]
    /\ sending' = [sending EXCEPT ![p] = @ \ {B}]
    /\ job' = [job EXCEPT ![B].pc = "queued"]
    /\ UNCHANGED <<minute, tenant, used, bucket, lost, audit, meter, faults>>

\* The queue refuses the job: logged, and the batch dropped.
DispatchRefused(p, B) ==
    /\ B \in sending[p]
    /\ Fault
    /\ sending' = [sending EXCEPT ![p] = @ \ {B}]
    /\ lost' = lost \cup B
    /\ UNCHANGED <<minute, tenant, used, bucket, job, audit, meter>>

\* The server dies with its buckets and its dispatches.
ProcessDies(p) ==
    /\ bucket[p] # {} \/ sending[p] # {}
    /\ Fault
    /\ lost' = lost \cup bucket[p] \cup UNION sending[p]
    /\ bucket' = [bucket EXCEPT ![p] = {}]
    /\ sending' = [sending EXCEPT ![p] = {}]
    /\ UNCHANGED <<minute, tenant, used, job, audit, meter>>

-----------------------------------------------------------------------------
(* ReportUsageBatchJob.execute, reportUsage and failed, one await at a time *)

At(B, pc) == job[B].pc = pc

Goto(B, pc) == job' = [job EXCEPT ![B].pc = pc]

\* A queue that forgets to count the tries, and one that grants one too many
\* (mutants).
RetryForever(B) ==
    job' = [job EXCEPT ![B] = [@ EXCEPT !.pc = "queued", !.seen = "none"]]

OneTryTooMany(B) ==
    job' = [job EXCEPT ![B] =
              IF job[B].tries < MaxAttempts
              THEN [@ EXCEPT !.pc = "queued", !.tries = job[B].tries + 1, !.seen = "none"]
              ELSE [@ EXCEPT !.pc = "exhausted", !.seen = "none"]]

\* The job throws: the queue retries, and calls failed() after the last try.
Throw(B) ==
    job' = [job EXCEPT ![B] =
              IF job[B].tries + 1 < MaxAttempts
              THEN [@ EXCEPT !.pc = "queued", !.tries = job[B].tries + 1, !.seen = "none"]
              ELSE [@ EXCEPT !.pc = "exhausted", !.seen = "none"]]

WorkerFree == Cardinality({B \in Batches : job[B].pc \in Active}) < Concurrency

\* The tenant is looked up, and the key is made of the minute it is now; then
\* its customer is. Without a tenant the batch is dropped, without a customer
\* the job throws.
Start(B) ==
    /\ At(B, "queued") /\ WorkerFree
    /\ \/ tenant = "gone" /\ Goto(B, "dropped")
       \/ tenant = "unlinked" /\ Throw(B)
       \/ /\ tenant = "linked"
          /\ job' = [job EXCEPT ![B] = [@ EXCEPT !.pc = "lookup", !.minute = minute]]
    /\ UNCHANGED <<minute, tenant, memory, audit, meter, faults>>

\* A report that takes any row for a sent one, and one that leaves the insert
\* for after the call (mutants).
SkipAnyRow(B) ==
    Goto(B, IF row[job[B].minute].status = "none" THEN "insert" ELSE "done")

CallBeforeInsert(B) ==
    Goto(B, IF row[job[B].minute].status = "sent" THEN "done" ELSE "call")

\* What the job does with the row of its key: nothing more if it was sent,
\* insert one if there is none, else go on with the one there is.
FollowRow(B) ==
    LET seen == row[job[B].minute].status
    IN  job' = [job EXCEPT ![B] =
                  [@ EXCEPT !.pc = CASE seen = "sent" -> "done"
                                     [] seen = "none" -> "insert"
                                     [] OTHER -> "call",
                            !.seen = IF seen = "sent" THEN "none" ELSE seen]]

Lookup(B) ==
    /\ At(B, "lookup")
    /\ FollowRow(B)
    /\ UNCHANGED <<minute, tenant, memory, audit, meter, faults>>

Insert(B) ==
    /\ At(B, "insert")
    /\ row[job[B].minute].status = "none"
    /\ row' = [row EXCEPT ![job[B].minute] = [status |-> "pending", of |-> B]]
    /\ order' = Append(order, job[B].minute)
    /\ job' = [job EXCEPT ![B] = [@ EXCEPT !.pc = "call", !.seen = "pending"]]
    /\ UNCHANGED <<minute, tenant, memory, meter, faults>>

\* UNIQUE(idempotency_key): another job was first, and its row is read.
InsertLoses(B) ==
    /\ At(B, "insert")
    /\ row[job[B].minute].status # "none"
    /\ FollowRow(B)
    /\ UNCHANGED <<minute, tenant, memory, audit, meter, faults>>

\* What Stripe answers is remembered under the key: the first request is
\* counted; a later one is absorbed, or refused as having other parameters
\* (another quantity, or the timestamp of another second).
Counted(B) ==
    /\ At(B, "call")
    /\ meter[job[B].minute] = {}
    /\ meter' = [meter EXCEPT ![job[B].minute] = B]
    /\ Goto(B, "saveSent")
    /\ UNCHANGED <<minute, tenant, memory, audit, faults>>

Repeated(B) ==
    /\ At(B, "call")
    /\ meter[job[B].minute] # {}
    /\ Goto(B, "saveSent") \/ Goto(B, "saveFailed")
    /\ UNCHANGED <<minute, tenant, memory, audit, meter, faults>>

\* Stripe fails, or its answer is lost after it has counted.
CallFails(B) ==
    /\ At(B, "call")
    /\ Fault
    /\ \/ UNCHANGED meter
       \/ meter[job[B].minute] = {} /\ meter' = [meter EXCEPT ![job[B].minute] = B]
    /\ Goto(B, "saveFailed")
    /\ UNCHANGED <<minute, tenant, memory, audit>>

SaveSent(B) ==
    /\ At(B, "saveSent")
    /\ row' = [row EXCEPT ![job[B].minute].status = "sent"]
    /\ job' = [job EXCEPT ![B] = [@ EXCEPT !.pc = "done", !.seen = "none"]]
    /\ UNCHANGED <<minute, tenant, memory, order, meter, faults>>

\* The save is inside the try: its error is handled as one of Stripe.
SaveSentFails(B) ==
    /\ At(B, "saveSent")
    /\ Fault
    /\ Goto(B, "saveFailed")
    /\ UNCHANGED <<minute, tenant, memory, audit, meter>>

\* save() writes the columns that differ from the row as it was read.
SaveFailed(B) ==
    /\ At(B, "saveFailed")
    /\ row' = IF job[B].seen = "failed" THEN row
              ELSE [row EXCEPT ![job[B].minute].status = "failed"]
    /\ Throw(B)
    /\ UNCHANGED <<minute, tenant, memory, order, meter, faults>>

\* An error of that save is swallowed.
SaveFailedFails(B) ==
    /\ At(B, "saveFailed")
    /\ Fault
    /\ Throw(B)
    /\ UNCHANGED <<minute, tenant, memory, audit, meter>>

\* failed(): the latest row of the tenant and meter that is pending, if any.
Exhausted(B) ==
    /\ At(B, "exhausted")
    /\ LET pending == {i \in DOMAIN order : row[order[i]].status = "pending"}
       IN  \/ pending = {} /\ Goto(B, "dead")
           \/ \E i \in pending :
                /\ \A k \in pending : k <= i
                /\ job' = [job EXCEPT ![B] =
                             [@ EXCEPT !.pc = "giveUp", !.minute = order[i]]]
    /\ UNCHANGED <<minute, tenant, memory, audit, meter, faults>>

GiveUp(B) ==
    /\ At(B, "giveUp")
    /\ row' = [row EXCEPT ![job[B].minute].status = "failed"]
    /\ Goto(B, "dead")
    /\ UNCHANGED <<minute, tenant, memory, order, meter, faults>>

\* An error inside failed() is swallowed.
HookFails(B) ==
    /\ job[B].pc \in {"exhausted", "giveUp"}
    /\ Fault
    /\ Goto(B, "dead")
    /\ UNCHANGED <<minute, tenant, memory, audit, meter>>

\* A query fails and the job throws.
DatabaseFails(B) ==
    /\ \/ At(B, "queued") /\ WorkerFree
       \/ job[B].pc \in {"lookup", "insert"}
    /\ Fault
    /\ Throw(B)
    /\ UNCHANGED <<minute, tenant, memory, audit, meter>>

\* A worker dies; the queue finds the stalled job and hands it out again.
Crash(B) ==
    /\ job[B].pc \in Active
    /\ Fault
    /\ job' = [job EXCEPT ![B] = [@ EXCEPT !.pc = "queued", !.seen = "none"]]
    /\ UNCHANGED <<minute, tenant, memory, audit, meter>>

-----------------------------------------------------------------------------
(* The surroundings *)

NextMinute ==
    /\ minute < LastMinute
    /\ minute' = minute + 1
    /\ UNCHANGED <<tenant, memory, job, audit, meter, faults>>

\* The destroy hook deletes the customer mapping before the tenant goes.
Unlink ==
    /\ tenant = "linked"
    /\ tenant' = "unlinked"
    /\ UNCHANGED <<minute, memory, job, audit, meter, faults>>

\* The tenant is soft-deleted; with `preserve' its mapping is still there.
Destroy ==
    /\ tenant # "gone"
    /\ tenant' = "gone"
    /\ UNCHANGED <<minute, memory, job, audit, meter, faults>>

Server(p) ==
    \/ Track(p) \/ Flush(p) \/ ProcessDies(p)
    \/ \E B \in Batches : Dispatch(p, B) \/ DispatchRefused(p, B)

\* The steps a job takes when nothing goes wrong around it.
Progress(B) ==
    \/ Start(B) \/ Lookup(B) \/ Insert(B) \/ InsertLoses(B)
    \/ Counted(B) \/ Repeated(B) \/ SaveSent(B) \/ SaveFailed(B)
    \/ Exhausted(B) \/ GiveUp(B)

Trouble(B) ==
    \/ CallFails(B) \/ SaveSentFails(B) \/ SaveFailedFails(B)
    \/ HookFails(B) \/ DatabaseFails(B) \/ Crash(B)

Next ==
    \/ \E p \in Processes : Server(p)
    \/ \E B \in Batches : Progress(B) \/ Trouble(B)
    \/ NextMinute \/ Unlink \/ Destroy

Spec == Init /\ [][Next]_vars

\* Timers fire, dispatches return, and workers take jobs and go on with them.
Fairness ==
    /\ \A p \in Processes : WF_vars(Flush(p))
    /\ \A p \in Processes, B \in Batches : WF_vars(Dispatch(p, B))
    /\ \A B \in Batches : SF_vars(Start(B)) /\ WF_vars(Progress(B))

FairSpec == Spec /\ Fairness

-----------------------------------------------------------------------------
(* Properties *)

\* Where a use is: in a bucket, with a dispatch, in a job, or lost.
Places(u) ==
    {<<"bucket", p>> : p \in {q \in Processes : u \in bucket[q]}}
    \cup {<<"sending", x>> : x \in {y \in Processes \X Batches :
                                      y[2] \in sending[y[1]] /\ u \in y[2]}}
    \cup {<<"job", B>> : B \in {C \in Batches : u \in C /\ ~At(C, "none")}}
    \cup {<<"lost">> : x \in {u} \cap lost}

\* Tracking, flushing and dispatching hand every use on: none is forgotten and
\* none is in two batches, whatever is tracked while a dispatch is awaited and
\* whichever server dies (`losing buckets here would silently under-report').
UseIsInOnePlace == \A u \in 1 .. used : Cardinality(Places(u)) = 1

\* The audit row is there before Stripe counts: we never "report and lose
\* audit", with workers dying, racing inserts and failing saves.
CountedIsAudited == \A m \in Minutes : meter[m] # {} => row[m].status # "none"

\* A row says `sent', and a batch ends without an error, only once Stripe has
\* counted a batch under that key (not always this one: see the README).
SentIsCounted ==
    /\ \A m \in Minutes : row[m].status = "sent" => meter[m] # {}
    /\ \A B \in Batches : At(B, "done") => meter[job[B].minute] # {}

\* Retries and the idempotency key "make double-reports impossible": no use is
\* counted under two keys. (The key is of the minute of the execution.)
CountedOnce ==
    \A m, n \in Minutes : m # n => meter[m] \cap meter[n] = {}

\* No use stays in memory or in the queue: it is lost with its server or its
\* batch ends, counted, dropped with its tenant, or given up.
UsageSettles ==
    \A u \in Uses : used >= u ~>
        \/ u \in lost
        \/ \E B \in Batches : u \in B /\ job[B].pc \in Ended

=============================================================================
