-------------------------- MODULE WebhookDelivery --------------------------
(***************************************************************************)
(* services/webhook_service.ts: webhooks the tenants have registered, the  *)
(* deliveries made to them, and the retries of tenant:webhooks:retry, of   *)
(* which cron may start one before the last has ended.                     *)
(*                                                                         *)
(* A worker is whatever runs send(): a request that emits an event, a run  *)
(* of the retry command, or the admin's retry of one delivery. It works on *)
(* rows as it read them, and row.save() writes the columns it changed.     *)
(***************************************************************************)
EXTENDS Naturals, FiniteSets

CONSTANTS
    Deliveries,   \* deliveries of one tenant, all of one webhook
    Workers,      \* processes that send
    MaxAttempts,  \* MAX_ATTEMPTS
    Concurrency,  \* RETRY_CONCURRENCY
    MaxManual,    \* bound: retries by an admin
    MaxCrashes,   \* bound: processes that die
    MaxCount      \* bound: failures counted per delivery

DeliveryAssumption ==
    /\ {MaxAttempts, Concurrency} \subseteq Nat \ {0}
    /\ {MaxManual, MaxCrashes, MaxCount} \subseteq Nat
    /\ MaxAttempts <= MaxCount

VARIABLES
    hook,      \* the webhook: enabled, disabled or deleted
    delivery,  \* tenant_webhook_deliveries
    due,       \* retrying deliveries whose next_retry_at has passed
    broken,    \* deliveries send() throws for before it posts
    listed,    \* per worker: rows of this run it has not started
    sending,   \* per worker: rows whose send() is in progress
    acked,     \* deliveries the receiver has answered with 2xx
    failures,  \* per delivery: posts that were not
    manual,    \* retries by an admin so far
    crashes    \* processes that died so far

rows  == <<hook, delivery, due, broken>>
work  == <<listed, sending>>
seen  == <<acked, failures>>
bound == <<manual, crashes>>
deliveryVars  == <<rows, work, seen, bound>>

NoRow == [status |-> "none", attempt |-> 0]
Row   == [status : {"pending", "success", "failed", "retrying"}, attempt : 1 .. MaxAttempts]

\* A row in a worker's hands: as it was read.
Copy  == [id : Deliveries, row : Row]

DeliveryTypeOK ==
    /\ hook \in {"enabled", "disabled", "deleted"}
    /\ delivery \in [Deliveries -> Row \cup {NoRow}]
    /\ due \subseteq Deliveries /\ broken \subseteq Deliveries
    /\ listed \in [Workers -> SUBSET Copy]
    /\ sending \in [Workers -> SUBSET Copy]
    /\ acked \subseteq Deliveries
    /\ failures \in [Deliveries -> 0 .. MaxCount]
    /\ manual \in 0 .. MaxManual /\ crashes \in 0 .. MaxCrashes

\* A secret encrypted under another APP_KEY cannot be decrypted again.
DeliveryInit ==
    /\ hook = "enabled"
    /\ delivery = [d \in Deliveries |-> NoRow]
    /\ due = {}
    /\ broken \in {B \in SUBSET Deliveries : Cardinality(B) <= 1}
    /\ listed = [w \in Workers |-> {}] /\ sending = [w \in Workers |-> {}]
    /\ acked = {} /\ failures = [d \in Deliveries |-> 0]
    /\ manual = 0 /\ crashes = 0

WorkerIdle(w) == listed[w] = {} /\ sending[w] = {}

\* The worker's send() of a copy is over.
Done(w, c) == sending' = [sending EXCEPT ![w] = @ \ {c}]

-----------------------------------------------------------------------------
(* The webhook *)

Update(h) ==
    /\ hook \notin {h, "deleted"}
    /\ hook' = h
    /\ UNCHANGED <<delivery, due, broken, work, seen, bound>>

\* deleteWebhook: its deliveries go with it (ON DELETE CASCADE).
Delete ==
    /\ hook # "deleted"
    /\ hook' = "deleted"
    /\ delivery' = [d \in Deliveries |-> NoRow]
    /\ due' = {}
    /\ UNCHANGED <<broken, work, seen, bound>>

-----------------------------------------------------------------------------
(* Sending *)

\* dispatch and deliver: the row is created before the first post.
Dispatch(w, d) ==
    LET row == [status |-> "pending", attempt |-> 1]
    IN  /\ WorkerIdle(w)
        /\ hook = "enabled"
        /\ delivery[d] = NoRow /\ d \notin acked /\ failures[d] = 0
        /\ delivery' = [delivery EXCEPT ![d] = row]
        /\ sending' = [sending EXCEPT ![w] = {[id |-> d, row |-> row]}]
        /\ UNCHANGED <<hook, due, broken, listed, seen, bound>>

\* The admin's retry, of a delivery in whatever state it is.
RetryByHand(w, d) ==
    /\ WorkerIdle(w)
    /\ manual < MaxManual
    /\ manual' = manual + 1
    /\ delivery[d] # NoRow
    /\ sending' = [sending EXCEPT ![w] = {[id |-> d, row |-> delivery[d]]}]
    /\ UNCHANGED <<rows, listed, seen, crashes>>

\* processRetries: the due rows are read together, and claimed by nobody.
Lists(w) ==
    /\ WorkerIdle(w)
    /\ due # {}
    /\ listed' = [listed EXCEPT ![w] = {[id |-> d, row |-> delivery[d]] : d \in due}]
    /\ UNCHANGED <<rows, sending, seen, bound>>

\* mapConcurrent: the next slice starts when all of the last has ended.
StartsSlice(w) ==
    /\ sending[w] = {} /\ listed[w] # {}
    /\ \E slice \in SUBSET listed[w] :
          /\ slice # {}
          /\ Cardinality(slice) <= Concurrency
          /\ Cardinality(slice) = Concurrency \/ slice = listed[w]
          /\ sending' = [sending EXCEPT ![w] = slice]
          /\ listed' = [listed EXCEPT ![w] = @ \ slice]
    /\ UNCHANGED <<rows, seen, bound>>

\* An error before the post ends the run: the slices to come are not sent.
Throws(w, c) ==
    /\ c \in sending[w] /\ c.id \in broken
    /\ Done(w, c)
    /\ listed' = [listed EXCEPT ![w] = {}]
    /\ UNCHANGED <<rows, seen, bound>>

\* What save() makes of the row: a column that was not changed keeps what is there.
Saved(c, status, attempt) ==
    LET now == delivery[c.id]
    IN  IF now = NoRow THEN NoRow
        ELSE [status  |-> IF status = c.row.status THEN now.status ELSE status,
              attempt |-> IF attempt = c.row.attempt THEN now.attempt ELSE attempt]

Saves(c, status, attempt) ==
    delivery' = [delivery EXCEPT ![c.id] = Saved(c, status, attempt)]

Succeeds(w, c) ==
    /\ c \in sending[w] /\ c.id \notin broken
    /\ acked' = acked \cup {c.id}
    /\ Saves(c, "success", c.row.attempt)
    /\ Done(w, c)
    /\ UNCHANGED <<hook, due, broken, listed, failures, bound>>

\* Attempts that are counted from zero (a mutant).
StopsEarly(attempt) == attempt + 1 < MaxAttempts

\* Whether a failed post is tried again.
TriesAgain(attempt) == attempt < MaxAttempts

\* A status that is not 2xx, a timeout or a network error.
Fails(w, c) ==
    /\ c \in sending[w] /\ c.id \notin broken
    /\ failures' = [failures EXCEPT ![c.id] = IF @ < MaxCount THEN @ + 1 ELSE @]
    /\ IF TriesAgain(c.row.attempt)
       THEN Saves(c, "retrying", c.row.attempt + 1) /\ due' = due \ {c.id}
       ELSE Saves(c, "failed", c.row.attempt) /\ UNCHANGED due
    /\ Done(w, c)
    /\ UNCHANGED <<hook, broken, listed, acked, bound>>

Crashes(w) ==
    /\ ~WorkerIdle(w)
    /\ crashes < MaxCrashes
    /\ crashes' = crashes + 1
    /\ listed' = [listed EXCEPT ![w] = {}]
    /\ sending' = [sending EXCEPT ![w] = {}]
    /\ UNCHANGED <<rows, seen, manual>>

\* A backoff that never ends (a mutant).
NeverDue(d) == FALSE /\ UNCHANGED deliveryVars

\* backoffWithJitter has passed since the row was saved.
FallsDue(d) ==
    /\ delivery[d].status = "retrying" /\ d \notin due
    /\ due' = due \cup {d}
    /\ UNCHANGED <<hook, delivery, broken, work, seen, bound>>

-----------------------------------------------------------------------------
SendStep(w) ==
    \/ StartsSlice(w)
    \/ \E c \in sending[w] : Throws(w, c) \/ Succeeds(w, c) \/ Fails(w, c)

DeliveryNext ==
    \/ \E h \in {"enabled", "disabled"} : Update(h)
    \/ Delete
    \/ \E w \in Workers :
          \/ \E d \in Deliveries : Dispatch(w, d) \/ RetryByHand(w, d)
          \/ Lists(w) \/ SendStep(w) \/ Crashes(w)
    \/ \E d \in Deliveries : FallsDue(d)

DeliverySpec == DeliveryInit /\ [][DeliveryNext]_deliveryVars

-----------------------------------------------------------------------------
(* Properties *)

\* The status tells the truth: success only when the receiver has answered 2xx,
\* failed only after every attempt of the schedule was made, whatever the workers
\* that hold old copies of the row save over each other.
OutcomeIsTrue ==
    \A d \in Deliveries :
        /\ delivery[d].status = "success" => d \in acked
        /\ delivery[d].status = "failed" => failures[d] >= MaxAttempts \/ d \in acked

Retrying(d) == broken = {} /\ delivery[d].status = "retrying"
Settled(d) == broken # {} \/ delivery[d].status \in {"none", "success", "failed"}

\* A delivery that is being retried comes to an end: it is delivered, given up
\* after the last attempt, or gone with its webhook.
RetriesEnd == \A d \in Deliveries : Retrying(d) ~> Settled(d)

=============================================================================
