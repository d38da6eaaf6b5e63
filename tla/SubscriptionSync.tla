-------------------------- MODULE SubscriptionSync --------------------------
(***************************************************************************)
(* What the handlers of Stripe events do to a tenant: the local mirror of  *)
(* its subscriptions (stripe_subscriptions) and its plan (tenant_plans).   *)
(*                                                                         *)
(*   services/billing_service.ts            syncSubscription               *)
(*   services/billing/stripe_event_dispatcher.ts   the handlers            *)
(*   services/quota_service.ts              assignPlan                     *)
(*                                                                         *)
(* Stripe is external: it changes subscriptions and sends an event for     *)
(* each change, which the queue hands to the workers in any order, again   *)
(* after an error while attempts are left, and again on a replay. Handlers *)
(* are split at the awaits between which another handler can write: read,  *)
(* assign the plan, save.                                                  *)
(* One tenant with one Stripe customer; `trialing', `paused' and `unpaid'  *)
(* are handled as `active' is, and the events that write nothing are out.  *)
(***************************************************************************)
EXTENDS Naturals, FiniteSets

CONSTANTS
    SyncSubs,        \* Stripe subscriptions of the tenant's customer
    Products,        \* what Stripe sells
    Mapped,          \* the products config.billing.products maps to a plan
    BillingDefault,  \* config.billing.defaultPlan; a mapped product names its plan
    SyncWorkers,     \* handlers that run at the same time
    Tolerance,       \* the 5 seconds of the ordering guard
    Gap,             \* Stripe's clock between two events
    Invoices,        \* whether invoices change a subscription's status
    Downgrade,       \* whether dunning.action is 'downgrade'
    SyncAttempts,    \* attempts the queue grants a job
    MaxStripeClock,  \* bound: Stripe's clock
    MaxReplays,      \* bound: replays by the operator
    MaxSyncFaults    \* bound: failed queries

SyncAssumption ==
    /\ Mapped \subseteq Products
    /\ BillingDefault \notin Products
    /\ Invoices \in BOOLEAN /\ Downgrade \in BOOLEAN
    /\ {Tolerance, Gap, MaxStripeClock, MaxReplays, MaxSyncFaults} \subseteq Nat
    /\ Gap > 0 /\ SyncAttempts \in Nat \ {0}

VARIABLES
    clock,      \* Stripe's clock
    truth,      \* the subscriptions as Stripe has them
    sent,       \* events Stripe has sent
    done,       \* events whose handler ran to its end
    customer,   \* whether stripe_customers maps the customer to the tenant
    mirrored,   \* stripe_subscriptions
    planRow,    \* the tenant's row of tenant_plans
    worker,     \* handlers in progress
    spent,      \* <<event, n>>: the n-th attempt at the event threw
    replays,    \* replays so far
    syncFaults  \* failed queries so far

stripeState == <<clock, truth, sent>>
syncBounds  == <<spent, replays, syncFaults>>
syncVars    == <<stripeState, done, customer, mirrored, planRow, worker, syncBounds>>

Time == 0 .. MaxStripeClock
SyncPlans == Mapped \cup {BillingDefault}
SyncStatus == {"active", "past_due", "canceled"}
PlanSources == {"none", "stripe", "dunning"}

NoSub == [status |-> "none"]
NoSyncRow == [status |-> "none", planName |-> BillingDefault, lastEventAt |-> 0]
Subscription == [status : SyncStatus, product : Products]
SyncRow == [status : SyncStatus, planName : SyncPlans, lastEventAt : Time]

SyncEvent ==
    [kind : {"upsert", "deleted", "succeeded", "failed"}, sub : SyncSubs,
     status : SyncStatus, product : Products, at : Time]

Checkout == [kind |-> "checkout"]

Attempts == SUBSET ((SyncEvent \cup {Checkout}) \X (1 .. SyncAttempts))

SyncIdle == [pc |-> "idle"]
Busy == [pc : {"read", "assign", "save", "dunning"},
         ev : SyncEvent \cup {Checkout}, read : SyncRow \cup {NoSyncRow}]

SyncTypeOK ==
    /\ clock \in Time
    /\ truth \in [SyncSubs -> Subscription \cup {NoSub}]
    /\ sent \subseteq SyncEvent \cup {Checkout}
    /\ done \subseteq sent
    /\ customer \in BOOLEAN
    /\ mirrored \in [SyncSubs -> SyncRow \cup {NoSyncRow}]
    /\ planRow \in [name : SyncPlans, source : PlanSources]
    /\ worker \in [SyncWorkers -> Busy \cup {SyncIdle}]
    /\ spent \in Attempts
    /\ replays \in 0 .. MaxReplays
    /\ syncFaults \in 0 .. MaxSyncFaults

\* Usually ensureCustomer has mapped the customer before the checkout starts;
\* else the mapping comes with the event of the completed checkout.
SyncInit ==
    /\ clock = 0
    /\ truth = [s \in SyncSubs |-> NoSub]
    /\ customer \in BOOLEAN
    /\ sent = IF customer THEN {} ELSE {Checkout}
    /\ done = {}
    /\ mirrored = [s \in SyncSubs |-> NoSyncRow]
    /\ planRow = [name |-> BillingDefault, source |-> "none"]
    /\ worker = [w \in SyncWorkers |-> SyncIdle]
    /\ spent = {} /\ replays = 0 /\ syncFaults = 0

-----------------------------------------------------------------------------
(* Stripe *)

StripeChanges(s, kind, status, product) ==
    LET now == clock + Gap
    IN  /\ now \in Time
        /\ clock' = now
        /\ truth' = [truth EXCEPT ![s] = [status |-> status, product |-> product]]
        /\ sent' = sent \cup {[kind |-> kind, sub |-> s, status |-> status,
                               product |-> product, at |-> now]}
        /\ UNCHANGED <<done, customer, mirrored, planRow, worker, syncBounds>>

Updates(s, status, product) ==
    /\ truth[s].status # "canceled"
    /\ truth[s] # [status |-> status, product |-> product]
    /\ StripeChanges(s, "upsert", status, product)

\* Final: Stripe sends no further event for a canceled subscription.
CancelsAtStripe(s) ==
    /\ truth[s].status \in {"active", "past_due"}
    /\ StripeChanges(s, "deleted", "canceled", truth[s].product)

\* The last attempt at an invoice fails, and a later payment succeeds; a
\* subscription.updated does not accompany it in every flow of Stripe's.
InvoiceFails(s) ==
    /\ Invoices
    /\ truth[s].status = "active"
    /\ StripeChanges(s, "failed", "past_due", truth[s].product)

InvoicePaid(s) ==
    /\ Invoices
    /\ truth[s].status = "past_due"
    /\ StripeChanges(s, "succeeded", "active", truth[s].product)

-----------------------------------------------------------------------------
(* The helpers of the handlers *)

SyncFault == syncFaults < MaxSyncFaults /\ syncFaults' = syncFaults + 1

AtStep(w, pc, kinds) == worker[w].pc = pc /\ worker[w].ev.kind \in kinds

SyncGoto(w, pc) == worker' = [worker EXCEPT ![w] = [worker[w] EXCEPT !.pc = pc]]

SyncGotoWith(w, pc, row) ==
    worker' = [worker EXCEPT ![w] = [worker[w] EXCEPT !.pc = pc, !.read = row]]

\* The handler ends and its event is completed.
Ends(w) ==
    /\ worker' = [worker EXCEPT ![w] = SyncIdle]
    /\ done' = done \cup {worker[w].ev}

NextAttempt(ev) ==
    {n \in 1 .. SyncAttempts : /\ <<ev, n>> \notin spent
                               /\ \A k \in 1 .. n - 1 : <<ev, k>> \in spent}

\* The handler throws: the event stays open, and an attempt of its job is spent.
SyncThrows(w) ==
    /\ worker' = [worker EXCEPT ![w] = SyncIdle]
    /\ spent' = spent \cup ({worker[w].ev} \X NextAttempt(worker[w].ev))

\* Events whose job has no attempt left: marked failed, for the operator to replay.
Dead == {ev \in sent \ done : NextAttempt(ev) = {}}

\* A guard that has been left out (a mutant).
NeverStale(row, at) == FALSE

\* An event ordered before the row by more than the tolerance is stale.
Stale(row, at) == row.status # "none" /\ at + Tolerance < row.lastEventAt

\* A product that config.billing.products does not know (a mutant).
PlanOfAnyProduct(ev) == IF ev.kind # "deleted" THEN ev.product ELSE BillingDefault

\* A deleted subscription that keeps its plan (a mutant).
PlanKeptWhenDeleted(ev) == IF ev.product \in Mapped THEN ev.product ELSE BillingDefault

\* The plan of the subscription an event describes: the default one when it has
\* been deleted, or when its product is not in config.billing.products.
PlanOf(ev) ==
    IF ev.kind # "deleted" /\ ev.product \in Mapped THEN ev.product ELSE BillingDefault

\* row.save() updates the columns that differ from the row as it was read.
SavedRow(now, read, new) ==
    IF now.status = "none" THEN new
    ELSE [status      |-> IF new.status = read.status THEN now.status ELSE new.status,
          planName    |-> IF new.planName = read.planName THEN now.planName ELSE new.planName,
          lastEventAt |-> IF new.lastEventAt = read.lastEventAt THEN now.lastEventAt
                          ELSE new.lastEventAt]

\* assignPlan: an upsert of the tenant's row, skipped when it would not change.
AssignPlan(name, source) == planRow' = [name |-> name, source |-> source]

-----------------------------------------------------------------------------
(* The queue *)

StartsSync(w, ev) ==
    /\ ev \in (sent \ done) \ Dead
    /\ worker[w] = SyncIdle
    /\ worker' = [worker EXCEPT ![w] = [pc |-> "read", ev |-> ev, read |-> NoSyncRow]]
    /\ UNCHANGED <<stripeState, done, customer, mirrored, planRow, syncBounds>>

\* tenant:billing:replay on a failed event, or by --event-id on a completed one: the
\* row is pending again, and a job with attempts of its own is dispatched.
ReplaysSync(ev) ==
    /\ ev \in done \cup Dead
    /\ replays < MaxReplays
    /\ replays' = replays + 1
    /\ done' = done \ {ev}
    /\ spent' = spent \ ({ev} \X (1 .. SyncAttempts))
    /\ UNCHANGED <<stripeState, customer, mirrored, planRow, worker, syncFaults>>

\* An error that is swallowed: the event is completed all the same (a mutant).
SwallowsError(w) ==
    /\ worker[w] # SyncIdle
    /\ SyncFault
    /\ Ends(w)
    /\ UNCHANGED <<stripeState, customer, mirrored, planRow, spent, replays>>

\* Any query of a handler fails, or its worker dies.
SyncFails(w) ==
    /\ worker[w] # SyncIdle
    /\ SyncFault
    /\ SyncThrows(w)
    /\ UNCHANGED <<stripeState, done, customer, mirrored, planRow, replays>>

-----------------------------------------------------------------------------
(* handleCheckoutCompleted *)

MapsCustomer(w) ==
    /\ AtStep(w, "read", {"checkout"})
    /\ customer' = TRUE
    /\ Ends(w)
    /\ UNCHANGED <<stripeState, mirrored, planRow, syncBounds>>

-----------------------------------------------------------------------------
(* handleSubscriptionUpsert, handleSubscriptionDeleted: syncSubscription *)

Syncs == {"upsert", "deleted"}

\* tenant_not_resolvable: the checkout's event has to come first.
Unresolved(w) ==
    /\ AtStep(w, "read", Syncs)
    /\ ~customer
    /\ SyncThrows(w)
    /\ UNCHANGED <<stripeState, done, customer, mirrored, planRow, replays, syncFaults>>

DropsStale(w) ==
    /\ AtStep(w, "read", Syncs)
    /\ customer
    /\ Stale(mirrored[worker[w].ev.sub], worker[w].ev.at)
    /\ Ends(w)
    /\ UNCHANGED <<stripeState, customer, mirrored, planRow, syncBounds>>

ReadsMirror(w) ==
    /\ AtStep(w, "read", Syncs)
    /\ customer
    /\ ~Stale(mirrored[worker[w].ev.sub], worker[w].ev.at)
    /\ SyncGotoWith(w, "assign", mirrored[worker[w].ev.sub])
    /\ UNCHANGED <<stripeState, done, customer, mirrored, planRow, syncBounds>>

\* A plan that is only assigned to a tenant that has none (a mutant).
AssignsFirstPlan(w) ==
    /\ AtStep(w, "assign", Syncs)
    /\ IF planRow.source = "none" THEN AssignPlan(PlanOf(worker[w].ev), "stripe")
       ELSE UNCHANGED planRow
    /\ SyncGoto(w, "save")
    /\ UNCHANGED <<stripeState, done, customer, mirrored, syncBounds>>

AssignsPlan(w) ==
    /\ AtStep(w, "assign", Syncs)
    /\ AssignPlan(PlanOf(worker[w].ev), "stripe")
    /\ SyncGoto(w, "save")
    /\ UNCHANGED <<stripeState, done, customer, mirrored, syncBounds>>

\* An INSERT for a row that was not there, or an UPDATE of the row that was.
SavesMirror(w) ==
    LET ev == worker[w].ev
        new == [status |-> ev.status, planName |-> PlanOf(ev), lastEventAt |-> ev.at]
    IN  /\ AtStep(w, "save", Syncs)
        /\ worker[w].read.status # "none" \/ mirrored[ev.sub].status = "none"
        /\ mirrored' = [mirrored EXCEPT ![ev.sub] = SavedRow(@, worker[w].read, new)]
        /\ Ends(w)
        /\ UNCHANGED <<stripeState, customer, planRow, syncBounds>>

\* Another handler has inserted the row: the primary key refuses this INSERT.
InsertCollides(w) ==
    /\ AtStep(w, "save", Syncs)
    /\ worker[w].read.status = "none"
    /\ mirrored[worker[w].ev.sub].status # "none"
    /\ SyncThrows(w)
    /\ UNCHANGED <<stripeState, done, customer, mirrored, planRow, replays, syncFaults>>

-----------------------------------------------------------------------------
(* handlePaymentSucceeded, handlePaymentFailed (the final attempt) *)

Payments == {"succeeded", "failed"}

\* Whether the payment changes the status of the row its handler has read.
Flips(row, ev) ==
    /\ ~Stale(row, ev.at)
    /\ IF ev.kind = "succeeded" THEN row.status = "past_due"
       ELSE row.status \notin {"none", "past_due", "canceled"}

\* What follows the status: dunning for a failed payment, else the end.
AfterStatus(w) ==
    IF worker[w].ev.kind = "failed" /\ Downgrade
    THEN SyncGoto(w, "dunning") /\ UNCHANGED done
    ELSE Ends(w)

\* A payment of a customer without a tenant is done with at once.
IgnoresPayment(w) ==
    /\ AtStep(w, "read", Payments)
    /\ ~customer
    /\ Ends(w)
    /\ UNCHANGED <<stripeState, customer, mirrored, planRow, syncBounds>>

KeepsStatus(w) ==
    /\ AtStep(w, "read", Payments)
    /\ customer
    /\ ~Flips(mirrored[worker[w].ev.sub], worker[w].ev)
    /\ AfterStatus(w)
    /\ UNCHANGED <<stripeState, customer, mirrored, planRow, syncBounds>>

ReadsStatus(w) ==
    /\ AtStep(w, "read", Payments)
    /\ customer
    /\ Flips(mirrored[worker[w].ev.sub], worker[w].ev)
    /\ SyncGotoWith(w, "save", mirrored[worker[w].ev.sub])
    /\ UNCHANGED <<stripeState, done, customer, mirrored, planRow, syncBounds>>

SavesStatus(w) ==
    LET ev == worker[w].ev
        new == [status      |-> IF ev.kind = "succeeded" THEN "active" ELSE "past_due",
                planName    |-> worker[w].read.planName,
                lastEventAt |-> ev.at]
    IN  /\ AtStep(w, "save", Payments)
        /\ mirrored' = [mirrored EXCEPT ![ev.sub] = SavedRow(@, worker[w].read, new)]
        /\ AfterStatus(w)
        /\ UNCHANGED <<stripeState, customer, planRow, syncBounds>>

\* dunning.action 'downgrade': whatever became of the status.
Downgrades(w) ==
    /\ AtStep(w, "dunning", Payments)
    /\ AssignPlan(BillingDefault, "dunning")
    /\ Ends(w)
    /\ UNCHANGED <<stripeState, customer, mirrored, syncBounds>>

\* A downgrade that fails is logged and the event completed all the same.
DowngradeFails(w) ==
    /\ AtStep(w, "dunning", Payments)
    /\ SyncFault
    /\ Ends(w)
    /\ UNCHANGED <<stripeState, customer, mirrored, planRow, spent, replays>>

-----------------------------------------------------------------------------
Sends ==
    \E s \in SyncSubs :
        \/ \E status \in {"active", "past_due"}, product \in Products :
              Updates(s, status, product)
        \/ CancelsAtStripe(s) \/ InvoiceFails(s) \/ InvoicePaid(s)

HandlerStep(w) ==
    \/ MapsCustomer(w)
    \/ Unresolved(w) \/ DropsStale(w) \/ ReadsMirror(w)
    \/ AssignsPlan(w) \/ SavesMirror(w) \/ InsertCollides(w)
    \/ IgnoresPayment(w) \/ KeepsStatus(w) \/ ReadsStatus(w) \/ SavesStatus(w)
    \/ Downgrades(w)

AtRest == sent = done /\ \A w \in SyncWorkers : worker[w] = SyncIdle

\* Nothing is left to do until Stripe sends something, or the operator replays.
SyncRest ==
    /\ \A w \in SyncWorkers : worker[w] = SyncIdle
    /\ sent \ done = Dead
    /\ UNCHANGED syncVars

SyncNext ==
    \/ Sends
    \/ SyncRest
    \/ \E ev \in sent : ReplaysSync(ev)
    \/ \E w \in SyncWorkers :
          \/ \E ev \in sent : StartsSync(w, ev)
          \/ HandlerStep(w)
          \/ SyncFails(w) \/ DowngradeFails(w)

SyncSpec == SyncInit /\ [][SyncNext]_syncVars

\* A handler that has begun goes on, and a free worker takes some open event while
\* one has attempts left. Nothing is assumed of the operator.
SyncFairness ==
    /\ \A w \in SyncWorkers : WF_syncVars(HandlerStep(w))
    /\ \A w \in SyncWorkers : WF_syncVars(\E ev \in sent : StartsSync(w, ev))

SyncFairSpec == SyncSpec /\ SyncFairness

-----------------------------------------------------------------------------
(* Properties *)

InSync(s) ==
    /\ mirrored[s].status = truth[s].status
    /\ truth[s].status # "none" =>
          mirrored[s].planName =
             IF truth[s].status # "canceled" /\ truth[s].product \in Mapped
             THEN truth[s].product ELSE BillingDefault

\* Whatever the order, the errors, the retries and the replays, the mirror shows
\* every subscription as Stripe has it once all its events are processed, and the
\* plan whose limits are enforced is the plan of the mirror: no handler leaves one
\* of its two writes behind. What payments do to the status is CanceledAtRest's.
RestsInSync ==
    AtRest /\ (\A e \in sent : e.kind \notin Payments) =>
        \A s \in SyncSubs :
            InSync(s) /\ (mirrored[s].status # "none" => planRow.name = mirrored[s].planName)

\* And it does come to that, when Stripe stops changing, unless an event has spent its
\* attempts and nobody replays it.
AllInSync == \A s \in SyncSubs : InSync(s) /\ planRow.name = mirrored[s].planName
ComesInSync == <>[](Dead = {} => AllInSync)

\* syncSubscription's comment: without the ordering guard "a stale
\* subscription.updated would revive a canceled subscription"; with it, a canceled
\* subscription stays canceled, as it does at Stripe.
StaysCanceled == \A s \in SyncSubs : mirrored[s].status = "canceled" => mirrored'[s].status = "canceled"
CanceledStaysCanceled == [][StaysCanceled]_syncVars

\* At rest a subscription is canceled exactly when it is at Stripe, and then the
\* tenant is on the default plan, whatever its invoices did on the way.
CanceledAtRest ==
    AtRest => \A s \in SyncSubs :
        /\ mirrored[s].status = "canceled" <=> truth[s].status = "canceled"
        /\ truth[s].status = "canceled" => planRow.name = BillingDefault

=============================================================================
