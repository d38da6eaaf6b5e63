-------------------------- MODULE BillingReconcile --------------------------
(***************************************************************************)
(* What writes the billing state of one tenant beside the webhook jobs of  *)
(* SubscriptionSync: ensureCustomer under a checkout or the portal,        *)
(* tenant:billing:sync, tenant:billing:backfill and the listener before a  *)
(* tenant is destroyed, each between the others' awaits. A webhook is      *)
(* handled in one step here. Ticks of the clock are further apart than the *)
(* five seconds of the ordering guard. Customers of Stripe are numbered in *)
(* the order in which they are made, 0 is none; the sync lists every one's *)
(* subscriptions (no --tenant, --since or --dry-run).                      *)
(***************************************************************************)
EXTENDS Naturals, FiniteSets

CONSTANTS
    Subs,     \* subscriptions of the tenant
    Callers,  \* requests for a checkout or the portal
    Policies, \* values of config.billing.onTenantDelete to look at
    MaxClock, \* bound: changes at Stripe
    MaxCustomers,    \* bound: customers made at Stripe
    MaxBillingFaults \* bound: calls to Stripe and writes that fail

ReconcileAssumption ==
    /\ Policies \subseteq {"cancel", "detach", "preserve"}
    /\ {MaxClock, MaxCustomers, MaxBillingFaults} \subseteq Nat

VARIABLES
    policy,
    stripeTime,
    remote,    \* Stripe: per subscription none, active or canceled
    payer,     \* Stripe: the customer of each subscription
    customers, \* Stripe: customers made for the tenant
    keyed,     \* Stripe: the customer it answers the key of ensureCustomer with
    events,    \* webhooks that are still to be handled
    mapped,    \* the customer in the row of stripe_customers
    retired,   \* history: customers whose row has been deleted
    mirror,    \* stripe_subscriptions: status, last_event_at, whether it has the tenant
    plan,      \* the row of tenant_plans: its plan and source
    caller, sync, fill, leaver, \* the processes
    disturbed, \* something else wrote, or Stripe changed, since the sync began
    billingFaults

stripe == <<stripeTime, remote, payer, customers, keyed>>
tables == <<mapped, retired, mirror, plan>>
procs  == <<caller, sync, fill, leaver>>
reconcileVars   == <<policy, stripe, events, tables, procs, disturbed, billingFaults>>

Customers == 1 .. MaxCustomers
SubStatus == {"active", "canceled"}
Event  == [sub : Subs, status : SubStatus, at : 1 .. MaxClock]
NoMirror  == [status |-> "none", at |-> 0, owned |-> FALSE]
MirrorRow    == [status : SubStatus, at : 0 .. MaxClock, owned : BOOLEAN]
PlanRows  == [plan : {"default", "paid"}, source : {"stripe", "backfill", "reconciliation"}]
NoPlan == [plan |-> "none", source |-> "none"]
Quiet  == [pc |-> "off"]

ReconcileTypeOK ==
    /\ policy \in Policies
    /\ stripeTime \in 0 .. MaxClock
    /\ remote \in [Subs -> SubStatus \cup {"none"}]
    /\ payer \in [Subs -> Customers \cup {0}]
    /\ customers \in Customers \cup {0} /\ keyed \in Customers \cup {0}
    /\ events \subseteq Event
    /\ mapped \in Customers \cup {0} /\ retired \subseteq Customers
    /\ mirror \in [Subs -> MirrorRow \cup {NoMirror}]
    /\ plan \in PlanRows \cup {NoPlan}
    /\ caller \in [Callers -> [pc : {"idle", "create", "insert", "reread", "session", "end"},
                               of : Customers \cup {0}]]
    /\ sync \in {Quiet} \cup [pc : {"list", "find", "orphans", "ended"}, left : SUBSET Subs,
                              seen : [Subs -> SubStatus \cup {"none"}], errors : BOOLEAN]
                  \cup [pc : {"write"}, left : SUBSET Subs, sub : Subs,
                        seen : [Subs -> SubStatus \cup {"none"}], errors : BOOLEAN]
    /\ fill \in {"off", "assign", "end"}
    /\ leaver \in {Quiet} \cup [pc : {"cancel", "unmap", "ended"}, left : SUBSET Subs]
    /\ disturbed \in BOOLEAN
    /\ billingFaults \in 0 .. MaxBillingFaults

ReconcileInit ==
    /\ policy \in Policies
    /\ stripeTime = 0
    /\ remote = [s \in Subs |-> "none"] /\ payer = [s \in Subs |-> 0]
    /\ customers = 0 /\ keyed = 0
    /\ events = {}
    /\ mapped = 0 /\ retired = {} /\ mirror = [s \in Subs |-> NoMirror] /\ plan = NoPlan
    /\ caller = [c \in Callers |-> [pc |-> "idle", of |-> 0]]
    /\ sync = Quiet /\ fill = "off" /\ leaver = Quiet
    /\ disturbed = FALSE
    /\ billingFaults = 0

BillingFault   == billingFaults < MaxBillingFaults /\ billingFaults' = billingFaults + 1
Disturb == disturbed' = TRUE
Paid(status) == IF status = "active" THEN "paid" ELSE "default"

-----------------------------------------------------------------------------
(* Stripe *)

Happens(s, status) ==
    /\ stripeTime < MaxClock
    /\ stripeTime' = stripeTime + 1
    /\ remote' = [remote EXCEPT ![s] = status]
    /\ events' = events \cup {[sub |-> s, status |-> status, at |-> stripeTime + 1]}

\* A session is checked out: the subscription is its customer's.
ChecksOut(s, c) ==
    /\ remote[s] = "none"
    /\ caller[c].pc = "end"
    /\ Happens(s, "active")
    /\ payer' = [payer EXCEPT ![s] = caller[c].of]
    /\ Disturb
    /\ UNCHANGED <<policy, customers, keyed, tables, procs, billingFaults>>

Ceases(s) ==
    /\ remote[s] = "active"
    /\ Happens(s, "canceled")
    /\ Disturb
    /\ UNCHANGED <<policy, payer, customers, keyed, tables, procs, billingFaults>>

\* Stripe keeps an idempotency key for a day.
KeyForgotten ==
    /\ keyed # 0
    /\ keyed' = 0
    /\ UNCHANGED <<policy, stripeTime, remote, payer, customers, events, tables, procs, disturbed,
                   billingFaults>>

-----------------------------------------------------------------------------
(* ensureCustomer, createCheckoutSession *)

Become(c, pc, of) == caller' = [caller EXCEPT ![c] = [pc |-> pc, of |-> of]]

\* The price of the checkout has been checked. (createBillingPortalSession goes to the
\* row's customer as well, and without a row it throws.)
Finds(c) ==
    /\ caller[c].pc = "idle"
    /\ IF mapped # 0 THEN Become(c, "session", mapped) ELSE Become(c, "create", 0)
    /\ UNCHANGED <<policy, stripe, events, tables, sync, fill, leaver, disturbed, billingFaults>>

\* Under the key tenant:<id>:create-customer Stripe answers with the customer it has made
\* under it, as long as it remembers the key; its answer may be lost, or it may refuse.
CreatesCustomer(c) ==
    LET id == IF keyed # 0 THEN keyed ELSE customers + 1
    IN  /\ caller[c].pc = "create"
        /\ \/ /\ id \in Customers
              /\ keyed' = id
              /\ customers' = IF keyed # 0 THEN customers ELSE id
              /\ \/ Become(c, "insert", id) /\ UNCHANGED billingFaults
                 \/ BillingFault /\ Become(c, "idle", 0)
           \/ BillingFault /\ Become(c, "idle", 0) /\ UNCHANGED <<keyed, customers>>
        /\ UNCHANGED <<policy, stripeTime, remote, payer, events, tables, sync, fill, leaver, disturbed>>

\* The INSERT fails on the row of another call, or for another reason.
InsertsCustomer(c) ==
    /\ caller[c].pc = "insert"
    /\ \/ mapped = 0 /\ mapped' = caller[c].of /\ Become(c, "session", caller[c].of)
          /\ UNCHANGED billingFaults
       \/ mapped # 0 /\ Become(c, "reread", caller[c].of) /\ UNCHANGED <<mapped, billingFaults>>
       \/ BillingFault /\ Become(c, "reread", caller[c].of) /\ UNCHANGED mapped
    /\ Disturb
    /\ UNCHANGED <<policy, stripe, events, retired, mirror, plan, sync, fill, leaver>>

\* A call that goes on with the customer it has made (a mutant).
KeepsItsOwn(c) ==
    /\ caller[c].pc = "reread"
    /\ Become(c, "session", caller[c].of)
    /\ UNCHANGED <<policy, stripe, events, tables, sync, fill, leaver, disturbed, billingFaults>>

\* The row of the winner; without one the error is thrown.
RereadsCustomer(c) ==
    /\ caller[c].pc = "reread"
    /\ IF mapped # 0 THEN Become(c, "session", mapped) ELSE Become(c, "idle", 0)
    /\ UNCHANGED <<policy, stripe, events, tables, sync, fill, leaver, disturbed, billingFaults>>

\* Stripe has the URL of a session, or the call fails and is repeated by the user.
OpensSession(c) ==
    /\ caller[c].pc = "session"
    /\ \/ Become(c, "end", caller[c].of) /\ UNCHANGED billingFaults
       \/ BillingFault /\ Become(c, "idle", 0)
    /\ UNCHANGED <<policy, stripe, events, tables, sync, fill, leaver, disturbed>>

\* checkout.session.completed of a session that was checked out: a tenant that has a
\* customer keeps it.
MapsCheckout(c) ==
    /\ caller[c].pc = "end"
    /\ \E s \in Subs : payer[s] = caller[c].of
    /\ mapped = 0
    /\ mapped' = caller[c].of
    /\ Disturb
    /\ UNCHANGED <<policy, stripe, events, retired, mirror, plan, procs, billingFaults>>

-----------------------------------------------------------------------------
(* syncSubscription *)

SavesSub(s, status, at) ==
    /\ plan' = [plan |-> Paid(status), source |-> "stripe"]
    /\ mirror' = [mirror EXCEPT ![s] = [status |-> status, at |-> at, owned |-> TRUE]]

\* The row of stripe_customers is that of the subscription's customer.
IsResolved(s) == mapped # 0 /\ payer[s] = mapped

\* A webhook: without the customer it is not resolved, and tried again until it is a
\* dead letter; older than the mirror it is dropped.
Handles(e) ==
    /\ e \in events
    /\ events' = events \ {e}
    /\ IF IsResolved(e.sub) /\ e.at >= mirror[e.sub].at THEN SavesSub(e.sub, e.status, e.at)
       ELSE UNCHANGED <<plan, mirror>>
    /\ Disturb
    /\ UNCHANGED <<policy, stripe, mapped, retired, procs, billingFaults>>

-----------------------------------------------------------------------------
(* tenant:billing:sync *)

\* One page of the listing, read before its subscriptions are worked through.
SyncLists ==
    /\ sync \in {Quiet} \cup {x \in {sync} : x.pc = "ended"}
    /\ sync' = [pc |-> "find", left |-> {s \in Subs : remote[s] # "none"},
                seen |-> remote, errors |-> FALSE]
    /\ disturbed' = FALSE
    /\ UNCHANGED <<policy, stripe, events, tables, caller, fill, leaver, billingFaults>>

\* Only a status that differs is drift.
FindsLocal(s) ==
    /\ sync.pc = "find" /\ s \in sync.left
    /\ sync' = IF mirror[s].status = sync.seen[s]
               THEN [sync EXCEPT !.left = @ \ {s}]
               ELSE [pc |-> "write", sub |-> s, left |-> sync.left \ {s},
                     seen |-> sync.seen, errors |-> sync.errors]
    /\ UNCHANGED <<policy, stripe, events, tables, caller, fill, leaver, disturbed, billingFaults>>

\* The time the subscription was created at (a mutant).
StampCreated == 0

\* Now, so that the sync passes the ordering guard.
Stamp == stripeTime

\* What the listing had, under the stamp; an error is collected.
Repairs ==
    LET s    == sync.sub
        next == [pc |-> "find", left |-> sync.left, seen |-> sync.seen,
                 errors |-> sync.errors]
    IN  /\ sync.pc = "write"
        /\ \/ /\ IsResolved(s)
              /\ IF Stamp >= mirror[s].at THEN SavesSub(s, sync.seen[s], Stamp)
                 ELSE UNCHANGED <<plan, mirror>>
              /\ sync' = next
              /\ UNCHANGED billingFaults
           \/ /\ IF IsResolved(s) THEN BillingFault ELSE UNCHANGED billingFaults
              /\ sync' = [next EXCEPT !.errors = TRUE]
              /\ UNCHANGED <<plan, mirror>>
        /\ UNCHANGED <<policy, stripe, events, mapped, retired, caller, fill, leaver, disturbed>>

ListEnds ==
    /\ sync.pc = "find" /\ sync.left = {}
    /\ sync' = [sync EXCEPT !.pc = "orphans"]
    /\ UNCHANGED <<policy, stripe, events, tables, caller, fill, leaver, disturbed, billingFaults>>

\* A plan from Stripe without a subscription that is alive goes back to the default.
Orphans ==
    /\ sync.pc = "orphans"
    /\ plan' = IF plan.source = "stripe" /\ plan.plan # "default"
                  /\ ~\E s \in Subs : mirror[s].owned /\ mirror[s].status = "active"
               THEN [plan |-> "default", source |-> "reconciliation"] ELSE plan
    /\ sync' = [sync EXCEPT !.pc = "ended"]
    /\ UNCHANGED <<policy, stripe, events, mapped, retired, mirror, caller, fill, leaver, disturbed, billingFaults>>

-----------------------------------------------------------------------------
(* tenant:billing:backfill *)

FindsPlan(force) ==
    /\ fill = "off"
    /\ fill' = IF plan = NoPlan \/ force THEN "assign" ELSE "end"
    /\ UNCHANGED <<policy, stripe, events, tables, caller, sync, leaver, disturbed, billingFaults>>

\* Whatever has been assigned since the row was looked for is overwritten.
AssignsDefault ==
    /\ fill = "assign"
    /\ fill' = "end"
    /\ plan' = [plan |-> "default", source |-> "backfill"]
    /\ Disturb
    /\ UNCHANGED <<policy, stripe, events, mapped, retired, mirror, caller, sync, leaver, billingFaults>>

-----------------------------------------------------------------------------
(* TenantDestroyBillingListener *)

Leaves ==
    /\ leaver = Quiet
    /\ leaver' = IF policy = "preserve" \/ mapped = 0 THEN [pc |-> "ended", left |-> {}]
                 ELSE IF policy = "detach" THEN [pc |-> "unmap", left |-> {}]
                 ELSE [pc |-> "cancel",
                       left |-> {s \in Subs : mirror[s].owned /\ mirror[s].status = "active"}]
    /\ UNCHANGED <<policy, stripe, events, tables, caller, sync, fill, disturbed, billingFaults>>

\* The mirror's subscriptions, one by one: canceled at Stripe, then in the mirror, with
\* the save failing or not; Stripe refuses one that is canceled. An error is logged.
Cancels(s) ==
    /\ leaver.pc = "cancel" /\ s \in leaver.left
    /\ leaver' = [leaver EXCEPT !.left = @ \ {s}]
    /\ \/ /\ remote[s] = "active"
          /\ Happens(s, "canceled")
          /\ \/ mirror' = [mirror EXCEPT ![s].status = "canceled"] /\ UNCHANGED billingFaults
             \/ BillingFault /\ UNCHANGED mirror
       \/ /\ remote[s] = "active" => BillingFault
          /\ remote[s] # "active" => UNCHANGED billingFaults
          /\ UNCHANGED <<stripeTime, remote, events, mirror>>
    /\ Disturb
    /\ UNCHANGED <<policy, payer, customers, keyed, mapped, retired, plan, caller, sync, fill>>

\* customer.delete: the subscriptions lose their tenant (ON DELETE SET NULL).
Unmaps ==
    /\ leaver.pc \in {"cancel", "unmap"} /\ leaver.left = {}
    /\ leaver' = [leaver EXCEPT !.pc = "ended"]
    /\ \/ /\ mapped' = 0 /\ retired' = retired \cup ({mapped} \ {0})
          /\ mirror' = [s \in Subs |-> [mirror[s] EXCEPT !.owned = FALSE]]
          /\ UNCHANGED billingFaults
       \/ BillingFault /\ UNCHANGED <<mapped, retired, mirror>>
    /\ Disturb
    /\ UNCHANGED <<policy, stripe, events, plan, caller, sync, fill>>

-----------------------------------------------------------------------------
ReconcileNext ==
    \/ \E s \in Subs : FindsLocal(s) \/ Cancels(s) \/ Ceases(s)
    \/ \E s \in Subs, c \in Callers : ChecksOut(s, c)
    \/ KeyForgotten
    \/ \E c \in Callers : Finds(c) \/ CreatesCustomer(c) \/ InsertsCustomer(c)
                          \/ RereadsCustomer(c) \/ OpensSession(c) \/ MapsCheckout(c)
    \/ \E e \in events : Handles(e)
    \/ SyncLists \/ Repairs \/ ListEnds \/ Orphans
    \/ \E force \in BOOLEAN : FindsPlan(force)
    \/ AssignsDefault \/ Leaves \/ Unmaps

ReconcileSpec == ReconcileInit /\ [][ReconcileNext]_reconcileVars

-----------------------------------------------------------------------------
(* Properties *)

\* However many requests race to a tenant's first checkout, whatever is retried, and
\* though Stripe forgets the key and makes another customer: a session is opened for the
\* customer that the tenant's row names, or named until it was deleted, and no
\* subscription is one's that no webhook could resolve.
OneCustomer ==
    /\ \A c \in Callers : caller[c].pc \in {"session", "end"} => caller[c].of \in {mapped} \cup retired
    /\ \A s \in Subs : remote[s] # "none" => payer[s] \in {mapped} \cup retired

\* A sync that nothing overlapped, and that reported no error, leaves the mirror with
\* Stripe's statuses, whatever webhooks were lost or late before it, and no plan from
\* Stripe without a subscription.
SyncRepairs ==
    sync.pc = "ended" /\ ~disturbed /\ ~sync.errors =>
        /\ \A s \in Subs : mirror[s].status = remote[s]
        /\ plan.plan = "paid" =>
              \E s \in Subs : mirror[s].owned /\ mirror[s].status = "active"

=============================================================================
