--------------------------- MODULE ComponentProofs ---------------------------
(***************************************************************************)
(* Safety of the components MCSafety checks side by side, each for every   *)
(* value of its constants: Stripe's events, customers and the mirror of    *)
(* subscriptions, tenant scopes, the boots of a process, the reports of    *)
(* fleet commands, the rate limit, the archives of a tenant, what the      *)
(* doctor reports, what an import applies and the logins of a state.       *)
(***************************************************************************)
EXTENDS BillingReconcile, TenancyScope, ProcessBoot, FleetCommands, RateLimit, StripeIntake,
        SubscriptionSync, Backups, Doctor, SqlImport, SsoLogin, FiniteSetTheorems, TLAPS

(***************************************************************************)
(*                         One customer for a tenant                       *)
(***************************************************************************)

\* A customer that is anybody's is one that the tenant's row names, or has named: of an
\* open session, and of a subscription.  What a call has in hand before that is some
\* customer, which may be one that Stripe made after it forgot the key.
NamedByRow(id) == id # 0 /\ id \in {mapped} \cup retired
CustomersOK ==
  /\ caller = [c \in Callers |-> caller[c]]
  /\ remote = [s \in Subs |-> remote[s]] /\ payer = [s \in Subs |-> payer[s]]
  /\ \A c \in Callers : /\ caller[c].pc \in {"insert", "reread"} => caller[c].of # 0
                        /\ caller[c].pc \in {"session", "end"} => NamedByRow(caller[c].of)
  /\ \A s \in Subs : remote[s] # "none" => NamedByRow(payer[s])

\* A step of a call that names the row as it is, or of one that inserts it.
LEMMA CustomersKeptByCalls ==
  ASSUME CustomersOK, NEW c \in Callers,
         \/ Finds(c) \/ CreatesCustomer(c) \/ InsertsCustomer(c) \/ RereadsCustomer(c)
         \/ OpensSession(c) \/ MapsCheckout(c)
  PROVE  CustomersOK'
  <1>1. CASE Finds(c)
    BY <1>1 DEF Finds, Become, stripe, tables, CustomersOK, NamedByRow
  <1>2. CASE CreatesCustomer(c)
    <2>1. PICK id : /\ id = IF keyed # 0 THEN keyed ELSE customers + 1
                    /\ \/ id \in Customers /\ Become(c, "insert", id)
                       \/ Become(c, "idle", 0)
      BY <1>2 DEF CreatesCustomer
    <2>2. id \in Customers => id # 0
      BY DEF Customers
    <2> QED
      BY <1>2, <2>1, <2>2 DEF CreatesCustomer, Become, tables, CustomersOK, NamedByRow
  <1>3. CASE InsertsCustomer(c)
    BY <1>3 DEF InsertsCustomer, Become, stripe, CustomersOK, NamedByRow
  <1>4. CASE RereadsCustomer(c)
    BY <1>4 DEF RereadsCustomer, Become, stripe, tables, CustomersOK, NamedByRow
  <1>5. CASE OpensSession(c)
    BY <1>5 DEF OpensSession, Become, stripe, tables, CustomersOK, NamedByRow
  <1>6. CASE MapsCheckout(c)
    BY <1>6 DEF MapsCheckout, stripe, procs, CustomersOK, NamedByRow
  <1> QED
    BY <1>1, <1>2, <1>3, <1>4, <1>5, <1>6

LEMMA CustomersStep == CustomersOK /\ [ReconcileNext]_reconcileVars => CustomersOK'
  <1> SUFFICES ASSUME CustomersOK, [ReconcileNext]_reconcileVars PROVE CustomersOK'
    OBVIOUS
  <1>1. ASSUME NEW s \in Subs, NEW c \in Callers, ChecksOut(s, c) PROVE CustomersOK'
    BY <1>1 DEF ChecksOut, Happens, tables, procs, CustomersOK, NamedByRow
  <1>2. ASSUME NEW s \in Subs, FindsLocal(s) PROVE CustomersOK'
    BY <1>2 DEF FindsLocal, stripe, tables, CustomersOK, NamedByRow
  <1>3. ASSUME NEW s \in Subs, Ceases(s) PROVE CustomersOK'
    BY <1>3 DEF Ceases, Happens, tables, procs, CustomersOK, NamedByRow
  <1>4. ASSUME NEW s \in Subs, Cancels(s) PROVE CustomersOK'
    <2>1. CASE remote[s] = "active" /\ Happens(s, "canceled")
      BY <1>4, <2>1 DEF Cancels, Happens, CustomersOK, NamedByRow
    <2>2. CASE UNCHANGED remote
      BY <1>4, <2>2 DEF Cancels, CustomersOK, NamedByRow
    <2> QED
      BY <1>4, <2>1, <2>2 DEF Cancels
  <1>5. CASE KeyForgotten
    BY <1>5 DEF KeyForgotten, tables, procs, CustomersOK, NamedByRow
  <1>6. CASE Unmaps
    <2>1. \A id : NamedByRow(id) => NamedByRow(id)'
      BY <1>6 DEF Unmaps, NamedByRow
    <2> QED
      BY <1>6, <2>1 DEF Unmaps, stripe, CustomersOK
  <1>7. CASE SyncLists \/ Repairs \/ ListEnds \/ Orphans \/ Leaves
    BY <1>7 DEF SyncLists, Repairs, ListEnds, Orphans, Leaves, stripe, tables, CustomersOK, NamedByRow
  <1>8. CASE AssignsDefault \/ (\E force \in BOOLEAN : FindsPlan(force)) \/ \E e \in events : Handles(e)
    BY <1>8 DEF AssignsDefault, FindsPlan, Handles, stripe, tables, procs, CustomersOK, NamedByRow
  <1>9. CASE UNCHANGED reconcileVars
    BY <1>9 DEF reconcileVars, stripe, tables, procs, CustomersOK, NamedByRow
  <1> QED
    BY <1>1, <1>2, <1>3, <1>4, <1>5, <1>6, <1>7, <1>8, <1>9, CustomersKeptByCalls DEF ReconcileNext

\* However many requests race to a tenant's first checkout, whatever is retried, and
\* though Stripe forgets the key and makes another customer: sessions are opened, and
\* subscriptions paid, for a customer that the tenant's row names or has named
\* (billing_service.ts, ensureCustomer).
THEOREM StripeHasOneCustomer == ReconcileSpec => []OneCustomer
  <1>1. ReconcileInit => CustomersOK
    BY DEF ReconcileInit, CustomersOK
  <1>2. CustomersOK => OneCustomer
    BY DEF CustomersOK, NamedByRow, OneCustomer
  <1> QED
    BY <1>1, <1>2, CustomersStep, PTL DEF ReconcileSpec

(***************************************************************************)
(*                     What a billing sync leaves behind                   *)
(***************************************************************************)

SyncShape ==
  \/ sync = Quiet
  \/ sync \in [pc : {"list", "find", "orphans", "ended"}, left : SUBSET Subs,
               seen : [Subs -> SubStatus \cup {"none"}], errors : BOOLEAN]
  \/ sync \in [pc : {"write"}, left : SUBSET Subs, sub : Subs,
               seen : [Subs -> SubStatus \cup {"none"}], errors : BOOLEAN]

Rowlike == [status : SubStatus \cup {"none"}, at : 0 .. MaxClock, owned : BOOLEAN]

RepairTypes ==
  /\ stripeTime \in 0 .. MaxClock
  /\ remote \in [Subs -> SubStatus \cup {"none"}]
  /\ events \subseteq Event
  /\ mirror \in [Subs -> Rowlike]
  /\ plan \in PlanRows \cup {NoPlan}
  /\ SyncShape
  /\ disturbed \in BOOLEAN

\* Nothing in the database or under way is ahead of Stripe, and a subscription that
\* is known anywhere exists there; only a plan from Stripe is paid for.
NothingAhead ==
  /\ \A e \in events : e.at <= stripeTime /\ remote[e.sub] # "none"
  /\ \A s \in Subs : /\ mirror[s].at <= stripeTime
                     /\ mirror[s].status # "none" => remote[s] # "none"
  /\ plan.source # "stripe" => plan.plan # "paid"

PaidForOne ==
  plan.plan = "paid" => \E s \in Subs : mirror[s].owned /\ mirror[s].status = "active"

\* The sync has worked s through: s was not listed, or has been compared and repaired.
Passed(s) == s \notin sync.left /\ (sync.pc = "write" => s # sync.sub)

\* Undisturbed, what the listing has is still what Stripe has, and what the sync has
\* worked through is Stripe's unless it counts an error.
SyncKeepsUp ==
  sync # Quiet =>
    /\ \A s \in Subs : sync.seen[s] # "none" => remote[s] # "none"
    /\ \A s \in sync.left : sync.seen[s] # "none"
    /\ sync.pc = "write" => sync.seen[sync.sub] # "none"
    /\ sync.pc \in {"orphans", "ended"} => sync.left = {}
    /\ ~disturbed => sync.seen = remote
    /\ ~disturbed /\ ~sync.errors => \A s \in Subs : Passed(s) => mirror[s].status = remote[s]
    /\ ~disturbed /\ sync.pc = "ended" => PaidForOne

RepairInv == RepairTypes /\ NothingAhead /\ SyncKeepsUp

LEMMA RepairStarts == ReconcileAssumption /\ ReconcileInit => RepairInv
  <1> SUFFICES ASSUME ReconcileAssumption, ReconcileInit PROVE RepairInv
    OBVIOUS
  <1>0. MaxClock \in Nat
    BY DEF ReconcileAssumption
  <1>1. RepairTypes
    <2>1. stripeTime \in 0 .. MaxClock
      BY <1>0 DEF ReconcileInit
    <2>2. remote \in [Subs -> SubStatus \cup {"none"}] /\ mirror \in [Subs -> Rowlike]
      BY <1>0 DEF ReconcileInit, Rowlike, NoMirror
    <2>3. SyncShape
      BY DEF ReconcileInit, SyncShape
    <2> QED
      BY <2>1, <2>2, <2>3 DEF ReconcileInit, RepairTypes
  <1>2. NothingAhead
    BY DEF ReconcileInit, NothingAhead, NoMirror, NoPlan
  <1>3. SyncKeepsUp
    BY DEF ReconcileInit, SyncKeepsUp
  <1> QED
    BY <1>1, <1>2, <1>3 DEF RepairInv

LEMMA RepairRestsWhen ==
  ASSUME RepairInv, UNCHANGED <<stripeTime, remote, events, mirror, plan, sync>>,
         (disturbed' = disturbed \/ disturbed' = TRUE)
  PROVE  RepairInv'
  BY DEF RepairInv, RepairTypes, SyncShape, NothingAhead, SyncKeepsUp, Passed, PaidForOne

\* A write that the sync did not expect: all that remains is that nothing is ahead.
LEMMA RepairIsDisturbed ==
  ASSUME RepairInv, RepairTypes', NothingAhead', disturbed', sync' = sync,
         \A s \in Subs : remote[s] # "none" => remote'[s] # "none"
  PROVE  RepairInv'
  BY DEF RepairInv, SyncKeepsUp

\* What the types say of one subscription and of the sync.
LEMMA RepairTypesOf ==
  ASSUME ReconcileAssumption, RepairTypes
  PROVE  /\ MaxClock \in Nat /\ stripeTime \in Nat
         /\ \A s \in Subs : mirror[s].at \in Nat /\ mirror[s].status \in SubStatus \cup {"none"}
         /\ \A e \in events : e.sub \in Subs /\ e.status \in SubStatus /\ e.at \in 1 .. MaxClock
  <1>1. MaxClock \in Nat
    BY DEF ReconcileAssumption
  <1>2. \A s \in Subs : mirror[s].at \in Nat /\ mirror[s].status \in SubStatus \cup {"none"}
    BY <1>1 DEF RepairTypes, Rowlike
  <1>3. \A e \in events : e.sub \in Subs /\ e.status \in SubStatus /\ e.at \in 1 .. MaxClock
    BY DEF RepairTypes, Event
  <1> QED
    BY <1>1, <1>2, <1>3 DEF RepairTypes

LEMMA SavedIsTyped ==
  ASSUME ReconcileAssumption, RepairTypes, NEW s \in Subs, NEW status \in SubStatus,
         NEW at \in 0 .. MaxClock, SavesSub(s, status, at)
  PROVE  /\ mirror' \in [Subs -> Rowlike]
         /\ plan' \in PlanRows /\ plan'.source = "stripe"
         /\ mirror'[s].status = status /\ mirror'[s].at = at
         /\ \A x \in Subs : x # s => mirror'[x] = mirror[x]
  <1>1. [status |-> status, at |-> at, owned |-> TRUE] \in Rowlike
    BY DEF Rowlike
  <1>2. Paid(status) \in {"default", "paid"}
    BY DEF Paid
  <1> QED
    BY <1>1, <1>2 DEF SavesSub, RepairTypes, PlanRows

LEMMA RepairKeptByStripe ==
  ASSUME ReconcileAssumption, RepairInv, NEW s \in Subs, NEW status \in SubStatus,
         Happens(s, status), Disturb, UNCHANGED <<mirror, plan, sync>>
  PROVE  RepairInv'
  <1>1. stripeTime' \in 0 .. MaxClock /\ stripeTime' = stripeTime + 1 /\ stripeTime \in Nat
    BY RepairTypesOf DEF Happens, RepairInv, RepairTypes
  <1>2. /\ remote' \in [Subs -> SubStatus \cup {"none"}]
        /\ remote'[s] # "none" /\ \A x \in Subs : x # s => remote'[x] = remote[x]
    BY DEF Happens, RepairInv, RepairTypes, SubStatus
  <1>3. [sub |-> s, status |-> status, at |-> stripeTime + 1] \in Event
    BY <1>1 DEF Event
  <1>4. RepairTypes'
    BY <1>1, <1>2, <1>3 DEF Happens, Disturb, RepairInv, RepairTypes, SyncShape
  <1>5. NothingAhead'
    <2>1. \A e \in events' : e.at <= stripeTime' /\ remote'[e.sub] # "none"
      BY <1>1, <1>2, RepairTypesOf DEF Happens, RepairInv, NothingAhead
    <2>2. \A x \in Subs : /\ mirror'[x].at <= stripeTime'
                          /\ mirror'[x].status # "none" => remote'[x] # "none"
      BY <1>1, <1>2, RepairTypesOf DEF Happens, RepairInv, NothingAhead
    <2> QED
      BY <2>1, <2>2 DEF Happens, RepairInv, NothingAhead
  <1> QED
    BY <1>2, <1>4, <1>5, RepairIsDisturbed DEF Happens, Disturb

\* A webhook is applied, or dropped.
LEMMA RepairKeptByWebhooks ==
  ASSUME ReconcileAssumption, RepairInv, NEW e \in events, Handles(e)
  PROVE  RepairInv'
  <1>0. e.sub \in Subs /\ e.status \in SubStatus /\ e.at \in 0 .. MaxClock
    BY RepairTypesOf DEF RepairInv
  <1>1. CASE UNCHANGED <<plan, mirror>>
    <2>1. RepairTypes'
      BY <1>1 DEF Handles, stripe, procs, Disturb, RepairInv, RepairTypes, SyncShape
    <2>2. NothingAhead'
      BY <1>1 DEF Handles, stripe, RepairInv, NothingAhead
    <2> QED
      BY <2>1, <2>2, RepairIsDisturbed DEF Handles, stripe, procs, Disturb
  <1>2. CASE SavesSub(e.sub, e.status, e.at)
    <2>1. /\ mirror' \in [Subs -> Rowlike]
          /\ plan' \in PlanRows /\ plan'.source = "stripe"
          /\ mirror'[e.sub].status = e.status /\ mirror'[e.sub].at = e.at
          /\ \A x \in Subs : x # e.sub => mirror'[x] = mirror[x]
      BY <1>0, <1>2, SavedIsTyped DEF RepairInv
    <2>2. RepairTypes'
      BY <2>1 DEF Handles, stripe, procs, Disturb, RepairInv, RepairTypes, SyncShape
    <2>3. NothingAhead'
      <3>1. \A x \in Subs : /\ mirror'[x].at <= stripeTime
                            /\ mirror'[x].status # "none" => remote[x] # "none"
        BY <2>1 DEF RepairInv, NothingAhead
      <3> QED
        BY <2>1, <3>1 DEF Handles, stripe, RepairInv, NothingAhead
    <2> QED
      BY <2>2, <2>3, RepairIsDisturbed DEF Handles, stripe, procs, Disturb
  <1> QED
    BY <1>1, <1>2 DEF Handles

LEMMA RepairKeptByBackfill == ASSUME RepairInv, AssignsDefault PROVE RepairInv'
  <1>1. RepairTypes'
    BY DEF AssignsDefault, stripe, Disturb, RepairInv, RepairTypes, SyncShape, PlanRows
  <1>2. NothingAhead'
    BY DEF AssignsDefault, stripe, RepairInv, NothingAhead
  <1> QED
    BY <1>1, <1>2, RepairIsDisturbed DEF AssignsDefault, stripe, Disturb

\* The listener before a tenant is destroyed.
LEMMA RepairKeptByCancels ==
  ASSUME ReconcileAssumption, RepairInv, NEW s \in Subs, Cancels(s)
  PROVE  RepairInv'
  <1>1. CASE UNCHANGED <<stripeTime, remote, events, mirror>>
    <2>1. RepairTypes'
      BY <1>1 DEF Cancels, Disturb, RepairInv, RepairTypes, SyncShape
    <2>2. NothingAhead'
      BY <1>1 DEF Cancels, RepairInv, NothingAhead
    <2> QED
      BY <1>1, <2>1, <2>2, RepairIsDisturbed DEF Cancels, Disturb
  <1>2. CASE /\ remote[s] = "active" /\ stripeTime < MaxClock
             /\ remote' = [remote EXCEPT ![s] = "canceled"]
             /\ stripeTime' = stripeTime + 1
             /\ events' = events \cup {[sub |-> s, status |-> "canceled", at |-> stripeTime + 1]}
             /\ mirror' = [mirror EXCEPT ![s].status = "canceled"] \/ mirror' = mirror
    <2>1. stripeTime' \in 0 .. MaxClock /\ stripeTime \in Nat
      BY <1>2, RepairTypesOf DEF RepairInv, RepairTypes
    <2>2. /\ remote' \in [Subs -> SubStatus \cup {"none"}]
          /\ remote'[s] = "canceled" /\ \A x \in Subs : x # s => remote'[x] = remote[x]
      BY <1>2 DEF RepairInv, RepairTypes, SubStatus
    <2>3. [sub |-> s, status |-> "canceled", at |-> stripeTime + 1] \in Event
      BY <1>2, <2>1 DEF Event, SubStatus
    <2>4. /\ mirror[s] \in Rowlike
          /\ mirror'[s] = [mirror[s] EXCEPT !.status = "canceled"] \/ mirror' = mirror
      BY <1>2 DEF RepairInv, RepairTypes
    <2>5. mirror' \in [Subs -> Rowlike]
      BY <1>2, <2>4 DEF RepairInv, RepairTypes, Rowlike, SubStatus
    <2>6. RepairTypes'
      BY <1>2, <2>1, <2>2, <2>3, <2>5 DEF Cancels, Disturb, RepairInv, RepairTypes, SyncShape
    <2>7. NothingAhead'
      <3>1. \A e \in events' : e.at <= stripeTime' /\ remote'[e.sub] # "none"
        BY <1>2, <2>1, <2>2, RepairTypesOf DEF RepairInv, NothingAhead
      <3>2. \A x \in Subs : /\ mirror'[x].at = mirror[x].at
                            /\ x # s => mirror'[x].status = mirror[x].status
        BY <1>2, <2>4 DEF RepairInv, RepairTypes, Rowlike
      <3>3. \A x \in Subs : /\ mirror'[x].at <= stripeTime'
                            /\ mirror'[x].status # "none" => remote'[x] # "none"
        BY <1>2, <2>1, <2>2, <3>2, RepairTypesOf DEF RepairInv, NothingAhead
      <3> QED
        BY <3>1, <3>3 DEF Cancels, RepairInv, NothingAhead
    <2> QED
      BY <2>2, <2>6, <2>7, RepairIsDisturbed DEF Cancels, Disturb
  <1> QED
    BY <1>1, <1>2 DEF Cancels, Happens

LEMMA RepairKeptByUnmaps ==
  ASSUME ReconcileAssumption, RepairInv, Unmaps
  PROVE  RepairInv'
  <1>1. /\ mirror' \in [Subs -> Rowlike]
        /\ \A s \in Subs : mirror'[s].at = mirror[s].at /\ mirror'[s].status = mirror[s].status
    <2>1. CASE UNCHANGED mirror
      BY <2>1 DEF RepairInv, RepairTypes
    <2>2. CASE mirror' = [s \in Subs |-> [mirror[s] EXCEPT !.owned = FALSE]]
      BY <2>2 DEF RepairInv, RepairTypes, Rowlike
    <2> QED
      BY <2>1, <2>2 DEF Unmaps
  <1>2. RepairTypes'
    BY <1>1 DEF Unmaps, stripe, Disturb, RepairInv, RepairTypes, SyncShape
  <1>3. NothingAhead'
    BY <1>1 DEF Unmaps, stripe, RepairInv, NothingAhead
  <1> QED
    BY <1>2, <1>3, RepairIsDisturbed DEF Unmaps, stripe, Disturb

-----------------------------------------------------------------------------
(* The steps of the sync *)

\* The fields of a sync that is in progress or has ended.
LEMMA SyncFields ==
  ASSUME RepairTypes, sync # Quiet
  PROVE  /\ sync.pc \in {"list", "find", "orphans", "ended", "write"}
         /\ sync.left \subseteq Subs /\ sync.seen \in [Subs -> SubStatus \cup {"none"}]
         /\ sync.errors \in BOOLEAN
         /\ sync.pc = "write" => sync.sub \in Subs
  BY DEF RepairTypes, SyncShape

LEMMA SyncIsOn == ASSUME sync.pc # "off" PROVE sync # Quiet
  BY DEF Quiet

LEMMA RepairKeptByLists ==
  ASSUME RepairInv, SyncLists
  PROVE  RepairInv'
  <1>1. sync' = [pc |-> "find", left |-> {s \in Subs : remote[s] # "none"},
                 seen |-> remote, errors |-> FALSE]
    BY DEF SyncLists
  <1>2. RepairTypes'
    <2>1. SyncShape'
      BY <1>1 DEF RepairInv, RepairTypes, SyncShape
    <2> QED
      BY <2>1 DEF SyncLists, stripe, tables, RepairInv, RepairTypes
  <1>3. NothingAhead'
    BY DEF SyncLists, stripe, tables, RepairInv, NothingAhead
  <1>4. SyncKeepsUp'
    <2>1. \A s \in Subs : s \notin sync'.left => mirror[s].status = remote[s]
      BY <1>1 DEF RepairInv, NothingAhead
    <2> QED
      BY <1>1, <2>1 DEF SyncLists, stripe, tables, SyncKeepsUp, Passed
  <1> QED
    BY <1>2, <1>3, <1>4 DEF RepairInv

LEMMA RepairKeptByFinds ==
  ASSUME RepairInv, NEW s \in Subs, FindsLocal(s)
  PROVE  RepairInv'
  <1>0. sync # Quiet /\ sync.pc = "find" /\ s \in sync.left
    BY SyncIsOn DEF FindsLocal
  <1>1. NothingAhead'
    BY DEF FindsLocal, stripe, tables, RepairInv, NothingAhead
  <1>2. CASE mirror[s].status = sync.seen[s]
    <2>1. /\ sync'.pc = "find" /\ sync'.left = sync.left \ {s} /\ sync'.seen = sync.seen
          /\ sync'.errors = sync.errors
          /\ sync' \in [pc : {"find"}, left : SUBSET Subs,
                        seen : [Subs -> SubStatus \cup {"none"}], errors : BOOLEAN]
      BY <1>0, <1>2 DEF FindsLocal, RepairInv, RepairTypes, SyncShape
    <2>2. RepairTypes'
      BY <2>1 DEF FindsLocal, stripe, tables, RepairInv, RepairTypes, SyncShape
    <2>3. SyncKeepsUp'
      BY <1>0, <1>2, <2>1 DEF FindsLocal, stripe, tables, RepairInv, SyncKeepsUp, Passed
    <2> QED
      BY <1>1, <2>2, <2>3 DEF RepairInv
  <1>3. CASE mirror[s].status # sync.seen[s]
    <2>1. sync' = [pc |-> "write", sub |-> s, left |-> sync.left \ {s},
                   seen |-> sync.seen, errors |-> sync.errors]
      BY <1>3 DEF FindsLocal
    <2>2. RepairTypes'
      <3>1. SyncShape'
        BY <1>0, <2>1, SyncFields DEF RepairInv, SyncShape
      <3> QED
        BY <3>1 DEF FindsLocal, stripe, tables, RepairInv, RepairTypes
    <2>3. SyncKeepsUp'
      BY <1>0, <2>1 DEF FindsLocal, stripe, tables, RepairInv, SyncKeepsUp, Passed
    <2> QED
      BY <1>1, <2>2, <2>3 DEF RepairInv
  <1> QED
    BY <1>2, <1>3

\* What was listed is saved under the present time, which nothing is ahead of; or the
\* error is counted.
LEMMA RepairKeptByRepairs ==
  ASSUME ReconcileAssumption, RepairInv, Repairs
  PROVE  RepairInv'
  <1>0. /\ sync # Quiet /\ sync.pc = "write"
        /\ sync.sub \in Subs /\ sync.seen[sync.sub] \in SubStatus
    <2>1. sync # Quiet /\ sync.pc = "write"
      BY SyncIsOn DEF Repairs
    <2> QED
      BY <2>1, SyncFields DEF RepairInv, SyncKeepsUp
  <1> DEFINE s == sync.sub
  <1>1. /\ sync'.pc = "find" /\ sync'.left = sync.left /\ sync'.seen = sync.seen
        /\ sync'.errors \in BOOLEAN /\ (sync.errors => sync'.errors)
        /\ sync' \in [pc : {"find"}, left : SUBSET Subs,
                      seen : [Subs -> SubStatus \cup {"none"}], errors : BOOLEAN]
    <2>1. \/ sync' = [pc |-> "find", left |-> sync.left, seen |-> sync.seen, errors |-> sync.errors]
          \/ sync' = [pc |-> "find", left |-> sync.left, seen |-> sync.seen, errors |-> TRUE]
      BY DEF Repairs
    <2> QED
      <3>1. sync.left \subseteq Subs /\ sync.seen \in [Subs -> SubStatus \cup {"none"}]
            /\ sync.errors \in BOOLEAN
        BY <1>0, SyncFields DEF RepairInv
      <3>2. CASE sync' = [pc |-> "find", left |-> sync.left, seen |-> sync.seen, errors |-> sync.errors]
        BY <3>1, <3>2
      <3>3. CASE sync' = [pc |-> "find", left |-> sync.left, seen |-> sync.seen, errors |-> TRUE]
        BY <3>1, <3>3
      <3> QED
        BY <2>1, <3>2, <3>3
  <1>2. UNCHANGED <<stripeTime, remote, events, disturbed>>
    BY DEF Repairs, stripe
  <1>3. CASE UNCHANGED <<plan, mirror>> /\ sync'.errors
    <2>1. RepairTypes'
      BY <1>1, <1>2, <1>3 DEF RepairInv, RepairTypes, SyncShape
    <2>2. NothingAhead'
      BY <1>2, <1>3 DEF RepairInv, NothingAhead
    <2>3. SyncKeepsUp'
      BY <1>0, <1>1, <1>2, <1>3 DEF RepairInv, SyncKeepsUp
    <2> QED
      BY <2>1, <2>2, <2>3 DEF RepairInv
  <1>4. CASE SavesSub(s, sync.seen[s], Stamp)
    <2>1. Stamp \in 0 .. MaxClock
      BY DEF Stamp, RepairInv, RepairTypes
    <2>2. /\ mirror' \in [Subs -> Rowlike]
          /\ plan' \in PlanRows /\ plan'.source = "stripe"
          /\ mirror'[s].status = sync.seen[s] /\ mirror'[s].at = stripeTime
          /\ \A x \in Subs : x # s => mirror'[x] = mirror[x]
      BY <1>0, <1>4, <2>1, SavedIsTyped DEF Stamp, RepairInv
    <2>3. RepairTypes'
      BY <1>1, <1>2, <2>2 DEF RepairInv, RepairTypes, SyncShape
    <2>4. NothingAhead'
      <3>1. remote[s] # "none"
        BY <1>0 DEF RepairInv, SyncKeepsUp, SubStatus
      <3>2. stripeTime <= stripeTime
        BY RepairTypesOf DEF RepairInv
      <3>3. \A x \in Subs : /\ mirror'[x].at <= stripeTime
                            /\ mirror'[x].status # "none" => remote[x] # "none"
        BY <2>2, <3>1, <3>2 DEF RepairInv, NothingAhead
      <3> QED
        BY <1>2, <2>2, <3>3 DEF RepairInv, NothingAhead
    <2>5. ASSUME ~disturbed, ~sync'.errors, NEW x \in Subs, x \notin sync'.left
          PROVE  mirror'[x].status = remote[x]
      <3>1. sync.seen = remote /\ ~sync.errors
        BY <1>0, <1>1, <2>5 DEF RepairInv, SyncKeepsUp
      <3>2. CASE x = s
        BY <2>2, <3>1, <3>2
      <3>3. CASE x # s
        BY <1>0, <1>1, <2>2, <2>5, <3>1, <3>3 DEF RepairInv, SyncKeepsUp, Passed
      <3> QED
        BY <3>2, <3>3
    <2>6. SyncKeepsUp'
      BY <1>0, <1>1, <1>2, <2>5 DEF RepairInv, SyncKeepsUp, Passed
    <2> QED
      BY <2>3, <2>4, <2>6 DEF RepairInv
  <1>5. CASE Stamp < mirror[s].at
    BY <1>0, <1>5, RepairTypesOf DEF Stamp, RepairInv, NothingAhead
  <1>6. Stamp \in Nat /\ mirror[s].at \in Nat
    BY <1>0, RepairTypesOf DEF Stamp, RepairInv
  <1>7. \/ UNCHANGED <<plan, mirror>> /\ sync'.errors
        \/ SavesSub(s, sync.seen[s], Stamp)
        \/ ~(Stamp >= mirror[s].at)
    BY DEF Repairs
  <1> HIDE DEF s
  <1>8. ~(Stamp >= mirror[s].at) => Stamp < mirror[s].at
    BY <1>6
  <1> QED
    BY <1>3, <1>4, <1>5, <1>7, <1>8

LEMMA RepairKeptByListEnds ==
  ASSUME RepairInv, ListEnds
  PROVE  RepairInv'
  <1>0. sync # Quiet
    BY SyncIsOn DEF ListEnds
  <1>1. /\ sync.pc = "find" /\ sync'.pc = "orphans" /\ sync'.left = {} /\ sync.left = {}
        /\ sync'.seen = sync.seen /\ sync'.errors = sync.errors
        /\ sync' \in [pc : {"orphans"}, left : SUBSET Subs,
                      seen : [Subs -> SubStatus \cup {"none"}], errors : BOOLEAN]
    BY <1>0 DEF ListEnds, RepairInv, RepairTypes, SyncShape
  <1>2. RepairTypes'
    BY <1>1 DEF ListEnds, stripe, tables, RepairInv, RepairTypes, SyncShape
  <1>3. NothingAhead'
    BY DEF ListEnds, stripe, tables, RepairInv, NothingAhead
  <1>4. SyncKeepsUp'
    BY <1>0, <1>1 DEF ListEnds, stripe, tables, RepairInv, SyncKeepsUp, Passed
  <1> QED
    BY <1>2, <1>3, <1>4 DEF RepairInv

LEMMA RepairKeptByOrphans ==
  ASSUME RepairInv, Orphans
  PROVE  RepairInv'
  <1>0. sync # Quiet
    BY SyncIsOn DEF Orphans
  <1>1. /\ sync.pc = "orphans" /\ sync'.pc = "ended" /\ sync'.left = sync.left
        /\ sync'.seen = sync.seen /\ sync'.errors = sync.errors
        /\ sync' \in [pc : {"ended"}, left : SUBSET Subs,
                      seen : [Subs -> SubStatus \cup {"none"}], errors : BOOLEAN]
    BY <1>0 DEF Orphans, RepairInv, RepairTypes, SyncShape
  <1>2. plan' \in PlanRows \cup {NoPlan} /\ (plan'.source # "stripe" => plan'.plan # "paid")
    BY DEF Orphans, RepairInv, RepairTypes, NothingAhead, PlanRows
  <1>3. RepairTypes'
    BY <1>1, <1>2 DEF Orphans, stripe, RepairInv, RepairTypes, SyncShape
  <1>4. NothingAhead'
    BY <1>2 DEF Orphans, stripe, RepairInv, NothingAhead
  <1>5. PaidForOne'
    BY DEF Orphans, RepairInv, NothingAhead, PaidForOne
  <1>6. SyncKeepsUp'
    BY <1>0, <1>1, <1>5 DEF Orphans, stripe, RepairInv, SyncKeepsUp, Passed
  <1> QED
    BY <1>3, <1>4, <1>6 DEF RepairInv

-----------------------------------------------------------------------------

LEMMA RepairStep == ReconcileAssumption /\ RepairInv /\ [ReconcileNext]_reconcileVars => RepairInv'
  <1> SUFFICES ASSUME ReconcileAssumption, RepairInv, [ReconcileNext]_reconcileVars PROVE RepairInv'
    OBVIOUS
  <1>1. ASSUME NEW c \in Callers,
               \/ Finds(c) \/ CreatesCustomer(c) \/ InsertsCustomer(c) \/ RereadsCustomer(c)
               \/ OpensSession(c) \/ MapsCheckout(c)
        PROVE  RepairInv'
    <2>1. UNCHANGED <<stripeTime, remote, events, mirror, plan, sync>> /\ (disturbed' = disturbed \/ disturbed' = TRUE)
      BY <1>1 DEF Finds, CreatesCustomer, InsertsCustomer, RereadsCustomer, OpensSession,
                  MapsCheckout, stripe, tables, procs, Disturb
    <2> QED
      BY <2>1, RepairRestsWhen
  <1>2. ASSUME \/ UNCHANGED reconcileVars \/ Leaves \/ KeyForgotten
               \/ \E force \in BOOLEAN : FindsPlan(force)
        PROVE  RepairInv'
    <2>1. UNCHANGED <<stripeTime, remote, events, mirror, plan, sync>> /\ disturbed' = disturbed
      BY <1>2 DEF Leaves, FindsPlan, KeyForgotten, reconcileVars, stripe, tables, procs
    <2> QED
      BY <2>1, RepairRestsWhen, Zenon
  <1>3. ASSUME NEW s \in Subs,
               \/ FindsLocal(s) \/ Cancels(s) \/ Ceases(s)
               \/ \E c \in Callers : ChecksOut(s, c)
        PROVE  RepairInv'
    <2>1. ASSUME Ceases(s) PROVE RepairInv'
      BY <2>1, RepairKeptByStripe DEF Ceases, tables, procs, SubStatus
    <2>2. ASSUME NEW c \in Callers, ChecksOut(s, c) PROVE RepairInv'
      BY <2>2, RepairKeptByStripe DEF ChecksOut, tables, procs, SubStatus
    <2> QED
      BY <1>3, <2>1, <2>2, RepairKeptByFinds, RepairKeptByCancels
  <1>4. ASSUME SyncLists \/ Repairs \/ ListEnds \/ Orphans
        PROVE  RepairInv'
    BY <1>4, RepairKeptByLists, RepairKeptByRepairs, RepairKeptByListEnds, RepairKeptByOrphans
  <1>5. ASSUME AssignsDefault \/ Unmaps \/ \E e \in events : Handles(e)
        PROVE  RepairInv'
    BY <1>5, RepairKeptByBackfill, RepairKeptByUnmaps, RepairKeptByWebhooks
  <1> QED
    BY <1>1, <1>2, <1>3, <1>4, <1>5 DEF ReconcileNext

\* A sync that nothing overlapped and that counted no error leaves the mirror with
\* Stripe's statuses and no plan from Stripe without a subscription, for every set of
\* subscriptions and whatever was lost, late or disturbed before it began
\* (commands/billing_sync.ts).
THEOREM SyncRepairsTheMirror == ASSUME ReconcileAssumption PROVE ReconcileSpec => []SyncRepairs
  <1>1. ReconcileInit => RepairInv
    BY RepairStarts
  <1>2. RepairInv /\ [ReconcileNext]_reconcileVars => RepairInv'
    BY RepairStep
  <1>3. RepairInv => SyncRepairs
    <2> SUFFICES ASSUME RepairInv, sync.pc = "ended", ~disturbed, ~sync.errors
                 PROVE  (\A s \in Subs : mirror[s].status = remote[s]) /\ PaidForOne
      BY DEF SyncRepairs, PaidForOne
    <2>1. sync # Quiet
      BY SyncIsOn
    <2> QED
      BY <2>1 DEF RepairInv, SyncKeepsUp, Passed
  <1> QED
    BY <1>1, <1>2, <1>3, PTL DEF ReconcileSpec

(***************************************************************************)
(*                   A scope leaves what it has entered                    *)
(***************************************************************************)

AnyFrame == [kind : {"run", "http", "unscoped"}, tenant : ScopeTenants \cup {NoScope},
             phase : {"enter", "body", "leave"}, at : Nat, done : Nat,
             entered : Seq(Bootstrappers), left : Seq(Bootstrappers), changed : BOOLEAN]

\* What a frame on its way down has left: those above the position it is at, with a leave,
\* the last one first.
LeftDown(f) ==
  /\ f.at <= f.done
  /\ \A j \in 1 .. Len(f.left) : \E m \in f.at + 1 .. f.done :
        f.left[j] = f.entered[m] /\ f.entered[m] \in Leavers
  /\ \A m \in f.at + 1 .. f.done :
        f.entered[m] \in Leavers => \E j \in 1 .. Len(f.left) : f.left[j] = f.entered[m]
  /\ \A j, k \in 1 .. Len(f.left), m, n \in 1 .. f.done :
        j < k /\ f.left[j] = f.entered[m] /\ f.left[k] = f.entered[n] => n < m

\* A frame under which none was unregistered has entered the first of the list.
Climbs(f) ==
  /\ f.done <= Len(order) /\ Len(f.entered) = f.done
  /\ \A i \in 1 .. f.done : f.entered[i] = order[i]
  /\ f.phase # "leave" => f.left = << >>
  /\ f.phase = "leave" => LeftDown(f)

FrameOK(f) ==
  /\ f \in AnyFrame /\ (f.phase # "body" => f.kind = "run")
  /\ f.phase = "enter" => f.at = f.done + 1
  /\ ~f.changed => Climbs(f)

FramesInv ==
  /\ order \in Seq(Bootstrappers) /\ IsInjective(order)
  /\ stack \in [Tasks -> Seq(AnyFrame)]
  /\ \A t \in Tasks : \A i \in 1 .. Len(stack[t]) : FrameOK(stack[t][i])

LEMMA FramesStart == ScopeInit => FramesInv
  <1> SUFFICES ASSUME ScopeInit PROVE FramesInv
    OBVIOUS
  <1>1. PICK n \in 0 .. Cardinality(Bootstrappers) :
          order \in {s \in [1 .. n -> Bootstrappers] : IsInjective(s)}
    BY DEF ScopeInit
  <1>2. n \in Nat
    BY <1>1
  <1>3. order \in Seq(Bootstrappers) /\ IsInjective(order)
    BY <1>1, <1>2
  <1> QED
    BY <1>3 DEF ScopeInit, FramesInv

\* The frame on top is replaced by one that is in order.
LEMMA FrameReplaced ==
  ASSUME FramesInv, NEW t \in Tasks, NEW f, stack[t] # << >>, SetTop(t, f), FrameOK(f),
         UNCHANGED order
  PROVE  FramesInv'
  <1>1. f \in AnyFrame /\ stack[t] \in Seq(AnyFrame) /\ Len(stack[t]) \in Nat \ {0}
    BY DEF FramesInv, FrameOK
  <1>2. stack'[t] = Append(Front(stack[t]), f) /\ \A u \in Tasks : u # t => stack'[u] = stack[u]
    BY DEF FramesInv, SetTop
  <1>3. /\ Front(stack[t]) \in Seq(AnyFrame) /\ Len(Front(stack[t])) = Len(stack[t]) - 1
        /\ \A i \in 1 .. Len(stack[t]) - 1 : Front(stack[t])[i] = stack[t][i]
    BY <1>1 DEF Front
  <1>4. stack' \in [Tasks -> Seq(AnyFrame)]
    BY <1>1, <1>3 DEF FramesInv, SetTop
  <1>5. ASSUME NEW u \in Tasks, NEW i \in 1 .. Len(stack'[u]) PROVE FrameOK(stack'[u][i])
    <2>1. CASE u # t
      BY <1>2, <1>5, <2>1 DEF FramesInv
    <2>2. CASE u = t /\ i = Len(stack[t])
      BY <1>1, <1>2, <1>3, <1>5, <2>2
    <2>3. CASE u = t /\ i # Len(stack[t])
      <3>1. i \in 1 .. Len(stack[t]) - 1 /\ stack'[t][i] = stack[t][i]
        BY <1>1, <1>2, <1>3, <1>5, <2>3
      <3>2. FrameOK(stack[t][i])
        BY <1>1, <3>1 DEF FramesInv
      <3> QED
        BY <2>3, <3>1, <3>2
    <2> QED
      BY <2>1, <2>2, <2>3
  <1>6. \A g : FrameOK(g) => FrameOK(g)'
    BY DEF FrameOK, Climbs
  <1> QED
    BY <1>4, <1>5, <1>6 DEF FramesInv, FrameOK, Climbs

LEMMA FramePushed ==
  ASSUME FramesInv, NEW t \in Tasks, NEW f, Push(t, f), FrameOK(f), UNCHANGED order
  PROVE  FramesInv'
  <1>1. f \in AnyFrame /\ stack[t] \in Seq(AnyFrame) /\ Len(stack[t]) \in Nat
    BY DEF FramesInv, FrameOK
  <1>2. stack'[t] = Append(stack[t], f) /\ \A u \in Tasks : u # t => stack'[u] = stack[u]
    BY DEF FramesInv, Push
  <1>3. stack' \in [Tasks -> Seq(AnyFrame)]
    BY <1>1 DEF FramesInv, Push
  <1>4. ASSUME NEW u \in Tasks, NEW i \in 1 .. Len(stack'[u]) PROVE FrameOK(stack'[u][i])
    <2>1. CASE u # t
      BY <1>2, <1>4, <2>1 DEF FramesInv
    <2>2. CASE u = t /\ i = Len(stack[t]) + 1
      BY <1>1, <1>2, <1>4, <2>2
    <2>3. CASE u = t /\ i # Len(stack[t]) + 1
      <3>1. i \in 1 .. Len(stack[t]) /\ stack'[t][i] = stack[t][i]
        BY <1>1, <1>2, <1>4, <2>3
      <3>2. FrameOK(stack[t][i])
        BY <1>1, <3>1 DEF FramesInv
      <3> QED
        BY <2>3, <3>1, <3>2
    <2> QED
      BY <2>1, <2>2, <2>3
  <1> QED
    BY <1>3, <1>4 DEF FramesInv, FrameOK, Climbs

LEMMA FramePopped ==
  ASSUME FramesInv, NEW t \in Tasks, stack[t] # << >>, Pop(t), UNCHANGED order
  PROVE  FramesInv'
  <1>1. stack[t] \in Seq(AnyFrame) /\ Len(stack[t]) \in Nat \ {0}
    BY DEF FramesInv
  <1>2. stack'[t] = Front(stack[t]) /\ \A u \in Tasks : u # t => stack'[u] = stack[u]
    BY DEF FramesInv, Pop
  <1>3. /\ Front(stack[t]) \in Seq(AnyFrame) /\ Len(Front(stack[t])) = Len(stack[t]) - 1
        /\ \A i \in 1 .. Len(stack[t]) - 1 : Front(stack[t])[i] = stack[t][i]
    BY <1>1 DEF Front
  <1>4. stack' \in [Tasks -> Seq(AnyFrame)]
    BY <1>3 DEF FramesInv, Pop
  <1>5. ASSUME NEW u \in Tasks, NEW i \in 1 .. Len(stack'[u]) PROVE FrameOK(stack'[u][i])
    <2>1. CASE u # t
      BY <1>2, <1>5, <2>1 DEF FramesInv
    <2>2. CASE u = t
      <3>1. i \in 1 .. Len(stack[t]) - 1 /\ stack'[t][i] = stack[t][i]
        BY <1>1, <1>2, <1>3, <1>5, <2>2
      <3>2. FrameOK(stack[t][i])
        BY <1>1, <3>1 DEF FramesInv
      <3> QED
        BY <2>2, <3>1, <3>2
    <2> QED
      BY <2>1, <2>2
  <1> QED
    BY <1>4, <1>5 DEF FramesInv, FrameOK, Climbs

LEMMA TopIsOK ==
  ASSUME FramesInv, NEW t \in Tasks, stack[t] # << >>
  PROVE  FrameOK(Top(t))
  BY DEF FramesInv, Top, Last

\* Removing an element leaves the others where they were, or one position further down.
LEMMA RemovedAt ==
  ASSUME NEW S, NEW s \in Seq(S), NEW i \in 1 .. Len(s), NEW r, r = RemoveAt(s, i)
  PROVE  /\ r \in Seq(S) /\ Len(r) = Len(s) - 1
         /\ \A j \in 1 .. Len(s) - 1 : r[j] = IF j < i THEN s[j] ELSE s[j + 1]
  <1>1. PICK a : a = SubSeq(s, 1, i - 1)
    OBVIOUS
  <1>2. PICK b : b = SubSeq(s, i + 1, Len(s))
    OBVIOUS
  <1>3. Len(s) \in Nat /\ i \in Nat /\ r = a \o b
    BY <1>1, <1>2 DEF RemoveAt
  <1>4. a \in Seq(S) /\ Len(a) = i - 1 /\ \A j \in 1 .. i - 1 : a[j] = s[j]
    BY <1>1, <1>3
  <1>5. b \in Seq(S) /\ Len(b) = Len(s) - i /\ \A j \in 1 .. Len(s) - i : b[j] = s[i + j]
    BY <1>2, <1>3
  <1>6. r \in Seq(S) /\ Len(r) = Len(s) - 1
    BY <1>3, <1>4, <1>5
  <1>7. ASSUME NEW j \in 1 .. Len(s) - 1 PROVE r[j] = IF j < i THEN s[j] ELSE s[j + 1]
    <2>1. CASE j < i
      BY <1>3, <1>4, <1>5, <1>7, <2>1
    <2>2. CASE ~(j < i)
      <3>1. j \in Len(a) + 1 .. Len(a) + Len(b) /\ j - Len(a) = j + 1 - i /\ j + 1 - i \in 1 .. Len(s) - i
        BY <1>3, <1>4, <1>5, <1>7, <2>2
      <3>2. r[j] = b[j + 1 - i]
        BY <1>3, <1>4, <1>5, <3>1
      <3>3. b[j + 1 - i] = s[j + 1]
        <4>1. PICK k \in 1 .. Len(s) - i : k = j + 1 - i
          BY <3>1
        <4>2. b[k] = s[i + k] /\ i + k = j + 1
          BY <1>3, <1>5, <4>1
        <4> QED
          BY <4>1, <4>2
      <3> QED
        BY <2>2, <3>2, <3>3
    <2> QED
      BY <2>1, <2>2
  <1> QED
    BY <1>6, <1>7

LEMMA StaysInjective ==
  ASSUME NEW S, NEW s \in Seq(S), IsInjective(s), NEW i \in 1 .. Len(s), NEW r, r = RemoveAt(s, i)
  PROVE  IsInjective(r)
  <1>1. /\ r \in Seq(S) /\ Len(r) = Len(s) - 1 /\ Len(s) \in Nat /\ i \in Nat
        /\ \A j \in 1 .. Len(s) - 1 : r[j] = IF j < i THEN s[j] ELSE s[j + 1]
    BY RemovedAt
  <1>2. \A j, k \in 1 .. Len(s) : s[j] = s[k] => j = k
    BY DEF IsInjective
  <1>3. ASSUME NEW j \in 1 .. Len(s) - 1, NEW k \in 1 .. Len(s) - 1, r[j] = r[k] PROVE j = k
    <2>1. PICK x \in 1 .. Len(s) : x = IF j < i THEN j ELSE j + 1
      BY <1>1, <1>3
    <2>2. PICK y \in 1 .. Len(s) : y = IF k < i THEN k ELSE k + 1
      BY <1>1, <1>3
    <2>3. s[x] = s[y]
      BY <1>1, <1>3, <2>1, <2>2
    <2>4. x = y
      BY <1>2, <2>3
    <2> QED
      BY <1>1, <1>3, <2>1, <2>2, <2>4
  <1>4. DOMAIN r = 1 .. Len(s) - 1
    BY <1>1
  <1> QED
    BY <1>3, <1>4 DEF IsInjective

LEMMA FramesKeptByRegistry ==
  ASSUME FramesInv, NEW b \in Bootstrappers, RegisterBootstrapper(b) \/ Unregister(b)
  PROVE  FramesInv'
  <1>1. CASE RegisterBootstrapper(b)
    <2>1. /\ order' = Append(order, b) /\ order \in Seq(Bootstrappers) /\ stack' = stack
          /\ \A i \in 1 .. Len(order) : order[i] # b
      BY <1>1 DEF FramesInv, RegisterBootstrapper, ToSet
    <2>2. /\ order' \in Seq(Bootstrappers) /\ Len(order') = Len(order) + 1
          /\ order'[Len(order) + 1] = b /\ \A i \in 1 .. Len(order) : order'[i] = order[i]
      BY <2>1
    <2>3. IsInjective(order')
      BY <2>1, <2>2 DEF FramesInv, IsInjective
    <2>4. ASSUME NEW f, FrameOK(f) PROVE FrameOK(f)'
      BY <2>1, <2>2, <2>4 DEF FrameOK, Climbs, AnyFrame
    <2> QED
      BY <2>1, <2>2, <2>3, <2>4 DEF FramesInv
  <1>2. CASE Unregister(b)
    <2>1. PICK i \in DOMAIN order : order' = RemoveAt(order, i)
      BY <1>2 DEF Unregister
    <2>2. order \in Seq(Bootstrappers) /\ i \in 1 .. Len(order) /\ IsInjective(order)
      BY DEF FramesInv
    <2>3. order' \in Seq(Bootstrappers) /\ IsInjective(order')
      BY <2>1, <2>2, RemovedAt, StaysInjective
    <2>5. ASSUME NEW t \in Tasks
          PROVE  /\ stack'[t] \in Seq(AnyFrame)
                 /\ (\A j \in 1 .. Len(stack[t]) : FrameOK(stack[t][j]))'
      <3>1. stack[t] \in Seq(AnyFrame) /\ Len(stack[t]) \in Nat
            /\ \A j \in 1 .. Len(stack[t]) : FrameOK(stack[t][j])
        BY DEF FramesInv
      <3>2. stack'[t] = [j \in 1 .. Len(stack[t]) |-> [stack[t][j] EXCEPT !.changed = TRUE]]
        BY <1>2, <3>1 DEF Unregister
      <3>3. ASSUME NEW j \in 1 .. Len(stack[t]), NEW f, f = stack[t][j],
                   NEW g, g = [f EXCEPT !.changed = TRUE]
            PROVE  /\ g \in AnyFrame /\ g.changed /\ (g.phase # "body" => g.kind = "run")
                   /\ g.phase = "enter" => g.at = g.done + 1
        <4>1. f \in AnyFrame /\ (f.phase # "body" => f.kind = "run")
              /\ (f.phase = "enter" => f.at = f.done + 1)
          BY <3>1, <3>3 DEF FrameOK
        <4> QED
          BY <3>3, <4>1 DEF AnyFrame
      <3>4. \A j \in 1 .. Len(stack[t]) :
              LET g == [stack[t][j] EXCEPT !.changed = TRUE]
              IN  /\ g \in AnyFrame /\ g.changed /\ (g.phase # "body" => g.kind = "run")
                  /\ g.phase = "enter" => g.at = g.done + 1
        BY <3>3
      <3>5. \A j \in 1 .. Len(stack[t]) : [stack[t][j] EXCEPT !.changed = TRUE] \in AnyFrame
        BY <3>4
      <3>6. stack'[t] \in Seq(AnyFrame) /\ Len(stack'[t]) = Len(stack[t])
        BY <3>1, <3>2, <3>5
      <3>7. ASSUME NEW j \in 1 .. Len(stack'[t]) PROVE FrameOK(stack[t][j])'
        <4>1. PICK g : g = [stack[t][j] EXCEPT !.changed = TRUE]
          OBVIOUS
        <4>2. stack'[t][j] = g
          BY <3>2, <3>6, <4>1
        <4>3. /\ g \in AnyFrame /\ g.changed /\ (g.phase # "body" => g.kind = "run")
              /\ g.phase = "enter" => g.at = g.done + 1
          BY <3>4, <3>6, <4>1
        <4>4. FrameOK(g)'
          BY <4>3 DEF FrameOK
        <4> QED
          BY <4>2, <4>4 DEF FrameOK, Climbs
      <3> QED
        BY <3>6, <3>7
    <2>6. stack' = [t \in Tasks |-> stack'[t]]
      BY <1>2 DEF Unregister
    <2> QED
      BY <2>3, <2>5, <2>6 DEF FramesInv
  <1> QED
    BY <1>1, <1>2

LEMMA NewFrameIsOK ==
  ASSUME FramesInv, NEW tenant \in ScopeTenants \cup {NoScope},
         NEW kind \in {"run", "http", "unscoped"}, NEW phase \in {"enter", "body"},
         phase = "body" \/ kind = "run"
  PROVE  FrameOK(NewFrame(kind, tenant, phase))
  BY DEF FramesInv, NewFrame, FrameOK, Climbs, AnyFrame

LEMMA UnwoundIsOK ==
  ASSUME FramesInv, NEW f, FrameOK(f), f.kind = "run", f.phase # "leave"
  PROVE  FrameOK(Unwound(f))
  <1>1. f \in AnyFrame /\ Len(order) \in Nat
    BY DEF FramesInv, FrameOK
  <1>2. Unwound(f) \in AnyFrame /\ Unwound(f).kind = "run"
    BY <1>1 DEF Unwound, AnyFrame
  <1>3. ASSUME ~f.changed PROVE Climbs(Unwound(f))
    BY <1>1, <1>3 DEF FrameOK, Unwound, AnyFrame, Climbs, LeftDown
  <1>4. Unwound(f).changed = f.changed
    BY <1>1 DEF Unwound, AnyFrame
  <1>5. Unwound(f).phase = "leave"
    BY <1>1 DEF Unwound, AnyFrame
  <1> QED
    BY <1>2, <1>3, <1>4, <1>5 DEF FrameOK

LEMMA FramesKeptByEnter ==
  ASSUME FramesInv, NEW t \in Tasks, Enter(t)
  PROVE  FramesInv'
  <1>1. PICK f : f = Top(t)
    OBVIOUS
  <1>2. PICK g : g = [f EXCEPT !.entered = Append(f.entered, order[f.at]),
                               !.done = f.done + 1, !.at = f.at + 1]
    OBVIOUS
  <1>3. stack[t] # << >> /\ f.phase = "enter" /\ f.at <= Len(order) /\ SetTop(t, g) /\ UNCHANGED order
    BY <1>1, <1>2 DEF Enter, Entering
  <1>4. FrameOK(f) /\ f \in AnyFrame /\ order \in Seq(Bootstrappers)
    BY <1>1, <1>3, TopIsOK DEF FrameOK, FramesInv
  <1>5. f.done \in Nat /\ f.at = f.done + 1 /\ f.entered \in Seq(Bootstrappers)
    BY <1>3, <1>4 DEF AnyFrame, FrameOK
  <1>6. order[f.at] \in Bootstrappers
    BY <1>3, <1>4, <1>5
  <1>7. g \in AnyFrame /\ g.kind = f.kind /\ g.phase = f.phase /\ g.changed = f.changed
        /\ g.at = g.done + 1 /\ g.done = f.done + 1 /\ g.left = f.left
        /\ g.entered = Append(f.entered, order[f.at])
    <2>1. PICK e : e = Append(f.entered, order[f.at])
      OBVIOUS
    <2>2. PICK d \in Nat : d = f.done + 1
      BY <1>5
    <2>3. e \in Seq(Bootstrappers) /\ d + 1 \in Nat
      BY <1>5, <1>6, <2>1, <2>2
    <2>4. g = [f EXCEPT !.entered = e, !.done = d, !.at = d + 1]
      BY <1>2, <1>5, <2>1, <2>2
    <2>5. g \in AnyFrame /\ g.kind = f.kind /\ g.phase = f.phase /\ g.changed = f.changed
          /\ g.at = d + 1 /\ g.done = d /\ g.left = f.left /\ g.entered = e
      BY <1>4, <2>3, <2>4 DEF AnyFrame
    <2> QED
      BY <2>1, <2>2, <2>5
  <1>8. ASSUME ~g.changed PROVE Climbs(g)
    <2>1. Climbs(f)
      BY <1>4, <1>7, <1>8 DEF FrameOK
    <2> QED
      BY <1>3, <1>4, <1>5, <1>6, <1>7, <2>1 DEF Climbs
  <1>9. FrameOK(g)
    BY <1>3, <1>4, <1>7, <1>8 DEF FrameOK
  <1> QED
    BY <1>3, <1>9, FrameReplaced

\* The next position down is left when it has a leave: the sequence grows by it, at the end.
LEMMA LeaveGoesDown ==
  ASSUME FramesInv, NEW f, NEW g, FrameOK(f), f.phase = "leave", f.at > 0,
         g \in AnyFrame, g.kind = f.kind, g.phase = f.phase, g.changed = f.changed,
         g.at = f.at - 1, g.done = f.done, g.entered = f.entered,
         g.left = IF f.at \in DOMAIN order /\ order[f.at] \in Leavers
                  THEN Append(f.left, order[f.at]) ELSE f.left
  PROVE  FrameOK(g)
  <1>1. /\ f \in AnyFrame /\ f.at \in Nat \ {0} /\ f.done \in Nat
        /\ f.left \in Seq(Bootstrappers) /\ Len(f.left) \in Nat
        /\ order \in Seq(Bootstrappers) /\ IsInjective(order)
    BY DEF FramesInv, FrameOK, AnyFrame
  <1>2. /\ g \in AnyFrame /\ g.kind = f.kind /\ g.phase = f.phase /\ g.changed = f.changed
        /\ g.at = f.at - 1 /\ g.done = f.done /\ g.entered = f.entered
        /\ g.left = IF f.at \in DOMAIN order /\ order[f.at] \in Leavers
                    THEN Append(f.left, order[f.at]) ELSE f.left
    OBVIOUS
  <1>3. ASSUME ~g.changed PROVE Climbs(g)
    <2>1. Climbs(f) /\ LeftDown(f)
      BY <1>2, <1>3 DEF FrameOK, Climbs
    <2>2. /\ f.at \in 1 .. f.done /\ f.at \in DOMAIN order /\ order[f.at] = f.entered[f.at]
          /\ f.done <= Len(order) /\ \A i \in 1 .. f.done : f.entered[i] = order[i]
      BY <1>1, <2>1 DEF Climbs, LeftDown
    <2>3. \A i, j \in 1 .. f.done : f.entered[i] = f.entered[j] => i = j
      BY <1>1, <2>2 DEF IsInjective
    <2>4. CASE f.entered[f.at] \in Leavers
      <3>1. /\ g.left = Append(f.left, f.entered[f.at]) /\ Len(g.left) = Len(f.left) + 1
            /\ g.left[Len(f.left) + 1] = f.entered[f.at]
            /\ \A j \in 1 .. Len(f.left) : g.left[j] = f.left[j]
        BY <1>1, <1>2, <2>2, <2>4
      <3>2. ASSUME NEW j \in 1 .. Len(g.left)
            PROVE  \E m \in g.at + 1 .. g.done : g.left[j] = g.entered[m] /\ g.entered[m] \in Leavers
        <4>1. CASE j = Len(f.left) + 1
          BY <1>1, <1>2, <2>2, <2>4, <3>1, <4>1
        <4>2. CASE j # Len(f.left) + 1
          <5>1. j \in 1 .. Len(f.left)
            BY <1>1, <3>1, <3>2, <4>2
          <5>2. PICK m \in f.at + 1 .. f.done : f.left[j] = f.entered[m] /\ f.entered[m] \in Leavers
            BY <2>1, <5>1 DEF LeftDown
          <5>3. m \in g.at + 1 .. g.done
            BY <1>1, <1>2
          <5> QED
            BY <1>2, <3>1, <5>1, <5>2, <5>3
        <4> QED
          BY <4>1, <4>2
      <3>3. ASSUME NEW m \in g.at + 1 .. g.done, g.entered[m] \in Leavers
            PROVE  \E j \in 1 .. Len(g.left) : g.left[j] = g.entered[m]
        <4>1. CASE m = f.at
          BY <1>1, <1>2, <3>1, <4>1
        <4>2. CASE m # f.at
          BY <1>1, <1>2, <2>1, <3>1, <3>3, <4>2 DEF LeftDown
        <4> QED
          BY <4>1, <4>2
      <3>4. ASSUME NEW j \in 1 .. Len(g.left), NEW k \in 1 .. Len(g.left),
                   NEW m \in 1 .. g.done, NEW n \in 1 .. g.done,
                   j < k, g.left[j] = g.entered[m], g.left[k] = g.entered[n]
            PROVE  n < m
        <4>1. j \in 1 .. Len(f.left) /\ g.left[j] = f.left[j]
          BY <1>1, <3>1, <3>4
        <4>2. CASE k = Len(f.left) + 1
          <5>1. n = f.at
            BY <1>2, <2>2, <2>3, <3>1, <3>4, <4>2
          <5>2. PICK p \in f.at + 1 .. f.done : f.left[j] = f.entered[p]
            BY <2>1, <4>1 DEF LeftDown
          <5>3. m = p
            <6>1. m \in 1 .. f.done
              BY <1>2
            <6>2. f.at \in Nat /\ f.done \in Nat
              BY <1>1
            <6>3. p \in 1 .. f.done
              BY <6>2
            <6>4. f.entered[m] = f.entered[p]
              BY <1>2, <3>4, <4>1, <5>2
            <6> QED
              BY <2>3, <6>1, <6>3, <6>4
          <5> QED
            BY <1>1, <5>1, <5>2, <5>3
        <4>3. CASE k # Len(f.left) + 1
          <5>1. k \in 1 .. Len(f.left) /\ g.left[k] = f.left[k]
            <6>1. k \in 1 .. Len(f.left) + 1
              BY <3>1
            <6>2. k \in 1 .. Len(f.left)
              BY <1>1, <4>3, <6>1
            <6> QED
              BY <3>1, <6>2
          <5>2. f.left[j] = f.entered[m] /\ f.left[k] = f.entered[n] /\ m \in 1 .. f.done /\ n \in 1 .. f.done
            BY <1>2, <3>4, <4>1, <5>1
          <5> QED
            BY <2>1, <3>4, <4>1, <5>1, <5>2 DEF LeftDown
        <4> QED
          BY <4>2, <4>3
      <3>5. LeftDown(g)
        <4>1. g.at <= g.done
          BY <1>1, <1>2, <2>2
        <4>2. \A j \in 1 .. Len(g.left) : \E m \in g.at + 1 .. g.done :
                g.left[j] = g.entered[m] /\ g.entered[m] \in Leavers
          BY <3>2
        <4>3. \A m \in g.at + 1 .. g.done :
                g.entered[m] \in Leavers => \E j \in 1 .. Len(g.left) : g.left[j] = g.entered[m]
          BY <3>3
        <4>4. \A j, k \in 1 .. Len(g.left), m, n \in 1 .. g.done :
                j < k /\ g.left[j] = g.entered[m] /\ g.left[k] = g.entered[n] => n < m
          BY <3>4
        <4> QED
          BY <4>1, <4>2, <4>3, <4>4 DEF LeftDown
      <3> QED
        BY <1>2, <2>1, <3>5 DEF Climbs
    <2>5. CASE f.entered[f.at] \notin Leavers
      <3>1. g.left = f.left
        BY <1>2, <2>2, <2>5
      <3>2. LeftDown(g)
        BY <1>1, <1>2, <2>1, <2>2, <2>5, <3>1 DEF LeftDown
      <3> QED
        BY <1>2, <2>1, <3>2 DEF Climbs
    <2> QED
      BY <2>4, <2>5
  <1> QED
    BY <1>2, <1>3 DEF FrameOK

LEMMA FramesKeptByScope ==
  ASSUME FramesInv, NEW t \in Tasks, ScopeStep(t)
  PROVE  FramesInv'
  <1>1. PICK f : f = Top(t)
    OBVIOUS
  <1>2. ASSUME stack[t] # << >> PROVE FrameOK(f) /\ f \in AnyFrame
    BY <1>1, <1>2, TopIsOK DEF FrameOK
  <1>3. CASE EnterFails(t)
    <2>1. stack[t] # << >> /\ f.phase = "enter" /\ SetTop(t, Unwound(f)) /\ UNCHANGED order
      BY <1>1, <1>3 DEF EnterFails, Entering
    <2>2. FrameOK(Unwound(f))
      BY <1>2, <2>1, UnwoundIsOK DEF FrameOK
    <2> QED
      BY <2>1, <2>2, FrameReplaced
  <1>4. CASE AllEntered(t)
    <2>1. PICK g : g = [f EXCEPT !.phase = "body"]
      OBVIOUS
    <2>2. stack[t] # << >> /\ f.phase = "enter" /\ SetTop(t, g) /\ UNCHANGED order
      BY <1>1, <1>4, <2>1 DEF AllEntered, Entering
    <2>3. FrameOK(g)
      BY <1>2, <2>1, <2>2 DEF FrameOK, AnyFrame, Climbs
    <2> QED
      BY <2>2, <2>3, FrameReplaced
  <1>5. CASE BodyEnds(t)
    <2>1. stack[t] # << >> /\ f.phase = "body" /\ UNCHANGED order
          /\ IF f.kind = "run" THEN SetTop(t, Unwound(f)) ELSE Pop(t)
      BY <1>1, <1>5 DEF BodyEnds
    <2>2. CASE f.kind = "run"
      <3>1. FrameOK(Unwound(f))
        BY <1>2, <2>1, <2>2, UnwoundIsOK
      <3> QED
        BY <2>1, <2>2, <3>1, FrameReplaced
    <2>3. CASE f.kind # "run"
      BY <2>1, <2>3, FramePopped
    <2> QED
      BY <2>2, <2>3
  <1>6. CASE Leave(t)
    <2>1. PICK g : g = [f EXCEPT !.at = f.at - 1,
                                 !.left = IF f.at \in DOMAIN order /\ order[f.at] \in Leavers
                                          THEN Append(f.left, order[f.at]) ELSE f.left]
      OBVIOUS
    <2>2. stack[t] # << >> /\ f.phase = "leave" /\ f.at > 0 /\ SetTop(t, g) /\ UNCHANGED order
      BY <1>1, <1>6, <2>1 DEF Leave, LeavePosition
    <2>3. f \in AnyFrame /\ FrameOK(f) /\ order \in Seq(Bootstrappers)
          /\ f.at \in Nat /\ f.left \in Seq(Bootstrappers)
      BY <1>2, <2>2 DEF FramesInv, AnyFrame
    <2>4. PICK l : l = IF f.at \in DOMAIN order /\ order[f.at] \in Leavers
                       THEN Append(f.left, order[f.at]) ELSE f.left
      OBVIOUS
    <2>5. PICK a \in Nat : a = f.at - 1
      BY <2>2, <2>3
    <2>6. l \in Seq(Bootstrappers) /\ g = [f EXCEPT !.at = a, !.left = l]
      BY <2>1, <2>3, <2>4, <2>5
    <2>7. g \in AnyFrame /\ g.kind = f.kind /\ g.phase = f.phase /\ g.changed = f.changed
          /\ g.at = a /\ g.done = f.done /\ g.entered = f.entered /\ g.left = l
      BY <2>3, <2>6 DEF AnyFrame
    <2>8. FrameOK(g)
      BY <2>2, <2>3, <2>4, <2>5, <2>7, LeaveGoesDown
    <2> QED
      BY <2>2, <2>8, FrameReplaced
  <1>7. CASE AllLeft(t)
    BY <1>7, FramePopped DEF AllLeft
  <1> QED
    BY <1>3, <1>4, <1>5, <1>6, <1>7, FramesKeptByEnter DEF ScopeStep

LEMMA FramesStep == FramesInv /\ [ScopeNext]_scopeVars => FramesInv'
  <1> SUFFICES ASSUME FramesInv, [ScopeNext]_scopeVars PROVE FramesInv'
    OBVIOUS
  <1>1. ASSUME NEW t \in Tasks, NEW tenant \in ScopeTenants, RunIn(t, tenant) \/ Request(t, tenant)
        PROVE  FramesInv'
    <2>1. FrameOK(NewFrame("run", tenant, "enter")) /\ FrameOK(NewFrame("http", tenant, "body"))
      BY NewFrameIsOK
    <2> QED
      BY <1>1, <2>1, FramePushed DEF RunIn, Request
  <1>2. ASSUME NEW t \in Tasks, Unscoped(t) PROVE FramesInv'
    <2>1. FrameOK(NewFrame("unscoped", NoScope, "body"))
      BY NewFrameIsOK
    <2> QED
      BY <1>2, <2>1, FramePushed DEF Unscoped
  <1>3. ASSUME UNCHANGED scopeVars \/ \E t \in Tasks : RowStep(t) PROVE FramesInv'
    <2>1. ASSUME NEW t \in Tasks, RowStep(t) PROVE UNCHANGED <<order, stack>>
      <3>1. ASSUME NEW r \in Rows, CreateRow(t, r) \/ Fetch(t, r) \/ QueryWrites(t, r)
            PROVE  UNCHANGED <<order, stack>>
        <4>1. Querying(t)
          BY <3>1 DEF CreateRow, Fetch, QueryWrites
        <4> QED
          BY <4>1 DEF Querying
      <3>2. ASSUME NEW o \in Owners, NamesTenant(t, o) PROVE UNCHANGED <<order, stack>>
        BY <3>2 DEF NamesTenant
      <3>3. CASE SaveInstance(t)
        <4>1. Querying(t)
          BY <3>3 DEF SaveInstance
        <4> QED
          BY <4>1 DEF Querying
      <3> QED
        BY <2>1, <3>1, <3>2, <3>3 DEF RowStep
    <2>2. UNCHANGED <<order, stack>>
      BY <1>3, <2>1 DEF scopeVars
    <2> QED
      BY <2>2 DEF FramesInv, FrameOK, Climbs
  <1> QED
    BY <1>1, <1>2, <1>3, FramesKeptByScope, FramesKeptByRegistry DEF ScopeNext

\* A scope that ends, also one whose callback or enter has failed, leaves exactly what it
\* has entered and can be left, the last one first, whatever was registered meanwhile,
\* unless one was unregistered under it (bootstrapper_registry.ts, runScoped).
THEOREM ScopesLeaveWhatTheyEnter == ScopeSpec => []LeavesWhatItEntered
  <1>1. FramesInv => LeavesWhatItEntered
    <2> SUFFICES ASSUME FramesInv, NEW t \in Tasks, NEW i \in DOMAIN stack[t], NEW f,
                        f = stack[t][i], f.phase = "leave", f.at = 0, ~f.changed
                 PROVE  /\ ToSet(f.left) = ToSet(f.entered) \cap Leavers
                        /\ \A j, k \in DOMAIN f.left, m, n \in DOMAIN f.entered :
                             j < k /\ f.left[j] = f.entered[m] /\ f.left[k] = f.entered[n] => n < m
      BY DEF LeavesWhatItEntered
    <2>1. i \in 1 .. Len(stack[t])
      BY DEF FramesInv
    <2>2. FrameOK(f) /\ Climbs(f) /\ LeftDown(f)
      BY <2>1 DEF FramesInv, FrameOK, Climbs
    <2>3. /\ f.left \in Seq(Bootstrappers) /\ f.entered \in Seq(Bootstrappers) /\ f.done \in Nat
          /\ DOMAIN f.left = 1 .. Len(f.left) /\ DOMAIN f.entered = 1 .. f.done
      BY <2>2 DEF FrameOK, AnyFrame, Climbs
    <2>4. ToSet(f.left) = ToSet(f.entered) \cap Leavers
      <3>1. ASSUME NEW b \in ToSet(f.left) PROVE b \in ToSet(f.entered) \cap Leavers
        <4>1. PICK j \in 1 .. Len(f.left) : b = f.left[j]
          BY <2>3, <3>1 DEF ToSet
        <4>2. PICK m \in f.at + 1 .. f.done : f.left[j] = f.entered[m] /\ f.entered[m] \in Leavers
          BY <2>2 DEF LeftDown
        <4>3. m \in DOMAIN f.entered
          BY <2>3
        <4> QED
          BY <4>1, <4>2, <4>3 DEF ToSet
      <3>2. ASSUME NEW b \in ToSet(f.entered), b \in Leavers PROVE b \in ToSet(f.left)
        <4>1. PICK m \in 1 .. f.done : b = f.entered[m]
          BY <2>3, <3>2 DEF ToSet
        <4>2. m \in f.at + 1 .. f.done
          OBVIOUS
        <4>3. PICK j \in 1 .. Len(f.left) : f.left[j] = f.entered[m]
          BY <2>2, <3>2, <4>1, <4>2 DEF LeftDown
        <4> QED
          BY <2>3, <4>1, <4>3 DEF ToSet
      <3> QED
        BY <3>1, <3>2
    <2>5. \A j, k \in 1 .. Len(f.left), m, n \in 1 .. f.done :
            j < k /\ f.left[j] = f.entered[m] /\ f.left[k] = f.entered[n] => n < m
      BY <2>2 DEF LeftDown
    <2> QED
      BY <2>3, <2>4, <2>5
  <1> QED
    BY <1>1, FramesStart, FramesStep, PTL DEF ScopeSpec

(***************************************************************************)
(*                      Rows keep to their tenant's scope                  *)
(***************************************************************************)

\* A set of numbers up to a bound has a largest one.
Below == {p \in Nat \X Nat : p[1] < p[2]}

LEMMA LeastNumber == ASSUME NEW S \in SUBSET Nat, S # {} PROVE \E x \in S : \A y \in S : x <= y
  <1>1. IsWellFoundedOn(Below, Nat)
    BY NatLessThanWellFounded DEF OpToRel, Below
  <1>2. PICK x \in S : \A y \in S : <<y, x>> \notin Below
    BY <1>1, WFMin
  <1>3. \A y \in S : ~(y < x)
    BY <1>2 DEF Below
  <1>4. \A y \in S : x <= y
    BY <1>3
  <1> QED
    BY <1>4

LEMMA GreatestNumber ==
  ASSUME NEW n \in Nat, NEW S \in SUBSET (0 .. n), S # {}
  PROVE  \E x \in S : \A y \in S : y <= x
  <1> DEFINE U == {n - x : x \in S}
  <1>0. U \in SUBSET Nat
    OBVIOUS
  <1>1. U # {}
    OBVIOUS
  <1> HIDE DEF U
  <1>2. PICK u \in U : \A y \in U : u <= y
    BY <1>0, <1>1, LeastNumber
  <1>3. PICK x \in S : u = n - x
    BY DEF U
  <1>4. ASSUME NEW y \in S PROVE y <= x
    <2>1. n - y \in U
      BY DEF U
    <2>2. n - x <= n - y
      BY <1>2, <1>3, <2>1
    <2>3. x \in 0 .. n /\ y \in 0 .. n
      OBVIOUS
    <2> QED
      BY <2>2, <2>3
  <1> QED
    BY <1>4

\* The tenant that is current in a task is one there is, or none.
LEMMA CurrentIsATenant ==
  ASSUME FramesInv, NEW t \in Tasks
  PROVE  CurrentId(t) \in ScopeTenants \cup {NoScope} /\ Scope(t) \in ScopeTenants \cup {NoScope}
  <1>1. PICK n \in Nat : n = Len(stack[t]) /\ \A i \in 1 .. n : stack[t][i] \in AnyFrame
    BY DEF FramesInv
  <1>2. PICK I : I = {i \in 1 .. Len(stack[t]) : stack[t][i].kind \in {"run", "http"}}
    OBVIOUS
  <1>3. I \subseteq 1 .. n
    BY <1>1, <1>2
  <1>4. PICK inner : inner = IF I # {} THEN Max(I) ELSE 0
    OBVIOUS
  <1>5. inner # 0 => inner \in 1 .. n
    <2>1. ASSUME I # {} PROVE inner \in I
      <3>1. PICK x \in I : \A y \in I : y <= x
        <4>1. I \in SUBSET (0 .. n)
          BY <1>1, <1>3
        <4> QED
          BY <1>1, <2>1, <4>1, GreatestNumber
      <3>2. \A y \in I : x >= y
        BY <1>1, <1>3, <3>1
      <3>3. Max(I) \in I
        BY <3>2 DEF Max
      <3> QED
        BY <1>4, <2>1, <3>3
    <2> QED
      BY <1>3, <1>4, <2>1
  <1>6. CurrentId(t) = IF ~singletons \/ inner = 0 THEN NoScope ELSE stack[t][inner].tenant
    BY <1>2, <1>4 DEF CurrentId, SelectLastInSeq
  <1>7. inner # 0 => stack[t][inner].tenant \in ScopeTenants \cup {NoScope}
    BY <1>1, <1>5 DEF AnyFrame
  <1>8. CurrentId(t) \in ScopeTenants \cup {NoScope}
    BY <1>6, <1>7
  <1> QED
    BY <1>8 DEF Scope

\* An instance as it was read carries the owner its row has, unless the row is gone.
HoldsTheOwner(t) ==
  /\ held[t] # Nobody => held[t].row \in Rows /\ owner[held[t].row] # NoScope
  /\ held[t] # Nobody /\ held[t].as = "read" =>
       owner[held[t].row] \in {held[t].owner, "gone"} /\ held[t].owner \in Owners
  /\ held[t] # Nobody /\ held[t].as = "named" => held[t].owner \in Owners

RowInv ==
  /\ held = [t \in Tasks |-> held[t]] /\ owner = [r \in Rows |-> owner[r]]
  /\ \A t \in Tasks : HoldsTheOwner(t)
  /\ RowsKeepToTheirScope

LEMMA RowsStart == ScopeInit => RowInv
  BY DEF ScopeInit, RowInv, HoldsTheOwner, RowsKeepToTheirScope, NoWrite

\* Steps that write no row, and at most let go of an instance.
LEMMA RowsRest ==
  ASSUME RowInv, NEW t \in Tasks, UNCHANGED <<owner, wrote>>,
         held' = held \/ held' = [held EXCEPT ![t] = Nobody]
  PROVE  RowInv'
  BY DEF RowInv, HoldsTheOwner, RowsKeepToTheirScope

\* A write through a query, or of an instance: from a tenant's scope it is the owner's.
LEMMA WriteIsTheOwners ==
  ASSUME NEW t, NEW o, NEW named \in BOOLEAN, Scope(t) \in {o, NoScope} \/ named,
         RowWrite(t, o, named)
  PROVE  RowsKeepToTheirScope'
  BY DEF Scope, RowWrite, RowsKeepToTheirScope

\* A row gets an owner, or is gone: what the writer holds then is in order, and the other
\* tasks' instances of the row are out of date.
LEMMA RowBecoming ==
  ASSUME ScopeAssumption, RowInv, NEW t \in Tasks, NEW r \in Rows, NEW o \in Owners \cup {"gone"},
         NEW mine, RowBecomes(t, r, o, mine), owner[r] # NoScope \/ \A k \in Tasks : held[k].row # r,
         mine # Nobody => mine.row \in Rows /\ (mine.row # r => owner[mine.row] # NoScope),
         mine # Nobody /\ mine.as = "read" =>
           /\ mine.owner \in Owners
           /\ mine.row = r => o \in {mine.owner, "gone"}
           /\ mine.row # r => owner[mine.row] \in {mine.owner, "gone"},
         mine # Nobody /\ mine.as = "named" => mine.owner \in Owners,
         RowsKeepToTheirScope'
  PROVE  RowInv'
  <1>0. o # NoScope /\ NoScope \notin Rows
    BY DEF ScopeAssumption, Owners
  <1>1. /\ owner' = [x \in Rows |-> owner'[x]] /\ held' = [k \in Tasks |-> held'[k]]
        /\ owner'[r] = o /\ \A x \in Rows : x # r => owner'[x] = owner[x]
        /\ held'[t] = mine
        /\ \A k \in Tasks : k # t =>
             held'[k] = IF held[k].row = r /\ held[k].as = "read" /\ o # owner[r]
                        THEN [held[k] EXCEPT !.as = "stale"] ELSE held[k]
    BY DEF RowBecomes, RowInv
  <1>2. ASSUME NEW k \in Tasks PROVE HoldsTheOwner(k)'
    <2>1. CASE k = t
      BY <1>0, <1>1, <2>1 DEF HoldsTheOwner
    <2>2. CASE k # t
      <3>1. HoldsTheOwner(k)
        BY DEF RowInv
      <3>2. CASE held[k].row = r /\ held[k].as = "read" /\ o # owner[r]
        <4>1. held'[k] = [held[k] EXCEPT !.as = "stale"] /\ held[k] # Nobody
          BY <1>0, <1>1, <2>2, <3>2 DEF Nobody
        <4>2. held'[k].row = held[k].row /\ held'[k].as # "read"
          <5>1. held[k].row = r /\ held'[k].row = r
            BY <3>2, <4>1
          <5> QED
            BY <3>2, <4>1, <5>1
        <4> QED
          BY <1>0, <1>1, <3>1, <3>2, <4>1, <4>2 DEF HoldsTheOwner
      <3>3. CASE ~(held[k].row = r /\ held[k].as = "read" /\ o # owner[r])
        <4>1. held'[k] = held[k]
          BY <1>1, <2>2, <3>3
        <4> QED
          BY <1>0, <1>1, <3>1, <3>3, <4>1 DEF HoldsTheOwner
      <3> QED
        BY <3>2, <3>3
    <2> QED
      BY <2>1, <2>2
  <1> QED
    BY <1>1, <1>2 DEF RowInv

LEMMA RowsKeptByRows ==
  ASSUME ScopeAssumption, FramesInv, RowInv, NEW t \in Tasks, RowStep(t)
  PROVE  RowInv'
  <1>0. /\ NoScope \notin Owners /\ "unset" \notin Owners /\ "gone" \notin Owners
        /\ "gone" # NoScope /\ NoScope \notin Rows
    BY DEF ScopeAssumption, Owners
  <1>1. ASSUME NEW r \in Rows, CreateRow(t, r) PROVE RowInv'
    <2>0. owner[r] = NoScope /\ \A k \in Tasks : held[k].row # r
      BY <1>0, <1>1 DEF CreateRow, RowInv, HoldsTheOwner, Nobody
    <2>1. ASSUME NEW o \in Owners, NEW a \in {o, "unset"}, RowBecomes(t, r, o, Instance(r, a)),
                 RowsKeepToTheirScope'
          PROVE  RowInv'
      <3>1. PICK mine : mine = Instance(r, a)
        OBVIOUS
      <3>2. /\ mine.row = r /\ mine.owner = a /\ mine.as \in {"read", "unset"}
            /\ mine.as = "read" => mine.owner = o
        BY <1>0, <3>1 DEF Instance
      <3>3. RowBecomes(t, r, o, mine)
        BY <2>1, <3>1
      <3> QED
        BY <2>0, <2>1, <3>2, <3>3, RowBecoming
    <2>2. CASE Scope(t) # NoScope /\ RowBecomes(t, r, Scope(t), Instance(r, Scope(t)))
               /\ RowWrite(t, Scope(t), FALSE)
      <3>1. Scope(t) \in Owners
        BY <2>2, CurrentIsATenant DEF Owners
      <3> QED
        BY <2>1, <2>2, <3>1, WriteIsTheOwners
    <2>3. CASE Scope(t) = NoScope /\ RowBecomes(t, r, "null", Instance(r, "unset"))
               /\ RowWrite(t, "null", FALSE)
      BY <2>1, <2>3, WriteIsTheOwners DEF Owners
    <2>4. ASSUME NEW o \in ScopeTenants, RowBecomes(t, r, o, Instance(r, o)), RowWrite(t, o, TRUE)
          PROVE  RowInv'
      BY <2>1, <2>4, WriteIsTheOwners DEF Owners
    <2> QED
      BY <1>1, <2>2, <2>3, <2>4 DEF CreateRow
  <1>2. ASSUME NEW r \in Rows, Fetch(t, r) PROVE RowInv'
    BY <1>0, <1>2 DEF Fetch, Visible, Instance, RowInv, HoldsTheOwner, RowsKeepToTheirScope
  <1>3. ASSUME NEW r \in Rows, QueryWrites(t, r) PROVE RowInv'
    <2>1. RowsKeepToTheirScope' /\ owner[r] \in Owners
      BY <1>3, WriteIsTheOwners DEF QueryWrites, Visible
    <2>2. PICK o \in Owners \cup {"gone"} :
             RowBecomes(t, r, o, IF held[t].row = r /\ held[t].as = "read" /\ o # owner[r]
                                 THEN [held[t] EXCEPT !.as = "stale"] ELSE held[t])
      BY <1>3 DEF QueryWrites
    <2>3. HoldsTheOwner(t)
      BY DEF RowInv
    <2>4. CASE held[t].row = r /\ held[t].as = "read" /\ o # owner[r]
      <3>1. PICK mine : mine = [held[t] EXCEPT !.as = "stale"]
        OBVIOUS
      <3>2. mine.row = r /\ mine.as = "stale"
        <4>1. held[t].row = r
          BY <2>4
        <4>2. held[t].row = r => [held[t] EXCEPT !.as = "stale"].row = r
          OBVIOUS
        <4> QED
          BY <3>1, <4>1, <4>2
      <3>3. RowBecomes(t, r, o, mine)
        BY <2>2, <2>4, <3>1
      <3>4. owner[r] # NoScope
        BY <1>0, <2>1
      <3> QED
        BY <2>1, <3>2, <3>3, <3>4, RowBecoming
    <2>5. CASE ~(held[t].row = r /\ held[t].as = "read" /\ o # owner[r])
      BY <1>0, <2>1, <2>2, <2>3, <2>5, RowBecoming DEF HoldsTheOwner
    <2> QED
      BY <2>4, <2>5
  <1>4. CASE SaveInstance(t)
    <2>1. HoldsTheOwner(t) /\ held[t] # Nobody /\ owner[held[t].row] \in Owners
      BY <1>4 DEF SaveInstance, RowInv
    <2>2. held[t].row \in Rows
      BY <2>1 DEF HoldsTheOwner
    <2>3. RowsKeepToTheirScope'
      <3>1. held[t].as = "read" => owner[held[t].row] = held[t].owner /\ held[t].owner # "unset"
        BY <1>0, <2>1 DEF HoldsTheOwner
      <3>2. Scope(t) \in {owner[held[t].row], NoScope} \/ held[t].as # "read"
        BY <1>4, <3>1 DEF SaveInstance, MaySave
      <3> QED
        BY <1>4, <3>2, WriteIsTheOwners DEF SaveInstance
    <2>4. CASE RowBecomes(t, held[t].row, "gone", held[t])
      BY <1>0, <2>1, <2>2, <2>3, <2>4, RowBecoming DEF HoldsTheOwner
    <2>5. CASE held[t].as = "named"
               /\ RowBecomes(t, held[t].row, held[t].owner, Instance(held[t].row, held[t].owner))
      <3>1. held[t].owner \in Owners
        BY <2>1, <2>5 DEF HoldsTheOwner
      <3> QED
        BY <1>0, <2>1, <2>2, <2>3, <2>5, <3>1, RowBecoming DEF HoldsTheOwner, Instance
    <2>6. CASE UNCHANGED <<owner, held>>
      BY <2>3, <2>6 DEF RowInv, HoldsTheOwner
    <2> QED
      BY <1>4, <2>4, <2>5, <2>6 DEF SaveInstance
  <1>5. ASSUME NEW o \in Owners, NamesTenant(t, o) PROVE RowInv'
    BY <1>5 DEF NamesTenant, RowInv, HoldsTheOwner, RowsKeepToTheirScope, Nobody
  <1> QED
    BY <1>1, <1>2, <1>3, <1>4, <1>5 DEF RowStep

LEMMA RowsStep == ScopeAssumption /\ FramesInv /\ RowInv /\ [ScopeNext]_scopeVars => RowInv'
  <1> SUFFICES ASSUME ScopeAssumption, FramesInv, RowInv, [ScopeNext]_scopeVars PROVE RowInv'
    OBVIOUS
  <1>1. ASSUME NEW t \in Tasks, RowStep(t) PROVE RowInv'
    BY <1>1, RowsKeptByRows
  <1>2. ASSUME NEW t \in Tasks, ScopeStep(t) PROVE RowInv'
    <2>1. UNCHANGED <<owner, wrote>> /\ (held' = held \/ held' = [held EXCEPT ![t] = Nobody])
      BY <1>2 DEF ScopeStep, Enter, EnterFails, AllEntered, BodyEnds, Leave, AllLeft
    <2> QED
      BY <2>1, RowsRest
  <1>3. ASSUME NEW t \in Tasks,
               Unscoped(t) \/ \E tenant \in ScopeTenants : RunIn(t, tenant) \/ Request(t, tenant)
        PROVE  RowInv'
    <2>1. UNCHANGED <<owner, wrote, held>>
      BY <1>3 DEF Unscoped, RunIn, Request
    <2> QED
      BY <2>1, RowsRest
  <1>4. ASSUME UNCHANGED scopeVars \/ \E b \in Bootstrappers : RegisterBootstrapper(b) \/ Unregister(b)
        PROVE  RowInv'
    <2>1. UNCHANGED <<owner, wrote, held>>
      BY <1>4 DEF scopeVars, RegisterBootstrapper, Unregister
    <2> QED
      BY <2>1 DEF RowInv, HoldsTheOwner, RowsKeepToTheirScope
  <1> QED
    BY <1>1, <1>2, <1>3, <1>4 DEF ScopeNext

\* However scopes nest and tasks interleave, a row of a scoped model is written from the
\* scope of its own tenant, or where scoping is off, also through an instance that was
\* read in a scope that has ended; except where the application named another tenant, or
\* writes an instance that does not have the row's column (models/scoping.ts).
THEOREM WritesKeepToTheirScope ==
  ASSUME ScopeAssumption PROVE ScopeSpec => []RowsKeepToTheirScope
  <1>1. ScopeInit => FramesInv /\ RowInv
    BY FramesStart, RowsStart
  <1>2. FramesInv /\ RowInv /\ [ScopeNext]_scopeVars => (FramesInv /\ RowInv)'
    BY FramesStep, RowsStep
  <1>3. RowInv => RowsKeepToTheirScope
    BY DEF RowInv
  <1> QED
    BY <1>1, <1>2, <1>3, PTL DEF ScopeSpec

(***************************************************************************)
(*                     A process serves on its own boot                    *)
(***************************************************************************)

\* Nothing is cached while the process does not serve, but for the registry of resolvers;
\* what is cached then, and what was used, is of the current container.  The registry of
\* resolvers is of a container that has served a request, the current one or an earlier.
CachesOK ==
  /\ process # "up" => driverOf = 0 /\ logOf = 0 /\ used = {} /\ asked = 0
  /\ driverOf \in {0, boots} /\ logOf \in {0, boots} /\ used \subseteq {boots}
  /\ boots \in Nat /\ (process \in {"registered", "booted", "up"} => boots # 0)
  /\ resolverOf \in resolved \cup {0} /\ asked \in {0, resolverOf}
  /\ resolved \subseteq 1 .. boots

\* A host has registered one driver at most before the package boots, and that one is
\* active; from the boot on the configured one is.
DriversOK ==
  /\ process = "registered" =>
       \/ drivers.names = {} /\ drivers.active = Unset
       \/ drivers.names = {drivers.active}
  /\ process \in {"booted", "up"} => current = config /\ drivers.active = config.driver

\* A disk or a mailer keeps the tenant it was made for, a session none.
HandleOK ==
  handle # Unset =>
    \/ handle.kind = "session"
    \/ handle.kind \in {"drive", "mail"} /\ handle.tenant = handle.madeIn /\ handle.madeIn # Unset

SlotKeys == (Optional \cup {"cache"}) \X BootTenants
SlotsOK ==
  /\ slots = [k \in SlotKeys |-> slots[k]]
  /\ \A k \in Optional \cup {"cache"}, t \in BootTenants : slots[<<k, t>>] \in {t, Unset}

BootInv == CachesOK /\ DriversOK /\ HandleOK /\ SlotsOK

LEMMA BootStarts == BootInit => BootInv
  <1> SUFFICES ASSUME BootInit PROVE BootInv
    OBVIOUS
  <1>1. CachesOK /\ DriversOK /\ HandleOK
    BY DEF BootInit, CachesOK, DriversOK, HandleOK
  <1>2. SlotsOK
    BY DEF BootInit, SlotsOK, SlotKeys
  <1> QED
    BY <1>1, <1>2 DEF BootInv

\* Register, boot, start and shut down.
LEMMA BootInvKeptByLife ==
  ASSUME BootInv,
         \/ Register \/ RefusesShape \/ Boot \/ Start \/ Shutdown
         \/ \E n \in HostDrivers : HostRegisters(n)
  PROVE  BootInv'
  <1>1. CASE Register
    BY <1>1 DEF Register, Caches, Resolving, Helping, BootInv, CachesOK, DriversOK, HandleOK, SlotsOK
  <1>2. ASSUME NEW n \in HostDrivers, HostRegisters(n) PROVE BootInv'
    <2>1. drivers' = [names |-> {n}, active |-> n]
      BY <1>2 DEF HostRegisters, AddDriver, BootInv, DriversOK
    <2>2. DriversOK'
      <3>1. drivers'.names = {n} /\ drivers'.active = n
        BY <2>1
      <3>2. process' = "registered"
        BY <1>2 DEF HostRegisters
      <3> QED
        BY <3>1, <3>2, Zenon DEF DriversOK
    <2>3. CachesOK' /\ HandleOK' /\ SlotsOK'
      BY <1>2 DEF HostRegisters, Caches, Resolving, Helping, BootInv, CachesOK, HandleOK, SlotsOK
    <2> QED
      BY <2>2, <2>3 DEF BootInv
  <1>3. CASE RefusesShape
    BY <1>3 DEF RefusesShape, Caches, Resolving, Helping, BootInv, CachesOK, DriversOK, HandleOK, SlotsOK
  <1>4. CASE Boot
    <2>1. drivers'.active = config.driver
      BY <1>4 DEF Boot, AddDriver, BootInv, DriversOK
    <2> QED
      BY <1>4, <2>1 DEF Boot, Caches, Resolving, Helping, BootInv, CachesOK, DriversOK, HandleOK, SlotsOK
  <1>5. CASE Start
    BY <1>5 DEF Start, Caches, Resolving, Helping, BootInv, CachesOK, DriversOK, HandleOK, SlotsOK
  <1>6. CASE Shutdown
    BY <1>6 DEF Shutdown, Forgets, BootInv, CachesOK, DriversOK, HandleOK, SlotsOK
  <1> QED
    BY <1>1, <1>2, <1>3, <1>4, <1>5, <1>6

\* Serving: the caches are filled, scopes come and go, the helpers write.
LEMMA BootInvKeptByServing ==
  ASSUME BootInv,
         \/ GetActiveDriver \/ ResolvesRequest \/ EndScope \/ UseHandle
         \/ \E t \in BootTenants : RunScope(t)
         \/ \E k \in Optional : OpenHandle(k)
         \/ \E k \in Optional \cup {"cache"} : UseScope(k)
  PROVE  BootInv'
  <1>1. CASE GetActiveDriver
    BY <1>1 DEF GetActiveDriver, Kept, Resolving, Helping, BootInv, CachesOK, DriversOK, HandleOK, SlotsOK
  <1>7. CASE ResolvesRequest
    BY <1>7 DEF ResolvesRequest, Kept, Helping, BootInv, CachesOK, DriversOK, HandleOK, SlotsOK
  <1>2. CASE EndScope
    BY <1>2 DEF EndScope, Caches, Resolving, BootInv, CachesOK, DriversOK, HandleOK, SlotsOK
  <1>3. ASSUME NEW t \in BootTenants, RunScope(t) PROVE BootInv'
    BY <1>3 DEF RunScope, Kept, Resolving, BootInv, CachesOK, DriversOK, HandleOK, SlotsOK
  <1>4. ASSUME NEW k \in Optional, OpenHandle(k) PROVE BootInv'
    <2>1. HandleOK'
      BY <1>4 DEF OpenHandle, Keeps, HandleOK
    <2> QED
      BY <1>4, <2>1 DEF OpenHandle, Caches, Resolving, BootInv, CachesOK, DriversOK, SlotsOK
  <1>5. CASE UseHandle
    <2>1. IF handle.kind = "session" THEN scope = TenantOf(handle) ELSE handle.madeIn = TenantOf(handle)
      BY <1>5 DEF UseHandle, TenantOf, Keeps, BootInv, HandleOK
    <2>2. slots' = [slots EXCEPT ![<<handle.kind, TenantOf(handle)>>] = TenantOf(handle)]
      BY <1>5, <2>1 DEF UseHandle
    <2>3. SlotsOK'
      BY <2>2 DEF BootInv, SlotsOK, SlotKeys
    <2> QED
      BY <1>5, <2>3 DEF UseHandle, Caches, Resolving, BootInv, CachesOK, DriversOK, HandleOK
  <1>6. ASSUME NEW k \in Optional \cup {"cache"}, UseScope(k) PROVE BootInv'
    <2>1. SlotsOK'
      BY <1>6 DEF UseScope, BootInv, SlotsOK, SlotKeys
    <2> QED
      BY <1>6, <2>1 DEF UseScope, Caches, Resolving, BootInv, CachesOK, DriversOK, HandleOK
  <1> QED
    BY <1>1, <1>2, <1>3, <1>4, <1>5, <1>6, <1>7

LEMMA BootStep == BootInv /\ [BootNext]_boot => BootInv'
  <1> SUFFICES ASSUME BootInv, [BootNext]_boot PROVE BootInv'
    OBVIOUS
  <1>1. CASE UNCHANGED boot
    BY <1>1 DEF boot, BootInv, CachesOK, DriversOK, HandleOK, SlotsOK
  <1>2. CASE BootNext
    BY <1>2, BootInvKeptByLife, BootInvKeptByServing DEF BootNext
  <1> QED
    BY <1>1, <1>2

\* Whatever is booted, refused, served and shut down before, a process that serves uses
\* the services and the configuration of its own boot, and a helper writes into the slot
\* of a tenant only for that tenant (multitenancy_provider.ts, the bootstrappers).  Its
\* requests are given to its own resolvers, unless an earlier boot has served requests.
THEOREM ServesOnTheBootItMade == BootSpec => []ServesOnItsOwnBoot
  <1>1. BootInv => ServesOnItsOwnBoot
    BY DEF BootInv, CachesOK, DriversOK, SlotsOK, ServesOnItsOwnBoot
  <1> QED
    BY <1>1, BootStarts, BootStep, PTL DEF BootSpec

(***************************************************************************)
(*                 What a fleet command reports is what it did             *)
(***************************************************************************)

\* The command of r with what it did: the tenant it is at is listed and not yet counted;
\* one that is being announced is migrated, and one that a refresh seeds is announced.
ReportOK(me, didWork, didTell) ==
  /\ me \in Command /\ Allowed(me.kind, me.flags)
  /\ me.ok \cap me.failed = {} /\ me.ok \cup me.failed \subseteq me.listed
  /\ me.pc \notin {"next", "done"} => me.at \in me.listed \ (me.ok \cup me.failed)
  /\ ~me.flags.dry => me.ok \subseteq didWork
  /\ me.kind = "fresh" => me.ok \subseteq didTell
  /\ me.pc = "event" => me.at \in didWork
  /\ me.pc = "seed" /\ me.kind = "fresh" => me.at \in didTell
  /\ me.pc = "exec" => me.kind = "exec"
  /\ me.aborted => me.failed # {} /\ ~me.flags.go /\ me.kind \in {"seed", "exec"}
  /\ me.exitCode = 1 => me.failed # {}
  /\ me.pc = "done" => me.aborted \/ me.flags.limit \/ me.listed \subseteq me.ok \cup me.failed

FleetInv ==
  /\ run \in [Runs -> Command \cup {NoCommand}]
  /\ worked \in [Runs -> SUBSET FleetTenants] /\ told \in [Runs -> SUBSET FleetTenants]
  /\ \A r \in Runs : told[r] \subseteq worked[r]
  /\ \A r \in Runs : run[r] # NoCommand => ReportOK(run[r], worked[r], told[r])

LEMMA CommandIsOn == \A me \in Command : me # NoCommand
  BY DEF Command, NoCommand, Steps

LEMMA OnIsCommand ==
  ASSUME FleetInv, NEW r \in Runs, run[r].pc \in Steps
  PROVE  run[r] \in Command /\ ReportOK(run[r], worked[r], told[r])
  <1>1. run[r] # NoCommand
    BY DEF NoCommand, Steps
  <1> QED
    BY <1>1 DEF FleetInv

\* A step of r that moves its command to me, with what it did by then.
LEMMA ReportMoves ==
  ASSUME FleetInv, NEW r \in Runs, NEW me, run' = [run EXCEPT ![r] = me],
         NEW w \in SUBSET FleetTenants, worked' = [worked EXCEPT ![r] = w],
         NEW d \in SUBSET FleetTenants, told' = [told EXCEPT ![r] = d],
         d \subseteq w, ReportOK(me, w, d)
  PROVE  FleetInv'
  <1>1. me \in Command
    BY DEF ReportOK
  <1>2. /\ run'[r] = me /\ worked'[r] = w /\ told'[r] = d
        /\ \A q \in Runs : q # r => run'[q] = run[q] /\ worked'[q] = worked[q] /\ told'[q] = told[q]
    BY DEF FleetInv
  <1>3. /\ run' \in [Runs -> Command \cup {NoCommand}]
        /\ worked' \in [Runs -> SUBSET FleetTenants] /\ told' \in [Runs -> SUBSET FleetTenants]
    BY <1>1 DEF FleetInv
  <1>4. \A q \in Runs : told'[q] \subseteq worked'[q]
    BY <1>2 DEF FleetInv
  <1>5. ASSUME NEW q \in Runs, run'[q] # NoCommand PROVE ReportOK(run'[q], worked'[q], told'[q])
    <2>1. CASE q = r
      BY <1>2, <2>1
    <2>2. CASE q # r
      BY <1>2, <1>5, <2>2 DEF FleetInv
    <2> QED
      BY <2>1, <2>2
  <1> QED
    BY <1>3, <1>4, <1>5 DEF FleetInv

\* The same when only the command moves.
LEMMA OnlyReportMoves ==
  ASSUME FleetInv, NEW r \in Runs, NEW me, run' = [run EXCEPT ![r] = me],
         UNCHANGED <<worked, told>>, ReportOK(me, worked[r], told[r])
  PROVE  FleetInv'
  <1>1. worked[r] \in SUBSET FleetTenants /\ told[r] \in SUBSET FleetTenants /\ told[r] \subseteq worked[r]
    BY DEF FleetInv
  <1>2. worked' = [worked EXCEPT ![r] = worked[r]] /\ told' = [told EXCEPT ![r] = told[r]]
    BY DEF FleetInv
  <1> QED
    BY <1>1, <1>2, ReportMoves

-----------------------------------------------------------------------------
(* The ways a command moves *)

Went(me, pc) == [me EXCEPT !.pc = pc]
Failed(me) ==
  [me EXCEPT !.failed = me.failed \cup {me.at}, !.at = Nowhere, !.pc = "next",
             !.aborted = me.kind \in {"seed", "exec"} /\ ~me.flags.go]
Succeeded(me) == [me EXCEPT !.ok = me.ok \cup {me.at}, !.at = Nowhere, !.pc = "next"]

LEMMA CommandMoves ==
  ASSUME FleetInv, NEW r \in Runs, run[r] \in Command
  PROVE  /\ \A pc : GoesTo(r, pc) => run' = [run EXCEPT ![r] = Went(run[r], pc)]
         /\ Fail(r) => run' = [run EXCEPT ![r] = Failed(run[r])]
         /\ Succeed(r) => run' = [run EXCEPT ![r] = Succeeded(run[r])]
  BY DEF GoesTo, Fail, Succeed, Went, Failed, Succeeded, FleetInv, Command

LEMMA WentIs ==
  ASSUME NEW me \in Command, NEW pc \in Steps
  PROVE  LET w == Went(me, pc)
         IN  /\ w \in Command /\ w.pc = pc /\ w.at = me.at /\ w.kind = me.kind /\ w.flags = me.flags
             /\ w.listed = me.listed /\ w.ok = me.ok /\ w.failed = me.failed
             /\ w.aborted = me.aborted /\ w.exitCode = me.exitCode
  BY DEF Went, Command

LEMMA FailedIs ==
  ASSUME NEW me \in Command, me.at \in FleetTenants
  PROVE  LET f == Failed(me)
         IN  /\ f \in Command /\ f.pc = "next" /\ f.kind = me.kind /\ f.flags = me.flags
             /\ f.listed = me.listed /\ f.ok = me.ok /\ f.failed = me.failed \cup {me.at}
             /\ f.aborted = (me.kind \in {"seed", "exec"} /\ ~me.flags.go)
             /\ f.exitCode = me.exitCode
  BY DEF Failed, Command, Steps

LEMMA SucceededIs ==
  ASSUME NEW me \in Command, me.at \in FleetTenants
  PROVE  LET s == Succeeded(me)
         IN  /\ s \in Command /\ s.pc = "next" /\ s.kind = me.kind /\ s.flags = me.flags
             /\ s.listed = me.listed /\ s.ok = me.ok \cup {me.at} /\ s.failed = me.failed
             /\ s.aborted = me.aborted /\ s.exitCode = me.exitCode
  BY DEF Succeeded, Command, Steps

\* A tenant that a command is at, and counts: as failed, or as a success when it was
\* worked on and, refreshed, announced.
AtTenant(me) == me.pc \notin {"next", "done"}

LEMMA AtIsListed ==
  ASSUME NEW me, NEW w, NEW d, ReportOK(me, w, d), AtTenant(me)
  PROVE  me.at \in FleetTenants /\ me.at \in me.listed /\ me.at \notin me.ok /\ me.at \notin me.failed
  BY DEF ReportOK, AtTenant, Command

LEMMA WentOK ==
  ASSUME NEW me, NEW w, NEW d, ReportOK(me, w, d), AtTenant(me),
         NEW pc \in Steps \ {"next", "done"},
         pc = "event" => me.at \in w, pc = "seed" /\ me.kind = "fresh" => me.at \in d,
         pc = "exec" => me.kind = "exec"
  PROVE  ReportOK(Went(me, pc), w, d)
  <1>1. me \in Command
    BY DEF ReportOK
  <1> DEFINE x == Went(me, pc)
  <1>2. /\ x \in Command /\ x.pc = pc /\ x.at = me.at /\ x.kind = me.kind /\ x.flags = me.flags
        /\ x.listed = me.listed /\ x.ok = me.ok /\ x.failed = me.failed
        /\ x.aborted = me.aborted /\ x.exitCode = me.exitCode
    BY <1>1, WentIs
  <1> HIDE DEF x
  <1>3. ReportOK(x, w, d)
    BY <1>2, AtIsListed DEF ReportOK
  <1> QED
    BY <1>3 DEF x

LEMMA FailedOK ==
  ASSUME NEW me, NEW w, NEW d, ReportOK(me, w, d), AtTenant(me)
  PROVE  ReportOK(Failed(me), w, d)
  <1>1. me \in Command /\ me.at \in FleetTenants
    BY AtIsListed DEF ReportOK
  <1> DEFINE x == Failed(me)
  <1>2. /\ x \in Command /\ x.pc = "next" /\ x.kind = me.kind /\ x.flags = me.flags
        /\ x.listed = me.listed /\ x.ok = me.ok /\ x.failed = me.failed \cup {me.at}
        /\ x.aborted = (me.kind \in {"seed", "exec"} /\ ~me.flags.go)
        /\ x.exitCode = me.exitCode
    BY <1>1, FailedIs
  <1> HIDE DEF x
  <1>3. x.failed # {}
    BY <1>2
  <1>4. x.ok \cap x.failed = {} /\ x.ok \cup x.failed \subseteq x.listed
    BY <1>2, AtIsListed DEF ReportOK
  <1>5. ReportOK(x, w, d)
    BY <1>2, <1>3, <1>4 DEF ReportOK
  <1> QED
    BY <1>5 DEF x

LEMMA SucceededOK ==
  ASSUME NEW me, NEW w, NEW d, ReportOK(me, w, d), AtTenant(me),
         NEW w2, NEW d2, w \subseteq w2, d \subseteq d2,
         ~me.flags.dry => me.at \in w2, me.kind = "fresh" => me.at \in d2
  PROVE  ReportOK(Succeeded(me), w2, d2)
  <1>1. me \in Command /\ me.at \in FleetTenants
    BY AtIsListed DEF ReportOK
  <1> DEFINE x == Succeeded(me)
  <1>2. /\ x \in Command /\ x.pc = "next" /\ x.kind = me.kind /\ x.flags = me.flags
        /\ x.listed = me.listed /\ x.ok = me.ok \cup {me.at} /\ x.failed = me.failed
        /\ x.aborted = me.aborted /\ x.exitCode = me.exitCode
    BY <1>1, SucceededIs
  <1> HIDE DEF x
  <1>3. x.ok \cap x.failed = {} /\ x.ok \cup x.failed \subseteq x.listed
    BY <1>2, AtIsListed DEF ReportOK
  <1>4. (~x.flags.dry => x.ok \subseteq w2) /\ (x.kind = "fresh" => x.ok \subseteq d2)
    BY <1>2 DEF ReportOK
  <1>5. ReportOK(x, w2, d2)
    BY <1>2, <1>3, <1>4 DEF ReportOK
  <1> QED
    BY <1>5 DEF x

-----------------------------------------------------------------------------
(* The steps *)

LEMMA FleetKeptByStarts ==
  ASSUME FleetInv, NEW r \in Runs, NEW kind \in Kinds, NEW f \in Flags, Starts(r, kind, f)
  PROVE  FleetInv'
  <1>1. PICK listed \in SUBSET Population(kind) :
               run' = [run EXCEPT ![r] =
                 [pc |-> "next", kind |-> kind, flags |-> f, listed |-> listed,
                  at |-> Nowhere, ok |-> {}, failed |-> {}, aborted |-> FALSE, exitCode |-> 0]]
    BY DEF Starts
  <1> DEFINE me == [pc |-> "next", kind |-> kind, flags |-> f, listed |-> listed,
                    at |-> Nowhere, ok |-> {}, failed |-> {}, aborted |-> FALSE, exitCode |-> 0]
  <1>2. listed \subseteq FleetTenants
    BY DEF Population, Alive, Kinds
  <1>3. me \in Command
    BY <1>2 DEF Command, Steps
  <1>4. ReportOK(me, worked[r], told[r])
    BY <1>3 DEF Starts, ReportOK
  <1> HIDE DEF me
  <1>5. run' = [run EXCEPT ![r] = me]
    BY <1>1 DEF me
  <1> QED
    BY <1>4, <1>5, OnlyReportMoves DEF Starts

LEMMA FleetKeptByTakes ==
  ASSUME FleetInv, NEW r \in Runs, NEW t \in FleetTenants, Takes(r, t)
  PROVE  FleetInv'
  <1>0. run[r] \in Command /\ ReportOK(run[r], worked[r], told[r]) /\ run[r].pc = "next"
    BY OnIsCommand DEF Takes, Steps
  <1> DEFINE me == [run[r] EXCEPT !.at = t, !.pc = First(r)]
  <1>1. run' = [run EXCEPT ![r] = me]
    BY <1>0 DEF Takes, FleetInv, Command
  <1>2. First(r) \in Steps \ {"next", "done", "event", "seed"}
        /\ (First(r) = "exec" => run[r].kind = "exec")
    BY DEF First, Steps
  <1>3. /\ me \in Command /\ me.pc = First(r) /\ me.at = t
        /\ me.kind = run[r].kind /\ me.flags = run[r].flags /\ me.listed = run[r].listed
        /\ me.ok = run[r].ok /\ me.failed = run[r].failed
        /\ me.aborted = run[r].aborted /\ me.exitCode = run[r].exitCode
    BY <1>0, <1>2 DEF Command
  <1>4. t \in run[r].listed \ (run[r].ok \cup run[r].failed)
    BY DEF Takes, Visited
  <1> HIDE DEF me
  <1>5. ReportOK(me, worked[r], told[r])
    BY <1>0, <1>2, <1>3, <1>4 DEF ReportOK
  <1> QED
    BY <1>1, <1>5, OnlyReportMoves DEF Takes

LEMMA FleetKeptByEnds ==
  ASSUME FleetInv, NEW r \in Runs, CommandEnds(r)
  PROVE  FleetInv'
  <1>0. run[r] \in Command /\ ReportOK(run[r], worked[r], told[r]) /\ run[r].pc = "next"
    BY OnIsCommand DEF CommandEnds, Steps
  <1> DEFINE code == IF run[r].kind \in {"fresh", "seed", "exec"} /\ run[r].failed # {} THEN 1 ELSE 0
  <1> DEFINE me == [run[r] EXCEPT !.pc = "done", !.exitCode = code]
  <1>1. run' = [run EXCEPT ![r] = me]
    BY <1>0 DEF CommandEnds, FleetInv, Command
  <1>2. code \in {0, 1} /\ (code = 1 => run[r].failed # {})
    OBVIOUS
  <1> HIDE DEF code
  <1>3. /\ me \in Command /\ me.pc = "done" /\ me.at = run[r].at
        /\ me.kind = run[r].kind /\ me.flags = run[r].flags /\ me.listed = run[r].listed
        /\ me.ok = run[r].ok /\ me.failed = run[r].failed
        /\ me.aborted = run[r].aborted /\ me.exitCode = code
    BY <1>0, <1>2 DEF Command, Steps
  <1>4. run[r].aborted \/ run[r].flags.limit \/ run[r].listed \subseteq run[r].ok \cup run[r].failed
    BY DEF CommandEnds, HitLimit, Visited
  <1> HIDE DEF me
  <1>5. ReportOK(me, worked[r], told[r])
    BY <1>0, <1>2, <1>3, <1>4 DEF ReportOK
  <1> QED
    BY <1>1, <1>5, OnlyReportMoves DEF CommandEnds

\* A call that fails, or that leads to the next call for the same tenant.
LEMMA FleetKeptByCalls ==
  ASSUME FleetInv, NEW r \in Runs,
         Breaks(r) \/ Drops(r) \/ Creates(r) \/ OpensConnection(r) \/ Before(r) \/ MigrateFails(r)
  PROVE  FleetInv'
  <1>0. run[r] \in Command /\ ReportOK(run[r], worked[r], told[r]) /\ AtTenant(run[r])
    <2>1. run[r].pc \in {"drop", "create", "connect", "before", "event", "seed", "exec", "migrate"}
      BY DEF Breaks, Drops, Creates, OpensConnection, Before, MigrateFails
    <2> QED
      BY <2>1, OnIsCommand DEF Steps, AtTenant
  <1>1. UNCHANGED <<worked, told>>
    BY DEF Breaks, Drops, Creates, OpensConnection, Before, MigrateFails
  <1>2. \/ Fail(r)
        \/ \E pc \in Steps \ {"next", "done", "event", "exec"} :
              GoesTo(r, pc) /\ (pc = "seed" => run[r].kind # "fresh")
    <2>1. CASE Breaks(r) \/ MigrateFails(r)
      BY <2>1 DEF Breaks, MigrateFails
    <2>2. CASE Drops(r) \/ Before(r)
      BY <2>2 DEF Drops, Before, Steps
    <2>3. CASE Creates(r)
      BY <2>3 DEF Creates, Steps
    <2>4. CASE OpensConnection(r)
      BY <2>4 DEF OpensConnection, Steps
    <2> QED
      BY <2>1, <2>2, <2>3, <2>4
  <1>3. CASE Fail(r)
    BY <1>0, <1>1, <1>3, CommandMoves, FailedOK, OnlyReportMoves
  <1>4. ASSUME NEW pc \in Steps \ {"next", "done", "event", "exec"}, GoesTo(r, pc),
               pc = "seed" => run[r].kind # "fresh"
        PROVE  FleetInv'
    <2>1. ReportOK(Went(run[r], pc), worked[r], told[r])
      BY <1>0, <1>4, WentOK
    <2> QED
      BY <1>0, <1>1, <1>4, <2>1, CommandMoves, OnlyReportMoves
  <1> QED
    BY <1>2, <1>3, <1>4

\* The migration, what announces it, and the last calls for a tenant.
LEMMA FleetKeptByMigrates ==
  ASSUME FleetInv, NEW r \in Runs, Migrates(r)
  PROVE  FleetInv'
  <1>0. run[r] \in Command /\ ReportOK(run[r], worked[r], told[r]) /\ AtTenant(run[r])
    BY OnIsCommand DEF Migrates, Steps, AtTenant
  <1>1. told[r] \subseteq worked[r] /\ worked[r] \subseteq FleetTenants /\ told[r] \subseteq FleetTenants
        /\ told' = [told EXCEPT ![r] = told[r]]
    BY DEF Migrates, FleetInv
  <1>2. CASE run[r].flags.dry
    <2>1. run[r].kind # "fresh"
      BY <1>0, <1>2 DEF ReportOK, Allowed
    <2>2. ReportOK(Succeeded(run[r]), worked[r], told[r])
      BY <1>0, <1>2, <2>1, SucceededOK
    <2> QED
      BY <1>0, <1>2, <2>2, CommandMoves, OnlyReportMoves DEF Migrates
  <1>3. CASE ~run[r].flags.dry
    <2> DEFINE w == worked[r] \cup {run[r].at}
    <2>1. worked' = [worked EXCEPT ![r] = w] /\ GoesTo(r, "event")
      BY <1>3 DEF Migrates, Work, FleetInv
    <2>2. w \in SUBSET FleetTenants
      BY <1>0, <1>1, AtIsListed
    <2>3. ReportOK(run[r], w, told[r])
      BY <1>0 DEF ReportOK
    <2>4. ReportOK(Went(run[r], "event"), w, told[r])
      BY <1>0, <2>3, WentOK DEF Steps
    <2>5. run' = [run EXCEPT ![r] = Went(run[r], "event")] /\ told[r] \subseteq w
      BY <1>0, <1>1, <2>1, CommandMoves
    <2> HIDE DEF w
    <2> QED
      BY <1>1, <2>1, <2>2, <2>4, <2>5, ReportMoves
  <1> QED
    BY <1>2, <1>3

LEMMA FleetKeptByTells ==
  ASSUME FleetInv, NEW r \in Runs, Tells(r)
  PROVE  FleetInv'
  <1>0. run[r] \in Command /\ ReportOK(run[r], worked[r], told[r]) /\ AtTenant(run[r])
    BY OnIsCommand DEF Tells, Steps, AtTenant
  <1>1. told[r] \subseteq worked[r] /\ worked[r] \in SUBSET FleetTenants /\ told[r] \in SUBSET FleetTenants
        /\ worked' = [worked EXCEPT ![r] = worked[r]]
    BY DEF Tells, FleetInv
  <1>2. run[r].at \in worked[r]
    BY <1>0 DEF Tells, ReportOK
  <1> DEFINE d == told[r] \cup {run[r].at}
  <1>3. told' = [told EXCEPT ![r] = d]
    BY DEF Tells, FleetInv
  <1>4. d \in SUBSET FleetTenants /\ d \subseteq worked[r] /\ told[r] \subseteq d /\ run[r].at \in d
    BY <1>1, <1>2
  <1> HIDE DEF d
  <1>5. CASE Succeed(r)
    <2>1. ReportOK(Succeeded(run[r]), worked[r], d)
      BY <1>0, <1>2, <1>4, SucceededOK
    <2> QED
      BY <1>0, <1>1, <1>3, <1>4, <1>5, <2>1, CommandMoves, ReportMoves
  <1>6. CASE GoesTo(r, "seed")
    <2>1. ReportOK(run[r], worked[r], d)
      BY <1>0, <1>4 DEF ReportOK
    <2>2. ReportOK(Went(run[r], "seed"), worked[r], d)
      BY <1>0, <1>4, <2>1, WentOK DEF Steps
    <2> QED
      BY <1>0, <1>1, <1>3, <1>4, <1>6, <2>2, CommandMoves, ReportMoves
  <1> QED
    BY <1>5, <1>6 DEF Tells

LEMMA FleetKeptByWork ==
  ASSUME FleetInv, NEW r \in Runs, Seeds(r) \/ Execs(r)
  PROVE  FleetInv'
  <1>0. run[r] \in Command /\ ReportOK(run[r], worked[r], told[r]) /\ AtTenant(run[r])
    BY OnIsCommand DEF Seeds, Execs, Steps, AtTenant
  <1>1. told[r] \subseteq worked[r] /\ worked[r] \in SUBSET FleetTenants /\ told[r] \in SUBSET FleetTenants
        /\ told' = [told EXCEPT ![r] = told[r]]
    BY DEF Seeds, Execs, FleetInv
  <1>2. run[r].kind = "fresh" => run[r].at \in told[r]
    BY <1>0 DEF Seeds, Execs, ReportOK
  <1>3. CASE Fail(r) /\ UNCHANGED <<worked, told>>
    BY <1>0, <1>3, CommandMoves, FailedOK, OnlyReportMoves
  <1>4. CASE Succeed(r) /\ UNCHANGED <<worked, told>> /\ run[r].flags.dry
    BY <1>0, <1>2, <1>4, CommandMoves, SucceededOK, OnlyReportMoves
  <1>5. CASE Succeed(r) /\ Work(r)
    <2> DEFINE w == worked[r] \cup {run[r].at}
    <2>1. worked' = [worked EXCEPT ![r] = w]
      BY <1>5 DEF Work, FleetInv
    <2>2. w \in SUBSET FleetTenants /\ worked[r] \subseteq w /\ run[r].at \in w
      BY <1>0, <1>1, AtIsListed
    <2> HIDE DEF w
    <2>3. ReportOK(Succeeded(run[r]), w, told[r])
      BY <1>0, <1>2, <2>2, SucceededOK
    <2>4. run' = [run EXCEPT ![r] = Succeeded(run[r])] /\ told[r] \subseteq w
      BY <1>0, <1>1, <1>5, <2>2, CommandMoves
    <2> QED
      BY <1>1, <2>1, <2>2, <2>3, <2>4, ReportMoves
  <1>6. CASE Seeds(r)
    BY <1>3, <1>5, <1>6 DEF Seeds
  <1>7. CASE Execs(r)
    BY <1>4, <1>5, <1>7 DEF Execs
  <1> QED
    BY <1>6, <1>7

LEMMA FleetStep == FleetInv /\ [FleetNext]_fleetVars => FleetInv'
  <1> SUFFICES ASSUME FleetInv, [FleetNext]_fleetVars PROVE FleetInv'
    OBVIOUS
  <1>1. ASSUME NEW r \in Runs, CommandStep(r) PROVE FleetInv'
    BY <1>1, FleetKeptByEnds, FleetKeptByTakes, FleetKeptByCalls, FleetKeptByMigrates,
       FleetKeptByTells, FleetKeptByWork DEF CommandStep
  <1>2. ASSUME NEW r \in Runs, NEW kind \in Kinds, NEW f \in Flags, Starts(r, kind, f) PROVE FleetInv'
    BY <1>2, FleetKeptByStarts
  <1>3. ASSUME UNCHANGED fleetVars \/ \E t \in FleetTenants : Destroy(t) \/ Purges(t) PROVE FleetInv'
    <2>1. UNCHANGED <<run, worked, told>>
      BY <1>3 DEF fleetVars, Destroy, Purges
    <2> QED
      BY <2>1 DEF FleetInv
  <1> QED
    BY <1>1, <1>2, <1>3 DEF FleetNext

\* Whatever fails, is deleted or runs beside it, a command counts every tenant once, as
\* a success only what was worked on, and announces only what is migrated; it leaves out
\* a tenant only after a failure that may stop it, and its exit code tells of failures
\* (commands/tenant_migrate.ts, tenant_migrate_fresh.ts, tenant_seed.ts, tenant_exec.ts).
THEOREM ReportsAreTrue == FleetSpec => []ReportIsTrue
  <1>1. FleetInit => FleetInv
    BY DEF FleetInit, FleetInv
  <1>2. FleetInv => ReportIsTrue
    <2> SUFFICES ASSUME FleetInv, NEW r \in Runs, run[r] # NoCommand
                 PROVE  /\ run[r].ok \cap run[r].failed = {}
                        /\ ~run[r].flags.dry => run[r].ok \subseteq worked[r]
                        /\ told[r] \subseteq worked[r]
                        /\ run[r].kind = "fresh" => run[r].ok \subseteq told[r]
                        /\ run[r].pc = "done" /\ ~run[r].flags.limit
                           /\ (run[r].flags.go \/ run[r].failed = {}
                                \/ run[r].kind \in {"migrate", "rollback", "fresh"}) =>
                             Visited(r) = run[r].listed
                        /\ run[r].pc = "done" /\ run[r].exitCode = 1 => run[r].failed # {}
      BY Zenon DEF ReportIsTrue
    <2>1. ReportOK(run[r], worked[r], told[r]) /\ told[r] \subseteq worked[r]
      BY DEF FleetInv
    <2> QED
      BY <2>1 DEF ReportOK, Visited
  <1> QED
    BY <1>1, <1>2, FleetStep, PTL DEF FleetSpec

(***************************************************************************)
(*                     The limit of what a window admits                   *)
(***************************************************************************)

Pipeline == {"trim", "add", "card", "expire"}
HitRecord == [pc : {"idle", "trim", "add", "card", "expire", "decide",
              "admitted", "passed", "refused", "unavailable"},
        at : 0 .. (MaxTime + Skew), read : 0 .. MaxTime, failOpen : BOOLEAN, ran : SUBSET Pipeline,
        count : Nat, late : BOOLEAN]

LimiterTypes ==
  /\ now \in 1 .. MaxTime
  /\ entries \subseteq 0 .. (MaxTime + Skew) /\ expiry \in Nat
  /\ hit \in [Requests -> HitRecord]
  /\ \A r \in Requests :
       hit[r].read <= now /\ hit[r].read <= hit[r].at /\ hit[r].at <= hit[r].read + Skew

\* A command that has run is behind the request.
RanBefore(r) ==
  /\ hit[r].pc \in {"idle", "trim"} => hit[r].ran = {}
  /\ hit[r].pc = "add" => hit[r].ran \subseteq {"trim"}
  /\ hit[r].pc = "card" => hit[r].ran \subseteq {"trim", "add"}
  /\ hit[r].pc = "expire" => hit[r].ran \subseteq {"trim", "add", "card"}

\* All four commands ran in the tick in which the request read its clock.
Complete(r) == ~hit[r].late /\ Pipeline \subseteq hit[r].ran

\* No process, however far ahead its clock is, trims the score yet.
Untrimmed(r) == now + Skew < hit[r].at + Window

\* The score of such a request stays until then, and the key lives on as long.
StaysForAWindow(r) ==
  Complete(r) /\ Untrimmed(r) => hit[r].at \in entries /\ hit[r].at + Window <= expiry + Skew

\* Before its key is prolonged, a score is safe in the tick it was added in.
StaysForItsTick(r) ==
  ~hit[r].late /\ "add" \in hit[r].ran /\ hit[r].read = now /\ Untrimmed(r)
    => hit[r].at \in entries /\ now < expiry

\* A request that counted in its own tick, and whose score whoever counts later will see.
Standing(r) ==
  ~hit[r].late /\ {"add", "card"} \subseteq hit[r].ran /\ (Complete(r) \/ hit[r].read = now)

Near(S) == \A r, q \in S : hit[r].at + Skew < hit[q].at + Window

\* Of some such requests whose scores are near each other, one has counted all: the last.
CountsThem ==
  \A S \in SUBSET Requests :
    S # {} /\ (\A r \in S : Standing(r)) /\ Near(S)
      => \E q \in S : Cardinality({hit[r].at : r \in S}) <= hit[q].count

LimiterInv ==
  /\ LimiterTypes /\ CountsThem
  /\ \A r \in Requests : RanBefore(r) /\ StaysForAWindow(r) /\ StaysForItsTick(r)
  /\ \A r \in Requests : hit[r].pc = "admitted" => hit[r].count <= Limit

LEMMA LimiterNumbers ==
  ASSUME RateAssumption, LimiterTypes
  PROVE  /\ MaxTime \in Nat /\ Limit \in Nat /\ Window \in Nat /\ Window > 0 /\ Skew \in Nat
         /\ now \in Nat /\ now <= MaxTime /\ expiry \in Nat
         /\ \A r \in Requests : /\ hit[r].at \in Nat /\ hit[r].read \in Nat
                                /\ hit[r].read <= hit[r].at /\ hit[r].at <= now + Skew
  <1>1. MaxTime \in Nat /\ Limit \in Nat /\ Window \in Nat /\ Window > 0 /\ Skew \in Nat
    BY DEF RateAssumption
  <1>2. ASSUME NEW r \in Requests
        PROVE  /\ hit[r].at \in Nat /\ hit[r].read \in Nat
               /\ hit[r].read <= hit[r].at /\ hit[r].at <= now + Skew
    <2>1. hit[r].at \in 0 .. (MaxTime + Skew) /\ hit[r].read \in 0 .. MaxTime
      BY DEF LimiterTypes, HitRecord
    <2> QED
      BY <1>1, <2>1 DEF LimiterTypes
  <1> QED
    BY <1>1, <1>2 DEF LimiterTypes

LEMMA LimiterStarts == RateAssumption /\ RateInit => LimiterInv
  <1> SUFFICES ASSUME RateAssumption, RateInit PROVE LimiterInv
    OBVIOUS
  <1>1. MaxTime \in Nat /\ MaxTime > 0 /\ Skew \in Nat
    BY DEF RateAssumption
  <1>2. PICK open \in BOOLEAN :
          hit = [r \in Requests |-> [pc |-> "idle", at |-> 0, read |-> 0, failOpen |-> open,
                                     ran |-> {}, count |-> 0, late |-> FALSE]]
    BY DEF RateInit, Waiting
  <1>3. hit \in [Requests -> HitRecord]
    BY <1>1, <1>2 DEF HitRecord
  <1>4. LimiterTypes
    BY <1>1, <1>2, <1>3 DEF RateInit, LimiterTypes
  <1>5. \A r \in Requests : ~Standing(r)
    BY <1>2 DEF Standing
  <1>6. CountsThem
    BY <1>5 DEF CountsThem
  <1> QED
    BY <1>2, <1>4, <1>6 DEF LimiterInv, RanBefore, StaysForAWindow, StaysForItsTick, Complete, Pipeline

(* The steps *)

\* Who stands has counted what he must, as long as nobody comes to stand.
LEMMA CountsStay ==
  ASSUME CountsThem,
         \A r \in Requests : Standing(r)' =>
           Standing(r) /\ hit'[r].at = hit[r].at /\ hit'[r].count = hit[r].count
  PROVE  CountsThem'
  <1> SUFFICES ASSUME NEW S \in SUBSET Requests, S # {}, \A r \in S : Standing(r)', Near(S)'
               PROVE  \E q \in S : Cardinality({hit'[r].at : r \in S}) <= hit'[q].count
    BY DEF CountsThem
  <1>1. \A r \in S : hit'[r].at = hit[r].at /\ hit'[r].count = hit[r].count /\ Standing(r)
    OBVIOUS
  <1>2. {hit'[r].at : r \in S} = {hit[r].at : r \in S} /\ Near(S)
    BY <1>1 DEF Near
  <1> QED
    BY <1>1, <1>2 DEF CountsThem

\* Steps that run no command and change no clock.
LEMMA LimiterRests ==
  ASSUME LimiterInv, UNCHANGED <<now, entries, expiry>>, hit' \in [Requests -> HitRecord],
         \A r \in Requests : /\ hit'[r].at = hit[r].at /\ hit'[r].read = hit[r].read
                             /\ hit'[r].ran = hit[r].ran
                             /\ hit'[r].late = hit[r].late /\ hit'[r].count = hit[r].count
                             /\ RanBefore(r)'
                             /\ hit'[r].pc = "admitted" => hit[r].count <= Limit
  PROVE  LimiterInv'
  <1>1. LimiterTypes'
    BY DEF LimiterInv, LimiterTypes
  <1>2. \A r \in Requests : /\ Complete(r)' <=> Complete(r)
                            /\ Standing(r)' <=> Standing(r)
                            /\ Untrimmed(r)' <=> Untrimmed(r)
    BY DEF Complete, Standing, Untrimmed
  <1>3. ASSUME NEW r \in Requests PROVE StaysForAWindow(r)' /\ StaysForItsTick(r)'
    BY <1>2 DEF LimiterInv, StaysForAWindow, StaysForItsTick
  <1>4. CountsThem'
    BY <1>2, CountsStay DEF LimiterInv
  <1> QED
    BY <1>1, <1>3, <1>4 DEF LimiterInv

\* A request that goes on to pc, and nothing else of it.
LEMMA HitGoesTo ==
  ASSUME LimiterInv, NEW r \in Requests, NEW pc, hit' = [hit EXCEPT ![r].pc = pc],
         pc \in {"add", "card", "expire", "decide", "admitted", "passed", "refused", "unavailable"}
  PROVE  /\ hit' \in [Requests -> HitRecord] /\ hit'[r].pc = pc
         /\ \A q \in Requests : /\ hit'[q].at = hit[q].at /\ hit'[q].read = hit[q].read
                                /\ hit'[q].ran = hit[q].ran
                                /\ hit'[q].late = hit[q].late /\ hit'[q].count = hit[q].count
                                /\ q # r => hit'[q] = hit[q]
  BY DEF LimiterInv, LimiterTypes, HitRecord

LEMMA LimiterKeptByAnswers ==
  ASSUME RateAssumption, LimiterInv, NEW r \in Requests, Refused(r) \/ Disconnected(r) \/ Decides(r)
  PROVE  LimiterInv'
  <1>1. CASE Refused(r)
    <2>1. PICK step \in {<<"trim", "add">>, <<"add", "card">>, <<"card", "expire">>, <<"expire", "decide">>} :
            hit[r].pc = step[1] /\ hit' = [hit EXCEPT ![r].pc = step[2]]
      BY <1>1 DEF Refused
    <2>2. step[2] \in {"add", "card", "expire", "decide"}
      OBVIOUS
    <2>3. /\ hit' \in [Requests -> HitRecord] /\ hit'[r].pc = step[2]
          /\ \A q \in Requests : /\ hit'[q].at = hit[q].at /\ hit'[q].read = hit[q].read
                                 /\ hit'[q].ran = hit[q].ran
                                 /\ hit'[q].late = hit[q].late /\ hit'[q].count = hit[q].count
                                 /\ q # r => hit'[q] = hit[q]
      BY <2>1, <2>2, HitGoesTo
    <2>4. RanBefore(r)'
      BY <2>1, <2>3 DEF LimiterInv, RanBefore
    <2>5. \A q \in Requests : RanBefore(q)' /\ (hit'[q].pc = "admitted" => hit[q].count <= Limit)
      BY <2>2, <2>3, <2>4 DEF LimiterInv, RanBefore
    <2> QED
      BY <1>1, <2>3, <2>5, LimiterRests DEF Refused
  <1>2. CASE Disconnected(r)
    <2> DEFINE pc == IF hit[r].failOpen THEN "passed" ELSE "unavailable"
    <2>1. hit' = [hit EXCEPT ![r].pc = pc] /\ pc \in {"passed", "unavailable"}
      BY <1>2 DEF Disconnected
    <2> HIDE DEF pc
    <2>2. /\ hit' \in [Requests -> HitRecord] /\ hit'[r].pc = pc
          /\ \A q \in Requests : /\ hit'[q].at = hit[q].at /\ hit'[q].read = hit[q].read
                                 /\ hit'[q].ran = hit[q].ran
                                 /\ hit'[q].late = hit[q].late /\ hit'[q].count = hit[q].count
                                 /\ q # r => hit'[q] = hit[q]
      BY <2>1, HitGoesTo
    <2>3. \A q \in Requests : RanBefore(q)' /\ (hit'[q].pc = "admitted" => hit[q].count <= Limit)
      BY <2>1, <2>2 DEF LimiterInv, RanBefore
    <2> QED
      BY <1>2, <2>2, <2>3, LimiterRests DEF Disconnected
  <1>3. CASE Decides(r)
    <2> DEFINE pc == IF hit[r].count > Limit THEN "refused" ELSE "admitted"
    <2>1. hit' = [hit EXCEPT ![r].pc = pc] /\ pc \in {"refused", "admitted"}
          /\ (pc = "admitted" => ~(hit[r].count > Limit))
      BY <1>3 DEF Decides
    <2> HIDE DEF pc
    <2>2. /\ hit' \in [Requests -> HitRecord] /\ hit'[r].pc = pc
          /\ \A q \in Requests : /\ hit'[q].at = hit[q].at /\ hit'[q].read = hit[q].read
                                 /\ hit'[q].ran = hit[q].ran
                                 /\ hit'[q].late = hit[q].late /\ hit'[q].count = hit[q].count
                                 /\ q # r => hit'[q] = hit[q]
      BY <2>1, HitGoesTo
    <2>3. \A q \in Requests : RanBefore(q)'
      BY <2>1, <2>2 DEF LimiterInv, RanBefore
    <2>4. hit[r].count \in Nat /\ Limit \in Nat
      BY DEF LimiterInv, LimiterTypes, HitRecord, RateAssumption
    <2>5. \A q \in Requests : hit'[q].pc = "admitted" => hit[q].count <= Limit
      BY <2>1, <2>2, <2>4 DEF LimiterInv
    <2> QED
      BY <1>3, <2>2, <2>3, <2>5, LimiterRests DEF Decides
  <1> QED
    BY <1>1, <1>2, <1>3

LEMMA LimiterKeptByReads ==
  ASSUME RateAssumption, LimiterInv, NEW r \in Requests, ReadsClock(r)
  PROVE  LimiterInv'
  <1>0. hit[r] \in HitRecord /\ hit[r].pc = "idle" /\ hit[r].ran = {} /\ now \in 1 .. MaxTime
    BY DEF ReadsClock, LimiterInv, LimiterTypes, RanBefore
  <1>1. PICK ahead \in 0 .. Skew :
          hit' = [hit EXCEPT ![r] = [hit[r] EXCEPT !.pc = "trim", !.at = now + ahead, !.read = now]]
    BY <1>0 DEF ReadsClock, LimiterInv, LimiterTypes, HitRecord
  <1>2. MaxTime \in Nat /\ Skew \in Nat /\ now + ahead \in 0 .. (MaxTime + Skew) /\ now \in 0 .. MaxTime
    BY <1>0 DEF RateAssumption
  <1>3. [hit[r] EXCEPT !.pc = "trim", !.at = now + ahead, !.read = now] \in HitRecord
    BY <1>0, <1>2 DEF HitRecord
  <1>4. /\ hit' \in [Requests -> HitRecord] /\ hit'[r].at = now + ahead /\ hit'[r].read = now
        /\ hit'[r].ran = {} /\ hit'[r].pc = "trim"
        /\ \A q \in Requests : q # r => hit'[q] = hit[q]
    BY <1>0, <1>1, <1>3 DEF LimiterInv, LimiterTypes, HitRecord
  <1>5. UNCHANGED <<now, entries, expiry>>
    BY DEF ReadsClock
  <1>6. LimiterTypes'
    BY <1>0, <1>2, <1>4, <1>5 DEF LimiterInv, LimiterTypes
  <1>7. ~Complete(r)' /\ ~Standing(r)'
    BY <1>4 DEF Complete, Standing, Pipeline
  <1>8. RanBefore(r)' /\ StaysForAWindow(r)' /\ StaysForItsTick(r)'
    BY <1>4, <1>7 DEF RanBefore, StaysForAWindow, StaysForItsTick
  <1>9. ASSUME NEW q \in Requests, q # r
        PROVE  RanBefore(q)' /\ StaysForAWindow(q)' /\ StaysForItsTick(q)' /\ (Standing(q)' <=> Standing(q))
    BY <1>4, <1>5, <1>9 DEF LimiterInv, RanBefore, StaysForAWindow, StaysForItsTick, Standing,
                            Complete, Untrimmed
  <1>10. CountsThem'
    BY <1>4, <1>7, <1>9, CountsStay DEF LimiterInv
  <1> QED
    BY <1>4, <1>6, <1>8, <1>9, <1>10 DEF LimiterInv

LEMMA LimiterKeptByTicks ==
  ASSUME RateAssumption, LimiterInv, Ticks
  PROVE  LimiterInv'
  <1>0. now' = now + 1 /\ now < MaxTime /\ UNCHANGED <<entries, expiry, hit>>
    BY DEF Ticks
  <1>1. MaxTime \in Nat /\ Window \in Nat /\ Skew \in Nat /\ now \in Nat /\ now >= 1
        /\ \A r \in Requests : hit[r].at \in Nat /\ hit[r].read \in Nat /\ hit[r].read <= now
    BY LimiterNumbers DEF LimiterInv, LimiterTypes
  <1>2. LimiterTypes'
    BY <1>0, <1>1 DEF LimiterInv, LimiterTypes
  <1>3. ASSUME NEW r \in Requests
        PROVE  RanBefore(r)' /\ StaysForAWindow(r)' /\ StaysForItsTick(r)' /\ (Standing(r)' => Standing(r))
    <2>1. /\ RanBefore(r)' /\ (Complete(r)' <=> Complete(r)) /\ hit'[r].read # now'
          /\ Untrimmed(r)' => Untrimmed(r)
      BY <1>0, <1>1 DEF LimiterInv, RanBefore, Complete, Untrimmed
    <2>2. StaysForAWindow(r)'
      BY <1>0, <2>1 DEF LimiterInv, StaysForAWindow
    <2>3. StaysForItsTick(r)' /\ (Standing(r)' => Standing(r))
      BY <1>0, <2>1 DEF StaysForItsTick, Standing
    <2> QED
      BY <2>1, <2>2, <2>3
  <1>4. CountsThem'
    BY <1>0, <1>3, CountsStay DEF LimiterInv
  <1> QED
    BY <1>0, <1>2, <1>3, <1>4 DEF LimiterInv

\* A command of r runs.
LEMMA HitExecutes ==
  ASSUME LimiterInv, NEW r \in Requests, NEW command \in Pipeline, NEW next, NEW count \in Nat,
         next \in {"add", "card", "expire", "decide"}, Executes(r, command, next, count)
  PROVE  /\ hit' \in [Requests -> HitRecord] /\ hit[r].pc = command
         /\ hit'[r].pc = next /\ hit'[r].at = hit[r].at /\ hit'[r].read = hit[r].read
         /\ hit'[r].count = count /\ hit'[r].ran = hit[r].ran \cup {command}
         /\ ~hit'[r].late => ~hit[r].late /\ now = hit[r].read
         /\ \A q \in Requests : q # r => hit'[q] = hit[q]
  <1>1. hit[r] \in HitRecord
    BY DEF LimiterInv, LimiterTypes
  <1>2. hit' = [hit EXCEPT ![r] = [hit[r] EXCEPT !.pc = next, !.count = count,
                                     !.ran = hit[r].ran \cup {command},
                                     !.late = hit[r].late \/ now # hit[r].read]]
    BY <1>1 DEF Executes, LimiterInv, LimiterTypes, HitRecord
  <1>3. hit[r].ran \cup {command} \in SUBSET Pipeline /\ (hit[r].late \/ now # hit[r].read) \in BOOLEAN
    BY <1>1 DEF HitRecord
  <1>4. [hit[r] EXCEPT !.pc = next, !.count = count, !.ran = hit[r].ran \cup {command},
                       !.late = hit[r].late \/ now # hit[r].read] \in HitRecord
    BY <1>1, <1>3 DEF HitRecord
  <1>5. hit' \in [Requests -> HitRecord] /\ \A q \in Requests : q # r => hit'[q] = hit[q]
    BY <1>2, <1>4 DEF LimiterInv, LimiterTypes
  <1>6. /\ hit'[r].pc = next /\ hit'[r].at = hit[r].at /\ hit'[r].read = hit[r].read
        /\ hit'[r].count = count /\ hit'[r].ran = hit[r].ran \cup {command}
        /\ hit'[r].late = (hit[r].late \/ now # hit[r].read)
    BY <1>1, <1>2 DEF LimiterInv, LimiterTypes, HitRecord
  <1> QED
    BY <1>1, <1>5, <1>6 DEF Executes, HitRecord

\* What a command of r leaves as it is, whatever it does to the sorted set: the types of
\* the requests, and the other requests.
LEMMA AfterCommand ==
  ASSUME LimiterInv, NEW r \in Requests, NEW command \in Pipeline, NEW next,
         NEW count \in Nat, next \in {"add", "card", "expire", "decide"},
         Executes(r, command, next, count), now' = now
  PROVE  /\ hit' \in [Requests -> HitRecord]
         /\ \A q \in Requests : hit'[q].read <= now' /\ hit'[q].read <= hit'[q].at
                                /\ hit'[q].at <= hit'[q].read + Skew
         /\ \A q \in Requests : hit'[q].pc = "admitted" => hit'[q].count <= Limit
         /\ \A q \in Requests : hit'[q].at = hit[q].at /\ (Untrimmed(q)' <=> Untrimmed(q))
         /\ \A q \in Requests : q # r =>
              /\ RanBefore(q)' /\ (Complete(q)' <=> Complete(q)) /\ (Standing(q)' <=> Standing(q))
  <1>1. /\ hit' \in [Requests -> HitRecord] /\ hit'[r].pc = next /\ hit'[r].at = hit[r].at
        /\ hit'[r].read = hit[r].read
        /\ \A q \in Requests : q # r => hit'[q] = hit[q]
    BY HitExecutes
  <1>2. \A q \in Requests : hit'[q].at = hit[q].at /\ hit'[q].read = hit[q].read
    BY <1>1
  <1>3. \A q \in Requests : hit'[q].pc = "admitted" => hit'[q].count <= Limit
    BY <1>1 DEF LimiterInv
  <1>4. \A q \in Requests : hit'[q].read <= now' /\ hit'[q].read <= hit'[q].at
                            /\ hit'[q].at <= hit'[q].read + Skew
    BY <1>2 DEF LimiterInv, LimiterTypes
  <1> QED
    BY <1>1, <1>2, <1>3, <1>4 DEF LimiterInv, RanBefore, Complete, Standing, Untrimmed

\* A command that no process standing yet has run counts for nobody.
LEMMA CountsAfterCommand ==
  ASSUME LimiterInv, NEW r \in Requests, NEW command \in Pipeline, NEW next,
         NEW count \in Nat, next \in {"add", "card", "expire", "decide"},
         Executes(r, command, next, count), now' = now,
         Standing(r)' => Standing(r) /\ count = hit[r].count
  PROVE  CountsThem'
  <1>1. /\ hit'[r].at = hit[r].at /\ hit'[r].count = count
        /\ \A q \in Requests : q # r => hit'[q] = hit[q]
    BY HitExecutes
  <1>2. \A q \in Requests : q # r => (Standing(q)' <=> Standing(q))
    BY AfterCommand
  <1>3. ASSUME NEW q \in Requests, Standing(q)'
        PROVE  Standing(q) /\ hit'[q].at = hit[q].at /\ hit'[q].count = hit[q].count
    BY <1>1, <1>2, <1>3
  <1> QED
    BY <1>3, CountsStay DEF LimiterInv

LEMMA LimiterKeptByTrims ==
  ASSUME RateAssumption, LimiterInv, NEW r \in Requests, Trims(r)
  PROVE  LimiterInv'
  <1>0. Executes(r, "trim", "add", 0) /\ UNCHANGED <<now, expiry>>
        /\ entries' = {s \in Live : s + Window > hit[r].at}
    BY DEF Trims
  <1>1. hit'[r].ran \subseteq {"trim"} /\ hit'[r].pc = "add"
    BY <1>0, HitExecutes DEF Pipeline, LimiterInv, RanBefore
  <1>2. /\ now \in Nat /\ Window \in Nat /\ Skew \in Nat /\ expiry \in Nat
        /\ \A q \in Requests : hit[q].at \in Nat /\ hit[q].at <= now + Skew
    BY LimiterNumbers DEF LimiterInv
  <1>3. /\ \A q \in Requests : hit'[q].at = hit[q].at /\ (Untrimmed(q)' <=> Untrimmed(q))
        /\ \A q \in Requests : q # r => /\ RanBefore(q)' /\ (Complete(q)' <=> Complete(q))
        /\ \A q \in Requests : hit'[q].pc = "admitted" => hit'[q].count <= Limit
    BY <1>0, AfterCommand DEF Pipeline
  <1>4. LimiterTypes'
    BY <1>0, AfterCommand DEF Pipeline, LimiterInv, LimiterTypes, Live
  <1>5. RanBefore(r)' /\ StaysForAWindow(r)' /\ StaysForItsTick(r)' /\ ~Standing(r)'
    BY <1>1 DEF RanBefore, StaysForAWindow, StaysForItsTick, Standing, Complete, Pipeline
  <1>6. CountsThem'
    BY <1>0, <1>5, CountsAfterCommand DEF Pipeline
  <1>7. ASSUME NEW q \in Requests, q # r
        PROVE  StaysForAWindow(q)' /\ StaysForItsTick(q)'
    <2>1. hit'[q] = hit[q] /\ (Complete(q)' <=> Complete(q)) /\ (Untrimmed(q)' <=> Untrimmed(q))
      BY <1>0, <1>3, <1>7, HitExecutes DEF Pipeline
    <2>2. ASSUME hit[q].at \in entries, now < expiry, Untrimmed(q)
          PROVE  hit[q].at \in entries'
      <3>1. hit[q].at + Window > hit[r].at
        BY <1>2, <2>2 DEF Untrimmed
      <3> QED
        BY <1>0, <2>2, <3>1 DEF Live
    <2>3. StaysForAWindow(q)'
      <3>1. Untrimmed(q) /\ hit[q].at + Window <= expiry + Skew => now < expiry
        BY <1>2 DEF Untrimmed
      <3> QED
        BY <1>0, <2>1, <2>2, <3>1 DEF LimiterInv, StaysForAWindow
    <2>4. StaysForItsTick(q)'
      BY <1>0, <2>1, <2>2 DEF LimiterInv, StaysForItsTick
    <2> QED
      BY <2>3, <2>4
  <1> QED
    BY <1>3, <1>4, <1>5, <1>6, <1>7 DEF LimiterInv

LEMMA LimiterKeptByAdds ==
  ASSUME RateAssumption, LimiterInv, NEW r \in Requests, Adds(r)
  PROVE  LimiterInv'
  <1>0. Executes(r, "add", "card", 0) /\ now' = now
        /\ entries' = Live \cup {hit[r].at}
        /\ expiry' = IF Live = {} THEN MaxTime + Window + 1 ELSE expiry
    BY DEF Adds
  <1>1. hit'[r].ran \subseteq {"trim", "add"} /\ hit'[r].pc = "card" /\ hit'[r].at = hit[r].at
    BY <1>0, HitExecutes DEF Pipeline, LimiterInv, RanBefore
  <1>2. /\ now \in Nat /\ now <= MaxTime /\ MaxTime \in Nat /\ Window \in Nat /\ Skew \in Nat
        /\ expiry \in Nat /\ \A q \in Requests : hit[q].at \in Nat
    BY LimiterNumbers DEF LimiterInv
  <1>3. /\ \A q \in Requests : hit'[q].at = hit[q].at /\ (Untrimmed(q)' <=> Untrimmed(q))
        /\ \A q \in Requests : q # r => /\ RanBefore(q)' /\ (Complete(q)' <=> Complete(q))
        /\ \A q \in Requests : hit'[q].pc = "admitted" => hit'[q].count <= Limit
    BY <1>0, AfterCommand DEF Pipeline
  <1>4. LimiterTypes'
    <2>1. hit[r].at \in 0 .. (MaxTime + Skew)
      BY DEF LimiterInv, LimiterTypes, HitRecord
    <2>2. entries' \subseteq 0 .. (MaxTime + Skew)
      BY <1>0, <2>1 DEF LimiterInv, LimiterTypes, Live
    <2>3. expiry' \in Nat
      BY <1>0, <1>2
    <2> QED
      BY <1>0, <2>2, <2>3, AfterCommand DEF Pipeline, LimiterInv, LimiterTypes
  <1>5. now' < expiry'
    BY <1>0, <1>2 DEF Live
  <1>6. RanBefore(r)' /\ StaysForAWindow(r)' /\ StaysForItsTick(r)' /\ ~Standing(r)'
    BY <1>0, <1>1, <1>5 DEF RanBefore, StaysForAWindow, StaysForItsTick, Standing, Complete, Pipeline
  <1>7. CountsThem'
    BY <1>0, <1>6, CountsAfterCommand DEF Pipeline
  <1>8. ASSUME NEW q \in Requests, q # r
        PROVE  StaysForAWindow(q)' /\ StaysForItsTick(q)'
    <2>1. hit'[q] = hit[q] /\ (Complete(q)' <=> Complete(q)) /\ (Untrimmed(q)' <=> Untrimmed(q))
      BY <1>0, <1>3, <1>8, HitExecutes DEF Pipeline
    <2>2. ASSUME hit[q].at \in entries, now < expiry
          PROVE  hit[q].at \in entries' /\ expiry' = expiry
      BY <1>0, <2>2 DEF Live
    <2>3. StaysForAWindow(q)'
      <3>1. Untrimmed(q) /\ hit[q].at + Window <= expiry + Skew => now < expiry
        BY <1>2 DEF Untrimmed
      <3> QED
        BY <2>1, <2>2, <3>1 DEF LimiterInv, StaysForAWindow
    <2>4. StaysForItsTick(q)'
      BY <1>0, <2>1, <2>2 DEF LimiterInv, StaysForItsTick
    <2> QED
      BY <2>3, <2>4
  <1> QED
    BY <1>3, <1>4, <1>6, <1>7, <1>8 DEF LimiterInv

\* The count of a request in its own tick: the scores of all that stand, and are near to
\* its own, are in the set.
LEMMA LimiterKeptByCounts ==
  ASSUME RateAssumption, LimiterInv, NEW r \in Requests, Counts(r)
  PROVE  LimiterInv'
  <1>0. Executes(r, "card", "expire", Cardinality(Live)) /\ UNCHANGED <<now, entries, expiry>>
    BY DEF Counts
  <1>1. IsFiniteSet(Live) /\ Cardinality(Live) \in Nat
    <2>1. MaxTime \in Nat /\ Skew \in Nat
      BY LimiterNumbers DEF LimiterInv
    <2>2. IsFiniteSet(0 .. (MaxTime + Skew)) /\ Live \in SUBSET (0 .. (MaxTime + Skew))
      BY <2>1, FS_Interval DEF LimiterInv, LimiterTypes, Live
    <2> QED
      BY <2>2, FS_Subset, FS_CardinalityType
  <1>2. /\ hit'[r].pc = "expire" /\ hit'[r].at = hit[r].at /\ hit'[r].read = hit[r].read
        /\ hit'[r].count = Cardinality(Live)
        /\ hit'[r].ran = hit[r].ran \cup {"card"} /\ hit'[r].ran \subseteq {"trim", "add", "card"}
        /\ ~hit'[r].late => ~hit[r].late /\ now = hit[r].read
        /\ \A q \in Requests : q # r => hit'[q] = hit[q]
    BY <1>0, <1>1, HitExecutes DEF Pipeline, LimiterInv, RanBefore
  <1>3. /\ now \in Nat /\ Window \in Nat /\ Skew \in Nat /\ expiry \in Nat
        /\ \A q \in Requests : hit[q].at \in Nat /\ hit[q].read \in Nat /\ hit[q].read <= hit[q].at
    BY LimiterNumbers DEF LimiterInv
  <1>4. /\ \A q \in Requests : hit'[q].at = hit[q].at /\ (Untrimmed(q)' <=> Untrimmed(q))
        /\ \A q \in Requests : q # r => /\ RanBefore(q)' /\ (Complete(q)' <=> Complete(q))
                                        /\ (Standing(q)' <=> Standing(q))
        /\ \A q \in Requests : hit'[q].pc = "admitted" => hit'[q].count <= Limit
    BY <1>0, <1>1, AfterCommand DEF Pipeline
  <1>5. LimiterTypes'
    BY <1>0, <1>1, AfterCommand DEF Pipeline, LimiterInv, LimiterTypes
  <1>6. RanBefore(r)' /\ ~Complete(r)'
    BY <1>2 DEF RanBefore, Complete, Pipeline
  <1>7. \A q \in Requests : StaysForAWindow(q)' /\ StaysForItsTick(q)'
    <2>1. StaysForAWindow(r)' /\ StaysForItsTick(r)'
      BY <1>0, <1>2, <1>4, <1>6 DEF LimiterInv, StaysForAWindow, StaysForItsTick
    <2>2. ASSUME NEW q \in Requests, q # r PROVE StaysForAWindow(q)' /\ StaysForItsTick(q)'
      BY <1>0, <1>2, <1>4, <2>2 DEF LimiterInv, StaysForAWindow, StaysForItsTick
    <2> QED
      BY <2>1, <2>2
  <1>8. CountsThem'
    <2> SUFFICES ASSUME NEW S \in SUBSET Requests, S # {}, \A q \in S : Standing(q)', Near(S)'
                 PROVE  \E q \in S : Cardinality({hit'[x].at : x \in S}) <= hit'[q].count
      BY DEF CountsThem
    <2>1. CASE r \notin S
      <3>1. \A q \in S : hit'[q] = hit[q] /\ Standing(q)
        BY <1>2, <1>4, <2>1
      <3>2. {hit'[x].at : x \in S} = {hit[x].at : x \in S} /\ Near(S)
        BY <3>1 DEF Near
      <3> QED
        BY <3>1, <3>2 DEF LimiterInv, CountsThem
    <2>2. CASE r \in S
      <3>1. ~hit[r].late /\ now = hit[r].read /\ "add" \in hit[r].ran
        BY <1>2, <2>2 DEF Standing
      <3>2. ASSUME NEW q \in S PROVE hit[q].at \in Live
        <4>1. hit[r].at + Skew < hit[q].at + Window
          BY <1>4, <2>2 DEF Near
        <4>2. Untrimmed(q)
          BY <1>3, <2>2, <3>1, <4>1 DEF Untrimmed
        <4>3. CASE q = r
          BY <3>1, <4>2, <4>3 DEF LimiterInv, StaysForItsTick, Live
        <4>4. CASE q # r
          <5>1. Standing(q)
            BY <1>4, <4>4
          <5>2. CASE Complete(q)
            <6>1. hit[q].at \in entries /\ hit[q].at + Window <= expiry + Skew
              BY <4>2, <5>2 DEF LimiterInv, StaysForAWindow
            <6>2. now < expiry
              BY <1>3, <4>2, <6>1 DEF Untrimmed
            <6> QED
              BY <6>1, <6>2 DEF Live
          <5>3. CASE hit[q].read = now
            BY <4>2, <5>1, <5>3 DEF LimiterInv, StaysForItsTick, Standing, Live
          <5> QED
            BY <5>1, <5>2, <5>3 DEF Standing
        <4> QED
          BY <4>3, <4>4
      <3>3. {hit'[x].at : x \in S} \in SUBSET Live
        BY <1>4, <3>2
      <3>4. Cardinality({hit'[x].at : x \in S}) <= Cardinality(Live)
        BY <1>1, <3>3, FS_Subset
      <3> QED
        BY <1>2, <2>2, <3>4
    <2> QED
      BY <2>1, <2>2
  <1> QED
    BY <1>4, <1>5, <1>6, <1>7, <1>8 DEF LimiterInv

LEMMA LimiterKeptByExpires ==
  ASSUME RateAssumption, LimiterInv, NEW r \in Requests, Expires(r)
  PROVE  LimiterInv'
  <1>0. Executes(r, "expire", "decide", hit[r].count) /\ now' = now /\ entries' = Live
        /\ expiry' = IF Live = {} THEN expiry ELSE now + Window
    BY DEF Expires
  <1>1. hit[r].count \in Nat
    BY DEF LimiterInv, LimiterTypes, HitRecord
  <1>2. /\ hit'[r].pc = "decide" /\ hit'[r].count = hit[r].count /\ hit'[r].read = hit[r].read
        /\ hit'[r].ran = hit[r].ran \cup {"expire"}
        /\ ~hit'[r].late => ~hit[r].late /\ now = hit[r].read
        /\ \A q \in Requests : q # r => hit'[q] = hit[q]
    BY <1>0, <1>1, HitExecutes DEF Pipeline
  <1>3. /\ now \in Nat /\ Window \in Nat /\ Window > 0 /\ Skew \in Nat /\ expiry \in Nat
        /\ \A q \in Requests : hit[q].at \in Nat /\ hit[q].at <= now + Skew
    BY LimiterNumbers DEF LimiterInv
  <1>4. /\ \A q \in Requests : hit'[q].at = hit[q].at /\ (Untrimmed(q)' <=> Untrimmed(q))
        /\ \A q \in Requests : q # r => /\ RanBefore(q)' /\ (Complete(q)' <=> Complete(q))
        /\ \A q \in Requests : hit'[q].pc = "admitted" => hit'[q].count <= Limit
    BY <1>0, <1>1, AfterCommand DEF Pipeline
  <1>5. LimiterTypes'
    <2>1. entries' \subseteq entries /\ expiry' \in Nat
      BY <1>0, <1>3 DEF Live
    <2> QED
      BY <1>0, <1>1, <2>1, AfterCommand DEF Pipeline, LimiterInv, LimiterTypes
  <1>6. ASSUME NEW q \in Requests, hit[q].at \in entries, now < expiry
        PROVE  /\ hit'[q].at \in entries' /\ now' < expiry'
               /\ hit'[q].at + Window <= expiry' + Skew
    <2>1. hit[q].at \in entries' /\ expiry' = now + Window
      BY <1>0, <1>6 DEF Live
    <2> QED
      BY <1>0, <1>3, <1>4, <2>1
  <1>7. RanBefore(r)' /\ StaysForAWindow(r)' /\ StaysForItsTick(r)'
    <2>1. CASE ~hit'[r].late /\ "add" \in hit'[r].ran /\ Untrimmed(r)'
      <3>1. ~hit[r].late /\ now = hit[r].read /\ "add" \in hit[r].ran /\ Untrimmed(r)
        BY <1>2, <1>4, <2>1
      <3>2. hit[r].at \in entries /\ now < expiry
        BY <3>1 DEF LimiterInv, StaysForItsTick
      <3> QED
        BY <1>2, <1>6, <3>2 DEF RanBefore, StaysForAWindow, StaysForItsTick
    <2>2. CASE hit'[r].late \/ "add" \notin hit'[r].ran \/ ~Untrimmed(r)'
      BY <1>2, <2>2 DEF RanBefore, StaysForAWindow, StaysForItsTick, Complete, Pipeline
    <2> QED
      BY <2>1, <2>2
  <1>8. ASSUME NEW q \in Requests, q # r
        PROVE  StaysForAWindow(q)' /\ StaysForItsTick(q)'
    <2>1. hit'[q] = hit[q] /\ (Complete(q)' <=> Complete(q)) /\ (Untrimmed(q)' <=> Untrimmed(q))
      BY <1>2, <1>4, <1>8
    <2>2. StaysForAWindow(q)'
      <3>1. Untrimmed(q) /\ hit[q].at + Window <= expiry + Skew => now < expiry
        BY <1>3 DEF Untrimmed
      <3> QED
        BY <1>6, <2>1, <3>1 DEF LimiterInv, StaysForAWindow
    <2>3. StaysForItsTick(q)'
      BY <1>0, <1>6, <2>1 DEF LimiterInv, StaysForItsTick
    <2> QED
      BY <2>2, <2>3
  <1>9. Standing(r)' => Standing(r)
    BY <1>0, <1>2 DEF Standing
  <1>10. CountsThem'
    BY <1>0, <1>1, <1>9, CountsAfterCommand DEF Pipeline
  <1> QED
    BY <1>4, <1>5, <1>7, <1>8, <1>10 DEF LimiterInv

LEMMA LimiterStep == RateAssumption /\ LimiterInv /\ [RateNext]_limiter => LimiterInv'
  <1> SUFFICES ASSUME RateAssumption, LimiterInv, [RateNext]_limiter PROVE LimiterInv'
    OBVIOUS
  <1>1. CASE Ticks
    BY <1>1, LimiterKeptByTicks
  <1>2. ASSUME NEW r \in Requests,
               ReadsClock(r) \/ Trims(r) \/ Adds(r) \/ Counts(r) \/ Expires(r)
        PROVE  LimiterInv'
    BY <1>2, LimiterKeptByReads, LimiterKeptByTrims, LimiterKeptByAdds, LimiterKeptByCounts,
       LimiterKeptByExpires
  <1>3. ASSUME NEW r \in Requests, Refused(r) \/ Disconnected(r) \/ Decides(r)
        PROVE  LimiterInv'
    BY <1>3, LimiterKeptByAnswers
  <1>4. CASE UNCHANGED limiter
    <2>1. UNCHANGED <<now, entries, expiry, hit>>
      BY <1>4 DEF limiter
    <2> QED
      BY <2>1, LimiterRests DEF LimiterInv, LimiterTypes, RanBefore
  <1> QED
    BY <1>1, <1>2, <1>3, <1>4 DEF RateNext

\* The last of the requests that are counted has counted all of them.
LEMMA LimitHolds == RateAssumption /\ LimiterInv => AdmitsWithinLimit
  <1> SUFFICES ASSUME RateAssumption, LimiterInv, NEW from \in 1 .. (MaxTime + Skew)
               PROVE  Cardinality({hit[r].at : r \in {q \in Admitted : /\ ~hit[q].late
                         /\ {"trim", "add", "card", "expire"} \subseteq hit[q].ran
                         /\ hit[q].at \in from..(from + Window - Skew - 1)}}) <= Limit
    BY DEF AdmitsWithinLimit
  <1> DEFINE Counted == {q \in Admitted : /\ ~hit[q].late
                           /\ {"trim", "add", "card", "expire"} \subseteq hit[q].ran
                           /\ hit[q].at \in from..(from + Window - Skew - 1)}
  <1> SUFFICES Cardinality({hit[r].at : r \in Counted}) <= Limit
    OBVIOUS
  <1>1. /\ MaxTime \in Nat /\ Skew \in Nat /\ Limit \in Nat /\ Window \in Nat /\ from \in Nat
        /\ \A r \in Requests : hit[r].at \in Nat
    BY LimiterNumbers DEF LimiterInv
  <1>2. Counted \subseteq Requests /\ \A q \in Counted : Standing(q) /\ hit[q].count <= Limit
    BY DEF Standing, Complete, Pipeline, Admitted, LimiterInv
  <1>3. Near(Counted)
    <2> SUFFICES ASSUME NEW r \in Counted, NEW q \in Counted
                 PROVE  hit[r].at + Skew < hit[q].at + Window
      BY DEF Near
    <2>1. hit[r].at <= from + Window - Skew - 1 /\ from <= hit[q].at
      BY <1>1
    <2>2. hit[r].at \in Nat /\ hit[q].at \in Nat
      BY <1>1, <1>2
    <2> QED
      BY <1>1, <2>1, <2>2
  <1> HIDE DEF Counted
  <1>4. CASE Counted = {}
    <2>1. {hit[r].at : r \in Counted} = {}
      BY <1>4
    <2> QED
      BY <1>1, <2>1, FS_EmptySet
  <1>5. CASE Counted # {}
    <2>1. PICK q \in Counted : Cardinality({hit[r].at : r \in Counted}) <= hit[q].count
      BY <1>2, <1>3, <1>5 DEF LimiterInv, CountsThem
    <2>2. hit[q].count <= Limit /\ hit[q].count \in Nat
      BY <1>2 DEF LimiterInv, LimiterTypes, HitRecord
    <2>3. Cardinality({hit[r].at : r \in Counted}) \in Nat
      <3>1. IsFiniteSet(0 .. (MaxTime + Skew))
        BY <1>1, FS_Interval
      <3>2. {hit[r].at : r \in Counted} \in SUBSET (0 .. (MaxTime + Skew))
        BY <1>2 DEF LimiterInv, LimiterTypes, HitRecord
      <3> QED
        BY <3>1, <3>2, FS_Subset, FS_CardinalityType
    <2> QED
      BY <1>1, <2>1, <2>2, <2>3
  <1> QED
    BY <1>4, <1>5

\* However many processes send their commands to the key, however these interleave and
\* however far their clocks are apart, the requests that are let through, and whose
\* pipeline ran in the tick in which the clock was read, fall into at most Limit ticks of
\* any window less that difference (rate_limit_middleware.ts:64-76).
THEOREM LimitsTheWindow == ASSUME RateAssumption PROVE RateSpec => []AdmitsWithinLimit
  <1>1. RateInit => LimiterInv
    BY LimiterStarts
  <1>2. LimiterInv /\ [RateNext]_limiter => LimiterInv'
    BY LimiterStep
  <1>3. LimiterInv => AdmitsWithinLimit
    BY LimitHolds
  <1> QED
    BY <1>1, <1>2, <1>3, PTL DEF RateSpec

(***************************************************************************)
(*                 From the signed delivery to its handler                 *)
(***************************************************************************)

\* No handler reads a field that is not kept.
LEMMA HandlersReadWhatIsKept ==
  ASSUME NEW type \in Types
  PROVE  ReadBy[type] \subseteq KeptFields[type] /\ KeptFields[type] \cap Personal = {}
  BY DEF Types, ReadBy, KeptFields, Personal

LEMMA AnEvent ==
  ASSUME NEW e \in Events
  PROVE  /\ e = [type |-> e.type, object |-> e.object] /\ e.type \in Types
         /\ e.object.customer \in Forms /\ e.object.product \in Forms
         /\ e.object.subscription \in Forms /\ e.object.parent \in Forms
  <1>1. PICK t \in Types : \E b \in Bodies(t) : e = [type |-> t, object |-> b]
    BY DEF Events
  <1>2. PICK b \in Bodies(t) : e = [type |-> t, object |-> b]
    BY <1>1
  <1> QED
    BY <1>2 DEF Bodies

\* What is kept of an event leads its handler to the same work as the event itself:
\* the fields it reads are there, its references are ids, and the subscription of an
\* invoice is in its old place wherever it was.
LEMMA TheRowTellsTheSame ==
  ASSUME NEW e \in Events
  PROVE  Handled(ToReplayablePayload(e)) = Handled(e)
  <1> DEFINE o == e.object
             kept == ReplayableObject(e.type, o)
  <1>1. kept.fields \cap ReadBy[e.type] = o.fields \cap ReadBy[e.type]
    BY HandlersReadWhatIsKept, AnEvent DEF ReplayableObject
  <1>2. IdOf(kept.customer) = IdOf(o.customer) /\ IdOf(kept.product) = IdOf(o.product)
    BY DEF ReplayableObject, IdOf, AsId
  <1>3. InvoiceSubscription(kept) = InvoiceSubscription(o)
    BY DEF ReplayableObject, InvoiceSubscription, IdOf
  <1>4. ToReplayablePayload(e).type = e.type /\ ToReplayablePayload(e).object = kept
    BY DEF ToReplayablePayload
  <1> QED
    BY <1>1, <1>2, <1>3, <1>4 DEF Handled

LEMMA TheRowIsNotPersonal ==
  ASSUME NEW e \in Events
  PROVE  ToReplayablePayload(e).object.fields \cap Personal = {}
  BY HandlersReadWhatIsKept, AnEvent DEF ToReplayablePayload, ReplayableObject

LEMMA TheSummaryIsNotPersonal ==
  ASSUME NEW e
  PROVE  RedactStripeEvent(e).summary \cap Personal = {}
  BY DEF RedactStripeEvent, Personal

\* A row of this version is given back as it was stored, one of an older version is not.
LEMMA RowsOfThisVersion ==
  ASSUME IntakeAssumption, NEW e \in Events
  PROVE  /\ RebuildStripeEvent(ToReplayablePayload(e)) = ToReplayablePayload(e)
         /\ RebuildStripeEvent(ToReplayablePayload(e)) # NoValue
         /\ RebuildStripeEvent(RedactStripeEvent(e)) = NoValue
         /\ "summary" \in DOMAIN RedactStripeEvent(e)
  BY DEF IntakeAssumption, RebuildStripeEvent, ToReplayablePayload, RedactStripeEvent

\* Each stage has what the stages before it make sure of; the row is there before the
\* job, and is of this event in this version or the older one.
StagesOK ==
  /\ request \in IntakeRequests /\ request.event \in Events /\ tries \in Nat
  /\ server = "up" => HasClient(environment) /\ environment.secret = "whsec"
  /\ answer # NoValue => server = "up"
  /\ answer = "acknowledged" => Verdict(request) = "verified"
  /\ job # "none" => answer = "acknowledged" /\ answer # NoValue
  /\ job # "none" => ledgerRow # NoValue
  /\ ledgerRow \in {NoValue, RedactStripeEvent(request.event), ToReplayablePayload(request.event)}
  /\ handled # NoValue => job # "none" /\ handled = Handled(request.event)
  /\ logged # NoValue => logged.summary \cap Personal = {}

\* A job that failed with tries left met an error no retry repairs.
FailuresOK ==
  job = "failed" /\ tries < MaxTries =>
    \/ lastError \in {"auth", "permission"}
    \/ lastError = "gone" /\ "summary" \in DOMAIN ledgerRow

IntakeInv == StagesOK /\ FailuresOK

LEMMA IntakeStarts == ASSUME IntakeAssumption, IntakeInit PROVE IntakeInv
  <1>1. request \in IntakeRequests /\ request.event \in Events
    BY DEF IntakeInit, IntakeRequests
  <1> QED
    BY <1>1 DEF IntakeInit, IntakeInv, StagesOK, FailuresOK, IntakeAssumption

\* A handler that is given what the event says does what the event says.
LEMMA DispatchKeeps ==
  ASSUME IntakeInv, NEW e, DispatchEvent(e), Handled(e) = Handled(request.event),
         job = "queued", tries' = tries + 1,
         UNCHANGED <<given, atStripe, server, answer, ledgerRow>>
  PROVE  IntakeInv'
  <1>1. request' = request /\ environment' = environment
    BY DEF given
  <1>2. logged'.summary \cap Personal = {}
    BY TheSummaryIsNotPersonal DEF DispatchEvent
  <1>3. handled' = Handled(request'.event) /\ job' = "completed"
    BY <1>1 DEF DispatchEvent
  <1> QED
    BY <1>1, <1>2, <1>3 DEF IntakeInv, StagesOK, FailuresOK

LEMMA IntakeStep == ASSUME IntakeAssumption, IntakeInv, [IntakeNext]_intake PROVE IntakeInv'
  <1> USE DEF given, outcome
  <1>1. CASE VerifyBoot
    BY <1>1 DEF VerifyBoot, IntakeInv, StagesOK, FailuresOK
  <1>2. CASE Rejects
    <2>1. Verdict(request) # "acknowledged"
      BY DEF Verdict
    <2> QED
      BY <1>2, <2>1 DEF Rejects, IntakeInv, StagesOK, FailuresOK
  <1>3. CASE Accepts
    <2>1. job = "none" /\ handled = NoValue
      BY <1>3 DEF Accepts, IntakeInv, StagesOK
    <2>2. ToReplayablePayload(request.event) # NoValue /\ NoValue # "acknowledged"
      BY DEF IntakeInv, StagesOK, IntakeAssumption
    <2> QED
      BY <1>3, <2>1, <2>2 DEF Accepts, IntakeInv, StagesOK, FailuresOK
  <1>4. CASE AgesOut
    BY <1>4 DEF AgesOut, IntakeInv, StagesOK, FailuresOK
  <1>5. CASE FetchesFromStripe
    BY <1>5, DispatchKeeps DEF FetchesFromStripe
  <1>6. CASE FetchesFromRow
    <2>1. ledgerRow = ToReplayablePayload(request.event) /\ request.event \in Events
      BY <1>6, RowsOfThisVersion DEF FetchesFromRow, IntakeInv, StagesOK
    <2>2. Handled(RebuildStripeEvent(ledgerRow)) = Handled(request.event)
      BY <2>1, RowsOfThisVersion, TheRowTellsTheSame
    <2> QED
      BY <1>6, <2>2, DispatchKeeps DEF FetchesFromRow
  <1>7. CASE FetchFails
    <2>1. PICK error \in StripeErrors :
            /\ error = "gone" => RebuildStripeEvent(ledgerRow) = NoValue
            /\ lastError' = error
            /\ job' = IF ~IsRetryable(FromStripeError(error)) \/ tries' = MaxTries
                      THEN "failed" ELSE "queued"
      BY <1>7 DEF FetchFails
    <2>2. /\ job = "queued" /\ tries' = tries + 1
          /\ UNCHANGED <<given, atStripe, server, answer, ledgerRow, handled, logged>>
      BY <1>7 DEF FetchFails
    <2>3. StagesOK'
      BY <2>1, <2>2 DEF IntakeInv, StagesOK
    <2>4. ASSUME job' = "failed", tries' < MaxTries
          PROVE  error \in {"auth", "permission", "gone"}
      <3>1. ~IsRetryable(FromStripeError(error))
        BY <2>1, <2>2, <2>4 DEF IntakeInv, StagesOK, IntakeAssumption
      <3> QED
        BY <3>1 DEF StripeErrors, IsRetryable, FatalCodes, FromStripeError
    <2>5. error = "gone" => "summary" \in DOMAIN ledgerRow
      BY <2>1, <2>2, RowsOfThisVersion DEF IntakeInv, StagesOK
    <2> QED
      BY <2>1, <2>2, <2>3, <2>4, <2>5 DEF IntakeInv, FailuresOK
  <1>8. CASE Replays
    BY <1>8 DEF Replays, IntakeInv, StagesOK, FailuresOK
  <1>9. CASE UNCHANGED intake
    BY <1>9 DEF intake, IntakeInv, StagesOK, FailuresOK
  <1> QED
    BY <1>1, <1>2, <1>3, <1>4, <1>5, <1>6, <1>7, <1>8, <1>9 DEF IntakeNext

\* What a handler works with is what a signed, fresh and complete delivery said, also
\* when Stripe has forgotten the event and it is rebuilt from the row; nothing personal
\* is stored or logged; and a job that is given up with tries left met an error that no
\* retry repairs (stripe_webhook_controller.ts, redact.ts,
\* process_stripe_event_job.ts).
THEOREM HandlersWorkWithWhatWasSigned ==
  ASSUME IntakeAssumption
  PROVE  IntakeSpec => []HandlesWhatWasSigned
  <1>1. IntakeInit => IntakeInv
    BY IntakeStarts
  <1>2. IntakeInv /\ [IntakeNext]_intake => IntakeInv'
    BY IntakeStep
  <1>3. IntakeInv => HandlesWhatWasSigned
    <2> SUFFICES ASSUME IntakeInv PROVE HandlesWhatWasSigned
      OBVIOUS
    <2>1. handled # NoValue => Verdict(request) = "verified"
      BY DEF IntakeInv, StagesOK
    <2>2. ASSUME Verdict(request) = "verified"
          PROVE  request.signature = "valid" /\ request.body /\ OriginAllowed(request)
      <3>1. request.signature \in {"valid", "forged", "old", "none"} /\ request.body \in BOOLEAN
        BY DEF IntakeInv, StagesOK, IntakeRequests
      <3> QED
        BY <2>2, <3>1 DEF Verdict
    <2>3. ledgerRow # NoValue /\ "object" \in DOMAIN ledgerRow
            => ledgerRow.object.fields \cap Personal = {}
      <3>1. "object" \notin DOMAIN RedactStripeEvent(request.event)
        BY DEF RedactStripeEvent
      <3> QED
        BY <3>1, TheRowIsNotPersonal DEF IntakeInv, StagesOK
    <2>4. handled # NoValue =>
            handled = Handled(request.event) /\ HasClient(environment) /\ environment.secret = "whsec"
      BY DEF IntakeInv, StagesOK
    <2>5. logged # NoValue => logged.summary \cap Personal = {}
      BY DEF IntakeInv, StagesOK
    <2> QED
      BY <2>1, <2>2, <2>3, <2>4, <2>5 DEF IntakeInv, FailuresOK, HandlesWhatWasSigned
  <1> QED
    BY <1>1, <1>2, <1>3, PTL DEF IntakeSpec

(***************************************************************************)
(*                     The mirror of the subscriptions                     *)
(***************************************************************************)

\* One handler at a time, and events further apart than the tolerance of the guard.
HandledInTurn ==
  (\A v, w \in SyncWorkers : v = w) /\ Tolerance < Gap
OneSubscription == \A s, u \in SyncSubs : s = u

Sent == sent \ {Checkout}

\* Each event tells of a change of its own, at least Gap from every other; what kind
\* of event it is says which status it brings.
EventsOK ==
  \A e \in Sent :
    /\ e.at <= clock
    /\ e.kind = "deleted" <=> e.status = "canceled"
    /\ e.kind = "succeeded" => e.status = "active"
    /\ e.kind = "failed" => e.status = "past_due"
    /\ \A f \in Sent : f = e \/ e.at + Gap <= f.at \/ f.at + Gap <= e.at

\* Stripe's subscription is as its latest event tells, and a canceled one has no later.
Latest(e) == e \in Sent /\ \A f \in Sent : f.sub = e.sub => f.at <= e.at
TruthOK ==
  /\ \A s \in SyncSubs :
       IF truth[s].status = "none" THEN \A e \in Sent : e.sub # s
       ELSE \E e \in Sent : /\ Latest(e) /\ e.sub = s
                            /\ e.status = truth[s].status /\ e.product = truth[s].product
  /\ \A e \in Sent : e.kind = "deleted" => Latest(e) /\ truth[e.sub].status = "canceled"

\* A row is what one of the events has made of it.
TellsRow(e, row) ==
  /\ e.at = row.lastEventAt /\ e.status = row.status
  /\ e.kind \in Syncs => row.planName = PlanOf(e)
MirrorOK ==
  \A s \in SyncSubs : mirrored[s].status # "none" =>
    \E e \in Sent : e.sub = s /\ TellsRow(e, mirrored[s])

\* An event that has been handled has left the row as it tells it or at a later one.
DoneOK ==
  \A e \in done : e.kind \in Syncs =>
    mirrored[e.sub].status # "none" /\ e.at <= mirrored[e.sub].lastEventAt

\* A handler that is about to write has read the row as it is, for an event that is not
\* stale, and has assigned the plan first.
HandlerFine(b) ==
  b # SyncIdle =>
    /\ b.ev \in sent
    /\ b.pc = "assign" => b.ev.kind \in Syncs
    /\ b.pc = "save" => b.ev.kind \in Syncs \cup Payments
    /\ b.pc \in {"assign", "save"} =>
         b.read = mirrored[b.ev.sub] /\ ~Stale(mirrored[b.ev.sub], b.ev.at)
    /\ b.pc = "save" /\ b.ev.kind \in Payments => Flips(mirrored[b.ev.sub], b.ev)
    /\ b.pc = "save" /\ b.ev.kind \in Syncs => planRow.name = PlanOf(b.ev)
HandlerOK == \A w \in SyncWorkers : HandlerFine(worker[w])

SyncInv == SyncTypeOK /\ EventsOK /\ TruthOK /\ MirrorOK /\ DoneOK /\ HandlerOK

\* The plan is the row's, or an event that is newer than the row is still to be handled;
\* a canceled subscription leaves the default plan.
PlansOK ==
  \A s \in SyncSubs : mirrored[s].status # "none" =>
    /\ mirrored[s].status = "canceled" => planRow.name = BillingDefault
    /\ (\A e \in sent : e.kind \notin Payments) =>
         \/ planRow.name = mirrored[s].planName
         \/ \E e \in Sent \ done :
              e.kind \in Syncs /\ e.sub = s /\ e.at > mirrored[s].lastEventAt

LEMMA SentEvent ==
  ASSUME SyncTypeOK, SyncAssumption, NEW e \in Sent
  PROVE  /\ e \in SyncEvent /\ e.at \in Nat /\ e.at \in Time /\ e.sub \in SyncSubs
         /\ e.status \in SyncStatus /\ e.product \in Products
         /\ e.kind \in Syncs \cup Payments /\ e \in sent
  BY DEF SyncTypeOK, SyncAssumption, Sent, SyncEvent, Time, Syncs, Payments

LEMMA PlanOfTyped ==
  ASSUME NEW ev, SyncAssumption
  PROVE  PlanOf(ev) \in SyncPlans
  BY DEF PlanOf, SyncPlans

LEMMA RowTyped ==
  ASSUME SyncTypeOK, SyncAssumption, NEW s \in SyncSubs
  PROVE  /\ mirrored[s] \in SyncRow \cup {NoSyncRow}
         /\ mirrored[s].status \in SyncStatus \cup {"none"}
         /\ mirrored[s].planName \in SyncPlans
         /\ mirrored[s].lastEventAt \in Time /\ mirrored[s].lastEventAt \in Nat
         /\ mirrored[s].status # "none" => mirrored[s] \in SyncRow
  BY DEF SyncTypeOK, SyncAssumption, SyncRow, NoSyncRow, SyncPlans, Time

\* What a handler at work holds.
LEMMA HandlerAtWork ==
  ASSUME SyncTypeOK, SyncAssumption, HandlerOK, NEW w \in SyncWorkers, worker[w].pc # "idle"
  PROVE  /\ worker[w] # SyncIdle /\ worker[w] \in Busy /\ worker[w].ev \in sent
         /\ worker[w].read \in SyncRow \cup {NoSyncRow}
         /\ worker[w].ev.kind \in Syncs \cup Payments => worker[w].ev \in Sent
  <1>1. worker[w] # SyncIdle
    BY DEF SyncIdle
  <1>2. worker[w] \in Busy
    BY <1>1 DEF SyncTypeOK
  <1>3. worker[w].ev.kind \in Syncs \cup Payments => worker[w].ev # Checkout
    BY DEF Checkout, Syncs, Payments
  <1> QED
    BY <1>1, <1>2, <1>3 DEF Busy, HandlerOK, HandlerFine, Sent

\* A row that is saved as it was read becomes what the handler wanted it to be.
LEMMA SavedAsWanted ==
  ASSUME NEW read, NEW new \in SyncRow
  PROVE  SavedRow(read, read, new) = new
  <1>1. new = [status |-> new.status, planName |-> new.planName, lastEventAt |-> new.lastEventAt]
    BY DEF SyncRow
  <1> QED
    BY <1>1 DEF SavedRow

(* What the handlers have in common.  Three kinds of steps leave the mirror alone: a    *)
(* handler goes on or gives up, it ends, and Stripe sends.                              *)

\* A row that is not stale for an event is not newer than it.
LEMMA NotStaleNotNewer ==
  ASSUME SyncTypeOK, SyncAssumption, HandledInTurn, EventsOK, MirrorOK,
         NEW ev \in Sent, mirrored[ev.sub].status # "none", ~Stale(mirrored[ev.sub], ev.at)
  PROVE  /\ ev.at >= mirrored[ev.sub].lastEventAt
         /\ ev.at = mirrored[ev.sub].lastEventAt => TellsRow(ev, mirrored[ev.sub])
  <1> DEFINE row == mirrored[ev.sub]
  <1>1. PICK e \in Sent : e.sub = ev.sub /\ TellsRow(e, row)
    BY SentEvent DEF MirrorOK
  <1>2. ev.at + Tolerance >= e.at
    BY <1>1, SentEvent DEF Stale, TellsRow, SyncAssumption
  <1>3. e = ev \/ ev.at + Gap <= e.at \/ e.at + Gap <= ev.at
    BY <1>1 DEF EventsOK
  <1>4. e = ev \/ e.at + Gap <= ev.at
    BY <1>2, <1>3, SentEvent DEF HandledInTurn, SyncAssumption
  <1>5. CASE e = ev
    BY <1>1, <1>5, SentEvent DEF TellsRow
  <1>6. CASE e.at + Gap <= ev.at
    BY <1>1, <1>6, SentEvent DEF TellsRow, SyncAssumption
  <1> QED
    BY <1>4, <1>5, <1>6

\* The last word on a canceled subscription is its deletion.
LEMMA CanceledByDeletion ==
  ASSUME SyncTypeOK, SyncAssumption, HandledInTurn, EventsOK, MirrorOK, TruthOK,
         NEW ev \in Sent, mirrored[ev.sub].status = "canceled", ~Stale(mirrored[ev.sub], ev.at)
  PROVE  ev.kind = "deleted"
  <1> DEFINE row == mirrored[ev.sub]
  <1>1. PICK e \in Sent : e.sub = ev.sub /\ TellsRow(e, row)
    BY SentEvent DEF MirrorOK
  <1>2. e.kind = "deleted" /\ Latest(e)
    BY <1>1 DEF TellsRow, EventsOK, TruthOK
  <1>3. ev.at <= e.at
    BY <1>1, <1>2 DEF Latest
  <1>4. ev.at >= e.at
    BY <1>1, NotStaleNotNewer DEF TellsRow
  <1>5. e = ev
    BY <1>3, <1>4, SentEvent DEF EventsOK, SyncAssumption
  <1> QED
    BY <1>2, <1>5

(* Types. *)

LEMMA SendsTyped ==
  ASSUME SyncTypeOK, SyncAssumption, NEW s \in SyncSubs, NEW kind \in Syncs \cup Payments,
         NEW status \in SyncStatus, NEW product \in Products, StripeChanges(s, kind, status, product)
  PROVE  SyncTypeOK'
  <1> DEFINE new == [kind |-> kind, sub |-> s, status |-> status, product |-> product,
                     at |-> clock + Gap]
  <1>1. new \in SyncEvent
    BY DEF StripeChanges, SyncEvent, Syncs, Payments
  <1>2. sent' \subseteq SyncEvent \cup {Checkout} /\ sent \subseteq sent'
    BY <1>1 DEF StripeChanges, SyncTypeOK
  <1>3. truth' \in [SyncSubs -> Subscription \cup {NoSub}] /\ clock' \in Time
    BY DEF StripeChanges, SyncTypeOK, Subscription
  <1> QED
    BY <1>2, <1>3 DEF StripeChanges, SyncTypeOK, syncBounds

\* A handler moves on, and at most its own event is added to the handled ones.
LEMMA HandlerTyped ==
  ASSUME SyncTypeOK, SyncAssumption, HandlerOK, NEW w \in SyncWorkers,
         NEW b \in Busy \cup {SyncIdle}, worker' = [worker EXCEPT ![w] = b],
         done' \subseteq sent, UNCHANGED stripeState,
         mirrored' \in [SyncSubs -> SyncRow \cup {NoSyncRow}],
         planRow' \in [name : SyncPlans, source : PlanSources],
         customer' \in BOOLEAN, replays' \in 0 .. MaxReplays /\ spent' \in Attempts, syncFaults' \in 0 .. MaxSyncFaults
  PROVE  SyncTypeOK'
  <1>1. worker' \in [SyncWorkers -> Busy \cup {SyncIdle}]
    BY DEF SyncTypeOK
  <1> QED
    BY <1>1 DEF SyncTypeOK, stripeState

LEMMA SavesTyped ==
  ASSUME SyncTypeOK, SyncAssumption, NEW s \in SyncSubs, NEW read \in SyncRow \cup {NoSyncRow},
         NEW new \in SyncRow
  PROVE  [mirrored EXCEPT ![s] = SavedRow(mirrored[s], read, new)]
           \in [SyncSubs -> SyncRow \cup {NoSyncRow}]
  <1>1. SavedRow(mirrored[s], read, new) \in SyncRow
    BY RowTyped DEF SavedRow, SyncRow
  <1> QED
    BY <1>1 DEF SyncTypeOK

\* What the two kinds of handlers save.
SyncedRow(ev) == [status |-> ev.status, planName |-> PlanOf(ev), lastEventAt |-> ev.at]
PaidRow(ev, read) ==
  [status |-> IF ev.kind = "succeeded" THEN "active" ELSE "past_due",
   planName |-> read.planName, lastEventAt |-> ev.at]

LEMMA SyncedRowTyped ==
  ASSUME SyncTypeOK, SyncAssumption, NEW ev \in Sent
  PROVE  SyncedRow(ev) \in SyncRow
  BY SentEvent, PlanOfTyped DEF SyncedRow, SyncRow

LEMMA PaidRowTyped ==
  ASSUME SyncTypeOK, SyncAssumption, NEW ev \in Sent, NEW read \in SyncRow \cup {NoSyncRow}
  PROVE  PaidRow(ev, read) \in SyncRow
  <1>1. read.planName \in SyncPlans
    BY DEF SyncRow, NoSyncRow, SyncPlans
  <1> QED
    BY <1>1, SentEvent DEF PaidRow, SyncRow, SyncStatus

(* Steps. *)

LEMMA StripeKeeps ==
  ASSUME UNCHANGED stripeState, EventsOK, TruthOK
  PROVE  EventsOK' /\ TruthOK' /\ Sent' = Sent
  BY DEF stripeState, EventsOK, TruthOK, Latest, Sent

LEMMA SendsKeep ==
  ASSUME SyncAssumption, HandledInTurn, SyncInv,
         NEW s \in SyncSubs, NEW kind \in Syncs \cup Payments,
         NEW status \in SyncStatus, NEW product \in Products, StripeChanges(s, kind, status, product),
         truth[s].status # "canceled", kind = "deleted" <=> status = "canceled",
         kind = "succeeded" => status = "active", kind = "failed" => status = "past_due"
  PROVE  SyncInv' /\ (PlansOK => PlansOK')
  <1> USE DEF SyncInv
  <1>0. PICK new : new = [kind |-> kind, sub |-> s, status |-> status, product |-> product,
                          at |-> clock + Gap]
    OBVIOUS
  <1>1. Sent' = Sent \cup {new}
    <2>1. new # Checkout
      BY <1>0 DEF Checkout, Syncs, Payments
    <2> QED
      BY <2>1, <1>0 DEF StripeChanges, Sent
  <1>2. clock \in Nat /\ clock' = clock + Gap /\ Gap \in Nat \ {0}
    BY DEF StripeChanges, SyncTypeOK, SyncAssumption, Time
  <1>3. \A e \in Sent : e.at \in Nat /\ e.at <= clock
    BY SentEvent DEF EventsOK
  <1>4. /\ new.at = clock + Gap /\ new.kind = kind /\ new.status = status /\ new.sub = s
        /\ new.product = product
    BY <1>0
  <1>5. EventsOK'
    <2> SUFFICES ASSUME NEW e \in Sent'
                 PROVE  /\ e.at <= clock'
                        /\ e.kind = "deleted" <=> e.status = "canceled"
                        /\ e.kind = "succeeded" => e.status = "active"
                        /\ e.kind = "failed" => e.status = "past_due"
                        /\ \A f \in Sent' : f = e \/ e.at + Gap <= f.at \/ f.at + Gap <= e.at
      BY DEF EventsOK
    <2>1. CASE e \in Sent
      BY <2>1, <1>1, <1>2, <1>3, <1>4 DEF EventsOK
    <2>2. CASE e = new
      BY <2>2, <1>1, <1>2, <1>3, <1>4
    <2> QED
      BY <2>1, <2>2, <1>1
  <1>6. truth' = [truth EXCEPT ![s] = [status |-> status, product |-> product]]
        /\ truth \in [SyncSubs -> Subscription \cup {NoSub}]
    BY DEF StripeChanges, SyncTypeOK
  <1>7. Latest(new)'
    BY <1>1, <1>2, <1>3, <1>4 DEF Latest
  <1>8. ASSUME NEW e \in Sent, Latest(e), e.sub # s PROVE Latest(e)'
    BY <1>1, <1>4, <1>8 DEF Latest
  <1>9. TruthOK'
    <2>1. ASSUME NEW u \in SyncSubs
          PROVE  IF truth'[u].status = "none" THEN \A e \in Sent' : e.sub # u
                 ELSE \E e \in Sent' : /\ Latest(e)' /\ e.sub = u
                                       /\ e.status = truth'[u].status /\ e.product = truth'[u].product
      <3>1. CASE u = s
        <4>1. truth'[u].status = status /\ truth'[u].product = product
          BY <3>1, <1>6
        <4> QED
          BY <3>1, <4>1, <1>1, <1>4, <1>7 DEF SyncStatus
      <3>2. CASE u # s
        <4>1. truth'[u] = truth[u]
          BY <3>2, <1>6
        <4> QED
          BY <3>2, <4>1, <1>1, <1>4, <1>8 DEF TruthOK
      <3> QED
        BY <3>1, <3>2
    <2>2. ASSUME NEW e \in Sent', e.kind = "deleted"
          PROVE  Latest(e)' /\ truth'[e.sub].status = "canceled"
      <3>1. CASE e = new
        BY <3>1, <2>2, <1>4, <1>6, <1>7
      <3>2. CASE e \in Sent
        <4>1. Latest(e) /\ truth[e.sub].status = "canceled" /\ e.sub \in SyncSubs
          BY <3>2, <2>2, SentEvent DEF TruthOK
        <4> QED
          BY <3>2, <4>1, <1>6, <1>8
      <3> QED
        BY <3>1, <3>2, <1>1
    <2> QED
      BY <2>1, <2>2 DEF TruthOK
  <1>10. UNCHANGED <<mirrored, done, planRow, worker>> /\ sent \subseteq sent'
    BY DEF StripeChanges
  <1>11. MirrorOK' /\ DoneOK'
    BY <1>1, <1>10 DEF MirrorOK, DoneOK, TellsRow
  <1>12. HandlerOK'
    BY <1>10 DEF HandlerOK, HandlerFine
  <1>13. PlansOK => PlansOK'
    BY <1>1, <1>10 DEF PlansOK
  <1> QED
    BY <1>5, <1>9, <1>11, <1>12, <1>13, SendsTyped

LEMMA SendsStep ==
  ASSUME SyncAssumption, HandledInTurn, SyncInv, Sends
  PROVE  SyncInv' /\ (PlansOK => PlansOK')
  <1> PICK s \in SyncSubs :
        \/ \E status \in {"active", "past_due"}, product \in Products : Updates(s, status, product)
        \/ CancelsAtStripe(s) \/ InvoiceFails(s) \/ InvoicePaid(s)
    BY DEF Sends
  <1>1. truth[s] \in Subscription \cup {NoSub}
    BY DEF SyncInv, SyncTypeOK
  <1>2. truth[s].status # "none" => truth[s].product \in Products
    BY <1>1 DEF Subscription, NoSub
  <1>3. CASE \E status \in {"active", "past_due"}, product \in Products : Updates(s, status, product)
    BY <1>3, SendsKeep DEF Updates, Syncs, SyncStatus
  <1>4. CASE CancelsAtStripe(s)
    BY <1>4, <1>2, SendsKeep DEF CancelsAtStripe, Syncs, SyncStatus
  <1>5. CASE InvoiceFails(s)
    BY <1>5, <1>2, SendsKeep DEF InvoiceFails, Payments, SyncStatus
  <1>6. CASE InvoicePaid(s)
    BY <1>6, <1>2, SendsKeep DEF InvoicePaid, Payments, SyncStatus
  <1> QED
    BY <1>3, <1>4, <1>5, <1>6

\* A handler goes on, gives up or ends, and leaves the mirror alone; an event it ends
\* with is not newer than the row.
LEMMA HandlerMoves ==
  ASSUME SyncAssumption, HandledInTurn, SyncInv, NEW w \in SyncWorkers,
         NEW b \in Busy \cup {SyncIdle}, worker' = [worker EXCEPT ![w] = b], HandlerFine(b)',
         UNCHANGED <<stripeState, mirrored>>,
         planRow' \in [name : SyncPlans, source : PlanSources],
         customer' \in BOOLEAN, replays' \in 0 .. MaxReplays /\ spent' \in Attempts, syncFaults' \in 0 .. MaxSyncFaults,
         NEW E \in SUBSET sent, done' = done \cup E,
         \A e \in E : e.kind \in Syncs =>
           mirrored[e.sub].status # "none" /\ e.at <= mirrored[e.sub].lastEventAt
  PROVE  SyncInv' /\ (PlansOK /\ planRow'.name = planRow.name => PlansOK')
  <1> USE DEF SyncInv
  <1>1. EventsOK' /\ TruthOK' /\ Sent' = Sent
    BY StripeKeeps
  <1>2. SyncTypeOK'
    <2>1. done' \subseteq sent
      BY DEF SyncTypeOK
    <2> QED
      BY <2>1, HandlerTyped DEF SyncTypeOK
  <1>3. MirrorOK' /\ DoneOK'
    BY <1>1 DEF MirrorOK, DoneOK
  <1>4. HandlerOK'
    <2>1. \A v \in SyncWorkers : worker'[v] = b
      BY DEF HandledInTurn, SyncTypeOK
    <2> QED
      BY <2>1 DEF HandlerOK
  <1>5. ASSUME PlansOK, planRow'.name = planRow.name PROVE PlansOK'
    <2> SUFFICES ASSUME NEW s \in SyncSubs, mirrored[s].status # "none",
                        \A e \in sent : e.kind \notin Payments, planRow.name # mirrored[s].planName
                 PROVE  \E e \in Sent \ done' :
                          e.kind \in Syncs /\ e.sub = s /\ e.at > mirrored[s].lastEventAt
      BY <1>1, <1>5 DEF PlansOK, stripeState
    <2>1. PICK e \in Sent \ done : e.kind \in Syncs /\ e.sub = s /\ e.at > mirrored[s].lastEventAt
      BY <1>5 DEF PlansOK
    <2>2. e \notin E
      BY <2>1, SentEvent, RowTyped
    <2> QED
      BY <2>1, <2>2
  <1> QED
    BY <1>1, <1>2, <1>3, <1>4, <1>5

\* An attempt at an event that was sent.
LEMMA SpentTyped ==
  ASSUME SyncTypeOK, NEW ev \in sent
  PROVE  /\ spent \cup ({ev} \X NextAttempt(ev)) \in Attempts
         /\ spent \ ({ev} \X (1 .. SyncAttempts)) \in Attempts
  BY DEF SyncTypeOK, Attempts, NextAttempt

\* A replay opens an event again, and touches no row.
LEMMA ReplaysKeep ==
  ASSUME SyncAssumption, HandledInTurn, SyncInv, NEW ev \in sent, ReplaysSync(ev)
  PROVE  SyncInv' /\ (PlansOK => PlansOK')
  <1> USE DEF SyncInv
  <1>1. /\ UNCHANGED <<stripeState, customer, mirrored, planRow, worker, syncFaults>>
        /\ done' \subseteq done /\ replays' \in 0 .. MaxReplays /\ spent' \in Attempts
    <2>1. replays' \in 0 .. MaxReplays
      BY DEF ReplaysSync, SyncTypeOK, SyncAssumption
    <2> QED
      BY <2>1, SpentTyped DEF ReplaysSync
  <1>2. EventsOK' /\ TruthOK' /\ Sent' = Sent /\ sent' = sent
    BY <1>1, StripeKeeps DEF stripeState
  <1>3. SyncTypeOK'
    BY <1>1, <1>2 DEF SyncTypeOK, stripeState
  <1>4. MirrorOK' /\ DoneOK'
    BY <1>1, <1>2 DEF MirrorOK, DoneOK
  <1>5. HandlerOK'
    BY <1>1, <1>2 DEF HandlerOK, HandlerFine
  <1>6. PlansOK => PlansOK'
    BY <1>1, <1>2 DEF PlansOK
  <1> QED
    BY <1>2, <1>3, <1>4, <1>5, <1>6

\* The events a handler takes, and the ways in which it gives up.
LEMMA TakesAndThrows ==
  ASSUME SyncAssumption, HandledInTurn, SyncInv, NEW w \in SyncWorkers,
         (\E ev \in sent : StartsSync(w, ev))
           \/ SyncFails(w) \/ Unresolved(w) \/ InsertCollides(w)
  PROVE  SyncInv' /\ (PlansOK => PlansOK')
  <1> USE DEF SyncInv
  <1>1. /\ planRow \in [name : SyncPlans, source : PlanSources] /\ customer \in BOOLEAN
        /\ replays \in 0 .. MaxReplays /\ spent \in Attempts /\ syncFaults \in 0 .. MaxSyncFaults
        /\ MaxReplays \in Nat /\ MaxSyncFaults \in Nat
    BY DEF SyncTypeOK, SyncAssumption
  <1>2. {} \in SUBSET sent /\ \A e \in {} : e.kind \in Syncs =>
          mirrored[e.sub].status # "none" /\ e.at <= mirrored[e.sub].lastEventAt
    OBVIOUS
  <1>3. ASSUME NEW ev \in sent, StartsSync(w, ev)
        PROVE  SyncInv' /\ (PlansOK => PlansOK')
    <2>0. PICK b : b = [pc |-> "read", ev |-> ev, read |-> NoSyncRow]
      OBVIOUS
    <2>1. b \in Busy
      BY <2>0 DEF SyncTypeOK, Busy
    <2>2. HandlerFine(b)'
      BY <1>3, <2>0 DEF HandlerFine, StartsSync, stripeState
    <2>3. /\ worker' = [worker EXCEPT ![w] = b] /\ done' = done \cup {}
          /\ UNCHANGED <<stripeState, mirrored, planRow, customer, syncBounds>>
      BY <1>3, <2>0 DEF StartsSync
    <2>4. /\ UNCHANGED <<stripeState, mirrored>> /\ b \in Busy \cup {SyncIdle}
          /\ planRow' \in [name : SyncPlans, source : PlanSources] /\ customer' \in BOOLEAN
          /\ replays' \in 0 .. MaxReplays /\ spent' \in Attempts
          /\ syncFaults' \in 0 .. MaxSyncFaults /\ planRow'.name = planRow.name
      BY <1>1, <2>1, <2>3 DEF syncBounds
    <2> QED
      BY <1>2, <2>2, <2>3, <2>4, HandlerMoves
  <1>4. CASE SyncFails(w) \/ Unresolved(w) \/ InsertCollides(w)
    <2>1. /\ worker' = [worker EXCEPT ![w] = SyncIdle] /\ done' = done \cup {}
          /\ UNCHANGED <<stripeState, mirrored, planRow, customer, replays>>
          /\ spent' = spent \cup ({worker[w].ev} \X NextAttempt(worker[w].ev))
          /\ syncFaults' \in 0 .. MaxSyncFaults
      BY <1>1, <1>4 DEF SyncFails, Unresolved, InsertCollides, SyncThrows, SyncFault
    <2>2. HandlerFine(SyncIdle)'
      BY DEF HandlerFine
    <2>3. worker[w].ev \in sent
      BY <1>4 DEF SyncFails, Unresolved, InsertCollides, AtStep, SyncIdle, HandlerOK, HandlerFine
    <2>4. spent' \in Attempts
      BY <2>1, <2>3, SpentTyped
    <2>5. /\ UNCHANGED <<stripeState, mirrored>> /\ SyncIdle \in Busy \cup {SyncIdle}
          /\ planRow' \in [name : SyncPlans, source : PlanSources] /\ customer' \in BOOLEAN
          /\ replays' \in 0 .. MaxReplays /\ planRow'.name = planRow.name
      BY <1>1, <2>1
    <2> QED
      BY <1>2, <2>1, <2>2, <2>4, <2>5, HandlerMoves
  <1> QED
    BY <1>3, <1>4

\* The ways in which a handler ends without a write to the mirror.
LEMMA EndsWithoutSaving ==
  ASSUME SyncAssumption, HandledInTurn, SyncInv, NEW w \in SyncWorkers,
         MapsCustomer(w) \/ DropsStale(w) \/ IgnoresPayment(w) \/ DowngradeFails(w) \/ Downgrades(w)
           \/ (KeepsStatus(w) /\ Ends(w))
  PROVE  SyncInv' /\ (PlansOK => PlansOK')
  <1> USE DEF SyncInv
  <1> DEFINE ev == worker[w].ev
  <1>1. /\ planRow \in [name : SyncPlans, source : PlanSources] /\ customer \in BOOLEAN
        /\ replays \in 0 .. MaxReplays /\ spent \in Attempts /\ syncFaults \in 0 .. MaxSyncFaults
        /\ MaxReplays \in Nat /\ MaxSyncFaults \in Nat
    BY DEF SyncTypeOK, SyncAssumption
  <1>2. /\ worker' = [worker EXCEPT ![w] = SyncIdle] /\ done' = done \cup {ev}
        /\ UNCHANGED <<stripeState, mirrored, replays, spent>>
        /\ syncFaults' \in 0 .. MaxSyncFaults /\ customer' \in BOOLEAN
        /\ planRow' = planRow \/ (Downgrades(w) /\ planRow' = [name |-> BillingDefault, source |-> "dunning"])
    <2>1. CASE MapsCustomer(w)
      BY <1>1, <2>1 DEF MapsCustomer, Ends, syncBounds
    <2>2. CASE DropsStale(w) \/ IgnoresPayment(w) \/ (KeepsStatus(w) /\ Ends(w))
      BY <1>1, <2>2 DEF DropsStale, IgnoresPayment, KeepsStatus, Ends, syncBounds
    <2>3. CASE DowngradeFails(w)
      BY <1>1, <2>3 DEF DowngradeFails, SyncFault, Ends
    <2>4. CASE Downgrades(w)
      BY <1>1, <2>4 DEF Downgrades, AssignPlan, Ends, syncBounds
    <2> QED
      BY <2>1, <2>2, <2>3, <2>4
  <1>3. ev \in sent
    BY HandlerAtWork DEF MapsCustomer, DropsStale, IgnoresPayment, DowngradeFails, Downgrades,
                         KeepsStatus, AtStep
  <1>4. ev.kind \in Syncs => mirrored[ev.sub].status # "none" /\ ev.at <= mirrored[ev.sub].lastEventAt
    <2>1. CASE DropsStale(w)
      <3>1. ev \in Sent
        BY <2>1, HandlerAtWork DEF DropsStale, AtStep
      <3> QED
        BY <2>1, <3>1, SentEvent, RowTyped DEF DropsStale, Stale, SyncAssumption
    <2>2. CASE ~DropsStale(w)
      BY <2>2 DEF MapsCustomer, IgnoresPayment, DowngradeFails, Downgrades, KeepsStatus, AtStep, Syncs,
                  Payments
    <2> QED
      BY <2>1, <2>2
  <1>5. planRow' \in [name : SyncPlans, source : PlanSources]
    BY <1>1, <1>2 DEF SyncPlans, PlanSources
  <1>6. HandlerFine(SyncIdle)'
    BY DEF HandlerFine
  <1>7. \A e \in {ev} : e.kind \in Syncs =>
          mirrored[e.sub].status # "none" /\ e.at <= mirrored[e.sub].lastEventAt
    BY <1>4
  <1>8. {ev} \in SUBSET sent /\ SyncIdle \in Busy \cup {SyncIdle} /\ replays' \in 0 .. MaxReplays /\ spent' \in Attempts
        /\ UNCHANGED <<stripeState, mirrored>>
    BY <1>1, <1>2, <1>3
  <1> HIDE DEF ev
  <1>9. SyncInv' /\ (PlansOK /\ planRow'.name = planRow.name => PlansOK')
    BY <1>1, <1>2, <1>5, <1>6, <1>7, <1>8, HandlerMoves
  <1>10. CASE planRow' # planRow
    <2>1. Downgrades(w) /\ planRow'.name = BillingDefault /\ ev \in sent /\ ev.kind \in Payments
      BY <1>2, <1>3, <1>10 DEF Downgrades, AtStep, ev
    <2>2. sent' = sent
      BY <1>8 DEF stripeState
    <2> QED
      BY <1>8, <1>9, <2>1, <2>2 DEF PlansOK
  <1> QED
    BY <1>9, <1>10

\* A handler reads the row, or goes on to dunning.
LEMMA MirrorAsRead ==
  ASSUME SyncAssumption, HandledInTurn, SyncInv, NEW w \in SyncWorkers,
         ReadsMirror(w) \/ ReadsStatus(w) \/ (KeepsStatus(w) /\ SyncGoto(w, "dunning") /\ done' = done)
  PROVE  SyncInv' /\ (PlansOK => PlansOK')
  <1> USE DEF SyncInv
  <1>1. /\ planRow \in [name : SyncPlans, source : PlanSources] /\ customer \in BOOLEAN
        /\ replays \in 0 .. MaxReplays /\ spent \in Attempts /\ syncFaults \in 0 .. MaxSyncFaults
    BY DEF SyncTypeOK
  <1>2. {} \in SUBSET sent /\ \A e \in {} : e.kind \in Syncs =>
          mirrored[e.sub].status # "none" /\ e.at <= mirrored[e.sub].lastEventAt
    OBVIOUS
  <1>3. worker[w] \in Busy /\ worker[w].ev \in Sent /\ worker[w].ev.sub \in SyncSubs
    <2>1. worker[w].pc = "read" /\ worker[w].ev.kind \in Syncs \cup Payments
      BY DEF ReadsMirror, ReadsStatus, KeepsStatus, AtStep
    <2> QED
      BY <2>1, HandlerAtWork, SentEvent
  <1>4. /\ UNCHANGED <<stripeState, mirrored>> /\ done' = done \cup {}
        /\ planRow' \in [name : SyncPlans, source : PlanSources] /\ customer' \in BOOLEAN
        /\ replays' \in 0 .. MaxReplays /\ spent' \in Attempts /\ syncFaults' \in 0 .. MaxSyncFaults
        /\ planRow'.name = planRow.name /\ sent' = sent
    BY <1>1 DEF ReadsMirror, ReadsStatus, KeepsStatus, syncBounds, stripeState
  <1>5. mirrored[worker[w].ev.sub] \in SyncRow \cup {NoSyncRow}
    BY <1>3 DEF SyncTypeOK
  <1>6. CASE ReadsMirror(w)
    <2>1. PICK b : b = [worker[w] EXCEPT !.pc = "assign", !.read = mirrored[worker[w].ev.sub]]
      OBVIOUS
    <2>2. /\ b \in Busy /\ b.pc = "assign" /\ b.ev = worker[w].ev
          /\ b.read = mirrored[worker[w].ev.sub]
      BY <1>3, <1>5, <2>1 DEF Busy
    <2>3. HandlerFine(b)'
      BY <1>3, <1>4, <1>6, <2>2 DEF HandlerFine, ReadsMirror, AtStep, Sent
    <2>4. worker' = [worker EXCEPT ![w] = b] /\ b \in Busy \cup {SyncIdle}
      BY <1>6, <2>1, <2>2 DEF ReadsMirror, SyncGotoWith
    <2> QED
      BY <1>2, <1>4, <2>3, <2>4, HandlerMoves
  <1>7. CASE ReadsStatus(w)
    <2>1. PICK b : b = [worker[w] EXCEPT !.pc = "save", !.read = mirrored[worker[w].ev.sub]]
      OBVIOUS
    <2>2. /\ b \in Busy /\ b.pc = "save" /\ b.ev = worker[w].ev
          /\ b.read = mirrored[worker[w].ev.sub]
      BY <1>3, <1>5, <2>1 DEF Busy
    <2>3. /\ b.ev.kind \in Payments /\ Flips(mirrored[b.ev.sub], b.ev)
          /\ b.ev.kind \notin Syncs
      BY <1>7, <2>2 DEF ReadsStatus, AtStep, Payments, Syncs
    <2>4. HandlerFine(b)'
      BY <1>3, <1>4, <2>2, <2>3 DEF HandlerFine, Flips, Sent
    <2>5. worker' = [worker EXCEPT ![w] = b] /\ b \in Busy \cup {SyncIdle}
      BY <1>7, <2>1, <2>2 DEF ReadsStatus, SyncGotoWith
    <2> QED
      BY <1>2, <1>4, <2>4, <2>5, HandlerMoves
  <1>8. CASE KeepsStatus(w) /\ SyncGoto(w, "dunning") /\ done' = done
    <2>1. PICK b : b = [worker[w] EXCEPT !.pc = "dunning"]
      OBVIOUS
    <2>2. b \in Busy /\ b.pc = "dunning" /\ b.ev = worker[w].ev
      BY <1>3, <1>5, <2>1 DEF Busy
    <2>3. HandlerFine(b)'
      BY <1>3, <1>4, <1>8, <2>2 DEF HandlerFine, KeepsStatus, AtStep, Sent
    <2>4. worker' = [worker EXCEPT ![w] = b] /\ b \in Busy \cup {SyncIdle}
      BY <1>8, <2>1, <2>2 DEF SyncGoto
    <2> QED
      BY <1>2, <1>4, <2>3, <2>4, HandlerMoves
  <1> QED
    BY <1>6, <1>7, <1>8

\* The plan an event brings is that of the row, or of a row that is still to be saved.
LEMMA Assigns ==
  ASSUME SyncAssumption, HandledInTurn, SyncInv, NEW w \in SyncWorkers, AssignsPlan(w)
  PROVE  SyncInv' /\ (OneSubscription /\ PlansOK => PlansOK')
  <1> USE DEF SyncInv
  <1>1. /\ worker[w] \in Busy /\ worker[w].ev \in Sent /\ worker[w].ev.sub \in SyncSubs
        /\ worker[w].pc = "assign" /\ worker[w].ev.kind \in Syncs /\ worker[w] # SyncIdle
    <2>1. worker[w].pc = "assign" /\ worker[w].ev.kind \in Syncs
      BY DEF AssignsPlan, AtStep
    <2> QED
      BY <2>1, HandlerAtWork, SentEvent
  <1>2. PICK ev : ev = worker[w].ev
    OBVIOUS
  <1>3. worker[w].read = mirrored[ev.sub] /\ ~Stale(mirrored[ev.sub], ev.at) /\ ev.kind \notin Payments
    BY <1>1, <1>2 DEF HandlerOK, HandlerFine, Syncs, Payments
  <1>4. /\ UNCHANGED <<stripeState, mirrored>> /\ done' = done \cup {}
        /\ planRow' = [name |-> PlanOf(ev), source |-> "stripe"]
        /\ replays' \in 0 .. MaxReplays /\ spent' \in Attempts /\ syncFaults' \in 0 .. MaxSyncFaults /\ customer' \in BOOLEAN
        /\ sent' = sent
    BY <1>2 DEF AssignsPlan, AssignPlan, SyncTypeOK, syncBounds, stripeState
  <1>5. planRow' \in [name : SyncPlans, source : PlanSources] /\ planRow'.name = PlanOf(ev)
    BY <1>4, PlanOfTyped DEF PlanSources
  <1>6. PICK b : b = [worker[w] EXCEPT !.pc = "save"]
    OBVIOUS
  <1>7. b \in Busy \cup {SyncIdle} /\ b.pc = "save" /\ b.ev = ev /\ b.read = worker[w].read
    BY <1>1, <1>2, <1>6 DEF Busy
  <1>8. HandlerFine(b)'
    BY <1>1, <1>2, <1>3, <1>4, <1>5, <1>7 DEF HandlerFine, Sent
  <1>9. worker' = [worker EXCEPT ![w] = b]
    BY <1>6 DEF AssignsPlan, SyncGoto
  <1>10. {} \in SUBSET sent /\ \A e \in {} : e.kind \in Syncs =>
           mirrored[e.sub].status # "none" /\ e.at <= mirrored[e.sub].lastEventAt
    OBVIOUS
  <1>11. SyncInv'
    BY <1>4, <1>5, <1>7, <1>8, <1>9, <1>10, HandlerMoves
  <1>12. ASSUME OneSubscription, PlansOK PROVE PlansOK'
    <2> SUFFICES ASSUME NEW s \in SyncSubs, mirrored[s].status # "none"
                 PROVE  /\ mirrored[s].status = "canceled" => PlanOf(ev) = BillingDefault
                        /\ \/ PlanOf(ev) = mirrored[s].planName
                           \/ \E e \in Sent' \ done' :
                                e.kind \in Syncs /\ e.sub = s /\ e.at > mirrored[s].lastEventAt
      BY <1>4, <1>5 DEF PlansOK
    <2>1. s = ev.sub
      BY <1>1, <1>2, <1>12 DEF OneSubscription
    <2>2. mirrored[s].status = "canceled" => PlanOf(ev) = BillingDefault
      BY <1>1, <1>2, <1>3, <2>1, CanceledByDeletion DEF PlanOf
    <2>3. CASE ev.at = mirrored[s].lastEventAt
      BY <1>1, <1>2, <1>3, <2>1, <2>2, <2>3, NotStaleNotNewer DEF TellsRow
    <2>4. CASE ev.at # mirrored[s].lastEventAt
      <3>1. ev.at > mirrored[s].lastEventAt
        BY <1>1, <1>2, <1>3, <2>1, <2>4, NotStaleNotNewer, SentEvent, RowTyped
      <3>2. ev \notin done
        BY <1>1, <1>2, <2>1, <3>1, SentEvent, RowTyped DEF DoneOK
      <3>3. Sent' = Sent
        BY <1>4 DEF Sent
      <3> QED
        BY <1>1, <1>2, <1>4, <2>1, <2>2, <3>1, <3>2, <3>3
    <2> QED
      BY <2>3, <2>4
  <1> QED
    BY <1>11, <1>12

\* A row that is saved for an event that is not stale tells of that event, and of
\* nothing older than the row it takes the place of.
LEMMA SavesKeep ==
  ASSUME SyncAssumption, HandledInTurn, SyncInv, NEW w \in SyncWorkers,
         NEW ev \in Sent, ~Stale(mirrored[ev.sub], ev.at),
         NEW new \in SyncRow, TellsRow(ev, new), mirrored' = [mirrored EXCEPT ![ev.sub] = new],
         NEW b \in Busy \cup {SyncIdle}, worker' = [worker EXCEPT ![w] = b], HandlerFine(b)',
         done' = done \/ done' = done \cup {ev},
         UNCHANGED <<stripeState, planRow, customer, syncBounds>>
  PROVE  SyncInv'
  <1> USE DEF SyncInv
  <1>1. EventsOK' /\ TruthOK' /\ Sent' = Sent
    BY StripeKeeps
  <1>2. ev.sub \in SyncSubs /\ ev \in sent /\ ev.at \in Nat
    BY SentEvent
  <1>3. /\ mirrored \in [SyncSubs -> SyncRow \cup {NoSyncRow}]
        /\ mirrored' \in [SyncSubs -> SyncRow \cup {NoSyncRow}]
        /\ mirrored'[ev.sub] = new /\ new.status # "none"
        /\ \A s \in SyncSubs \ {ev.sub} : mirrored'[s] = mirrored[s]
    BY <1>2 DEF SyncTypeOK, SyncRow, SyncStatus
  <1>4. SyncTypeOK'
    <2>1. done' \subseteq sent
      BY <1>2 DEF SyncTypeOK
    <2>2. /\ planRow' \in [name : SyncPlans, source : PlanSources] /\ customer' \in BOOLEAN
          /\ replays' \in 0 .. MaxReplays /\ spent' \in Attempts /\ syncFaults' \in 0 .. MaxSyncFaults
      BY DEF SyncTypeOK, syncBounds
    <2> QED
      BY <1>3, <2>1, <2>2, HandlerTyped
  <1>5. MirrorOK'
    BY <1>1, <1>3 DEF MirrorOK, TellsRow
  <1>6. DoneOK'
    <2> SUFFICES ASSUME NEW e \in done', e.kind \in Syncs
                 PROVE  mirrored'[e.sub].status # "none" /\ e.at <= mirrored'[e.sub].lastEventAt
      BY DEF DoneOK
    <2>1. CASE e = ev
      BY <1>2, <1>3, <2>1 DEF TellsRow
    <2>2. CASE e # ev
      <3>1. /\ e \in done /\ mirrored[e.sub].status # "none"
            /\ e.at <= mirrored[e.sub].lastEventAt
        BY <2>2 DEF DoneOK
      <3>2. e \in Sent
        BY <3>1 DEF SyncTypeOK, Sent, Checkout, Syncs
      <3>3. CASE e.sub = ev.sub
        <4>1. mirrored[ev.sub].lastEventAt <= ev.at
          BY <3>1, <3>3, NotStaleNotNewer
        <4> QED
          BY <1>2, <1>3, <3>1, <3>2, <3>3, <4>1, SentEvent, RowTyped DEF TellsRow
      <3>4. CASE e.sub # ev.sub
        BY <1>3, <3>1, <3>2, <3>4, SentEvent
      <3> QED
        BY <3>3, <3>4
    <2> QED
      BY <2>1, <2>2
  <1>7. HandlerOK'
    <2>1. \A v \in SyncWorkers : worker'[v] = b
      BY DEF HandledInTurn, SyncTypeOK
    <2> QED
      BY <2>1 DEF HandlerOK
  <1> QED
    BY <1>1, <1>4, <1>5, <1>6, <1>7

LEMMA SavesSubscription ==
  ASSUME SyncAssumption, HandledInTurn, SyncInv, NEW w \in SyncWorkers, SavesMirror(w)
  PROVE  SyncInv' /\ (OneSubscription => PlansOK')
         /\ (\A s \in SyncSubs : mirrored[s].status = "canceled" => mirrored'[s].status = "canceled")
  <1> USE DEF SyncInv
  <1>1. PICK ev : ev = worker[w].ev
    OBVIOUS
  <1>2. /\ worker[w] # SyncIdle /\ worker[w].pc = "save" /\ ev.kind \in Syncs /\ ev \in Sent
        /\ ev.sub \in SyncSubs
    <2>1. worker[w].pc = "save" /\ worker[w].ev.kind \in Syncs
      BY DEF SavesMirror, AtStep
    <2> QED
      BY <1>1, <2>1, HandlerAtWork, SentEvent
  <1>3. /\ worker[w].read = mirrored[ev.sub] /\ ~Stale(mirrored[ev.sub], ev.at)
        /\ planRow.name = PlanOf(ev)
    BY <1>1, <1>2 DEF HandlerOK, HandlerFine
  <1>4. SyncedRow(ev) \in SyncRow /\ TellsRow(ev, SyncedRow(ev))
    BY <1>2, SyncedRowTyped DEF SyncedRow, TellsRow
  <1>5. mirrored' = [mirrored EXCEPT ![ev.sub] = SyncedRow(ev)]
    BY <1>1, <1>3, <1>4, SavedAsWanted DEF SavesMirror, SyncedRow
  <1>6. /\ worker' = [worker EXCEPT ![w] = SyncIdle] /\ done' = done \cup {ev}
        /\ UNCHANGED <<stripeState, planRow, customer, syncBounds>>
    BY <1>1 DEF SavesMirror, Ends
  <1>7. HandlerFine(SyncIdle)' /\ SyncIdle \in Busy \cup {SyncIdle}
    BY DEF HandlerFine
  <1>8. SyncInv'
    BY <1>2, <1>3, <1>4, <1>5, <1>6, <1>7, SavesKeep
  <1>9. mirrored'[ev.sub] = SyncedRow(ev) /\ \A s \in SyncSubs \ {ev.sub} : mirrored'[s] = mirrored[s]
    BY <1>2, <1>5 DEF SyncTypeOK
  <1>10. ev.kind = "deleted" <=> ev.status = "canceled"
    BY <1>2 DEF EventsOK
  <1>11. ASSUME OneSubscription PROVE PlansOK'
    <2> SUFFICES ASSUME NEW s \in SyncSubs
                 PROVE  /\ mirrored'[s].status = "canceled" => planRow'.name = BillingDefault
                        /\ planRow'.name = mirrored'[s].planName
      BY DEF PlansOK
    <2>1. s = ev.sub /\ planRow' = planRow
      BY <1>2, <1>6, <1>11 DEF OneSubscription
    <2> QED
      BY <1>3, <1>9, <1>10, <2>1 DEF SyncedRow, PlanOf
  <1>12. ASSUME NEW s \in SyncSubs, mirrored[s].status = "canceled" PROVE mirrored'[s].status = "canceled"
    <2>1. CASE s = ev.sub
      BY <1>2, <1>3, <1>9, <1>10, <1>12, <2>1, CanceledByDeletion DEF SyncedRow
    <2>2. CASE s # ev.sub
      BY <1>9, <1>12, <2>2
    <2> QED
      BY <2>1, <2>2
  <1> QED
    BY <1>8, <1>11, <1>12

LEMMA SavesPayment ==
  ASSUME SyncAssumption, HandledInTurn, SyncInv, NEW w \in SyncWorkers, SavesStatus(w)
  PROVE  SyncInv' /\ (OneSubscription => PlansOK')
         /\ (\A s \in SyncSubs : mirrored[s].status = "canceled" => mirrored'[s].status = "canceled")
  <1> USE DEF SyncInv
  <1>1. PICK ev : ev = worker[w].ev
    OBVIOUS
  <1>2. /\ worker[w] # SyncIdle /\ worker[w].pc = "save" /\ ev.kind \in Payments /\ ev \in Sent
        /\ ev.sub \in SyncSubs /\ worker[w] \in Busy /\ ev.kind \notin Syncs
    <2>1. worker[w].pc = "save" /\ worker[w].ev.kind \in Payments
      BY DEF SavesStatus, AtStep
    <2> QED
      BY <1>1, <2>1, HandlerAtWork, SentEvent DEF Payments, Syncs
  <1>3. /\ worker[w].read = mirrored[ev.sub] /\ ~Stale(mirrored[ev.sub], ev.at)
        /\ Flips(mirrored[ev.sub], ev) /\ mirrored[ev.sub] \in SyncRow \cup {NoSyncRow}
    BY <1>1, <1>2 DEF HandlerOK, HandlerFine, SyncTypeOK
  <1>4. PICK new : new = PaidRow(ev, mirrored[ev.sub])
    OBVIOUS
  <1>5. new \in SyncRow /\ TellsRow(ev, new) /\ new.status # "canceled"
    BY <1>2, <1>3, <1>4, PaidRowTyped DEF PaidRow, TellsRow, EventsOK, Payments
  <1>6. mirrored' = [mirrored EXCEPT ![ev.sub] = new]
    <2>1. mirrored' = [mirrored EXCEPT ![ev.sub] =
                         SavedRow(mirrored[ev.sub], worker[w].read, PaidRow(ev, worker[w].read))]
      BY <1>1 DEF SavesStatus, PaidRow
    <2>2. SavedRow(mirrored[ev.sub], mirrored[ev.sub], new) = new
      BY <1>5, SavedAsWanted
    <2> QED
      BY <1>3, <1>4, <2>1, <2>2
  <1>7. UNCHANGED <<stripeState, planRow, customer, syncBounds>> /\ AfterStatus(w)
    BY DEF SavesStatus
  <1>8. SyncInv'
    <2>1. CASE worker[w].ev.kind = "failed" /\ Downgrade
      <3>1. PICK b : b = [worker[w] EXCEPT !.pc = "dunning"]
        OBVIOUS
      <3>2. b \in Busy \cup {SyncIdle} /\ b.pc = "dunning" /\ b.ev = ev
        BY <1>1, <1>2, <3>1 DEF Busy
      <3>3. worker' = [worker EXCEPT ![w] = b] /\ done' = done /\ sent' = sent
        BY <1>7, <2>1, <3>1 DEF AfterStatus, SyncGoto, stripeState
      <3>4. HandlerFine(b)'
        BY <1>2, <3>2, <3>3 DEF HandlerFine, Sent
      <3> QED
        BY <1>2, <1>3, <1>5, <1>6, <1>7, <3>2, <3>3, <3>4, SavesKeep
    <2>2. CASE ~(worker[w].ev.kind = "failed" /\ Downgrade)
      <3>1. worker' = [worker EXCEPT ![w] = SyncIdle] /\ done' = done \cup {ev}
        BY <1>1, <1>7, <2>2 DEF AfterStatus, Ends
      <3>2. HandlerFine(SyncIdle)' /\ SyncIdle \in Busy \cup {SyncIdle}
        BY DEF HandlerFine
      <3> QED
        BY <1>2, <1>3, <1>5, <1>6, <1>7, <3>1, <3>2, SavesKeep
    <2> QED
      BY <2>1, <2>2
  <1>9. mirrored'[ev.sub] = new /\ \A s \in SyncSubs \ {ev.sub} : mirrored'[s] = mirrored[s]
    BY <1>2, <1>6 DEF SyncTypeOK
  <1>10. ASSUME OneSubscription PROVE PlansOK'
    <2>1. ev \in sent' /\ ev.kind \in Payments
      BY <1>2, <1>7 DEF Sent, stripeState
    <2> QED
      BY <1>2, <1>5, <1>9, <1>10, <2>1 DEF PlansOK, OneSubscription
  <1>11. mirrored[ev.sub].status # "canceled"
    BY <1>3 DEF Flips
  <1> QED
    BY <1>8, <1>9, <1>10, <1>11

LEMMA SyncStarts == ASSUME SyncAssumption, SyncInit PROVE SyncInv /\ PlansOK
  <1>1. SyncTypeOK
    BY DEF SyncInit, SyncAssumption, SyncTypeOK, Time, NoSub, Subscription, SyncPlans, PlanSources,
           Attempts
  <1>2. Sent = {} /\ done = {}
    BY DEF SyncInit, Sent
  <1>3. EventsOK /\ TruthOK /\ DoneOK
    BY <1>2 DEF SyncInit, EventsOK, TruthOK, DoneOK, NoSub
  <1>4. \A s \in SyncSubs : mirrored[s].status = "none"
    BY DEF SyncInit, NoSyncRow
  <1>5. MirrorOK /\ PlansOK
    BY <1>4 DEF MirrorOK, PlansOK
  <1>6. HandlerOK
    BY DEF SyncInit, HandlerOK, HandlerFine
  <1> QED
    BY <1>1, <1>3, <1>5, <1>6 DEF SyncInv

\* A canceled subscription is only written to by the handler of its deletion.
LEMMA SyncStep ==
  ASSUME SyncAssumption, HandledInTurn, SyncInv, [SyncNext]_syncVars
  PROVE  SyncInv' /\ (OneSubscription /\ PlansOK => PlansOK') /\ StaysCanceled
  <1>1. CASE Sends
    <2>1. mirrored' = mirrored
      BY <1>1 DEF Sends, Updates, CancelsAtStripe, InvoiceFails, InvoicePaid, StripeChanges
    <2> QED
      BY <1>1, <2>1, SendsStep DEF StaysCanceled
  <1>2. ASSUME NEW w \in SyncWorkers,
               (\E ev \in sent : StartsSync(w, ev))
                 \/ SyncFails(w) \/ Unresolved(w) \/ InsertCollides(w)
        PROVE  SyncInv' /\ (OneSubscription /\ PlansOK => PlansOK') /\ StaysCanceled
    <2>1. mirrored' = mirrored
      BY <1>2 DEF StartsSync, SyncFails, Unresolved, InsertCollides
    <2> QED
      BY <1>2, <2>1, TakesAndThrows DEF StaysCanceled
  <1>3. ASSUME NEW w \in SyncWorkers,
               MapsCustomer(w) \/ DropsStale(w) \/ IgnoresPayment(w) \/ DowngradeFails(w)
                 \/ Downgrades(w) \/ (KeepsStatus(w) /\ Ends(w))
        PROVE  SyncInv' /\ (OneSubscription /\ PlansOK => PlansOK') /\ StaysCanceled
    <2>1. mirrored' = mirrored
      BY <1>3 DEF MapsCustomer, DropsStale, IgnoresPayment, DowngradeFails, Downgrades, KeepsStatus
    <2> QED
      BY <1>3, <2>1, EndsWithoutSaving DEF StaysCanceled
  <1>4. ASSUME NEW w \in SyncWorkers,
               ReadsMirror(w) \/ ReadsStatus(w)
                 \/ (KeepsStatus(w) /\ SyncGoto(w, "dunning") /\ done' = done)
        PROVE  SyncInv' /\ (OneSubscription /\ PlansOK => PlansOK') /\ StaysCanceled
    <2>1. mirrored' = mirrored
      BY <1>4 DEF ReadsMirror, ReadsStatus, KeepsStatus
    <2> QED
      BY <1>4, <2>1, MirrorAsRead DEF StaysCanceled
  <1>5. ASSUME NEW w \in SyncWorkers, KeepsStatus(w)
        PROVE  Ends(w) \/ (SyncGoto(w, "dunning") /\ done' = done)
    BY <1>5 DEF KeepsStatus, AfterStatus
  <1>6. ASSUME NEW w \in SyncWorkers, AssignsPlan(w)
        PROVE  SyncInv' /\ (OneSubscription /\ PlansOK => PlansOK') /\ StaysCanceled
    <2>1. mirrored' = mirrored
      BY <1>6 DEF AssignsPlan
    <2> QED
      BY <1>6, <2>1, Assigns DEF StaysCanceled
  <1>7. ASSUME NEW w \in SyncWorkers, SavesMirror(w)
        PROVE  SyncInv' /\ (OneSubscription /\ PlansOK => PlansOK') /\ StaysCanceled
    BY <1>7, SavesSubscription DEF StaysCanceled
  <1>8. ASSUME NEW w \in SyncWorkers, SavesStatus(w)
        PROVE  SyncInv' /\ (OneSubscription /\ PlansOK => PlansOK') /\ StaysCanceled
    BY <1>8, SavesPayment DEF StaysCanceled
  <1>10. ASSUME NEW ev \in sent, ReplaysSync(ev)
         PROVE  SyncInv' /\ (OneSubscription /\ PlansOK => PlansOK') /\ StaysCanceled
    BY <1>10, ReplaysKeep DEF StaysCanceled, ReplaysSync
  <1>9. CASE UNCHANGED syncVars
    <2>1. UNCHANGED <<stripeState, done, customer, mirrored, planRow, worker, syncBounds>>
      BY <1>9 DEF syncVars
    <2>2. Sent' = Sent /\ sent' = sent
      BY <2>1 DEF Sent, stripeState
    <2>3. SyncTypeOK' /\ EventsOK' /\ TruthOK'
      BY <2>1, StripeKeeps DEF SyncInv, SyncTypeOK, stripeState, syncBounds
    <2>4. MirrorOK' /\ DoneOK' /\ HandlerOK'
      BY <2>1, <2>2 DEF SyncInv, MirrorOK, DoneOK, HandlerOK, HandlerFine
    <2>5. PlansOK => PlansOK'
      BY <2>1, <2>2 DEF PlansOK
    <2> QED
      BY <2>1, <2>3, <2>4, <2>5 DEF SyncInv, StaysCanceled
  <1> QED
    BY <1>1, <1>2, <1>3, <1>4, <1>5, <1>6, <1>7, <1>8, <1>9, <1>10 DEF SyncNext, SyncRest, HandlerStep

\* Of two events of a subscription at the same time there is only one.
LEMMA SameEvent ==
  ASSUME SyncTypeOK, SyncAssumption, EventsOK, NEW e \in Sent, NEW f \in Sent, e.at = f.at
  PROVE  e = f
  BY SentEvent DEF EventsOK, SyncAssumption

\* Once an event is handled that no other of its subscription follows, the row tells of it.
LEMMA LastWord ==
  ASSUME SyncInv, SyncAssumption, NEW e \in Sent, Latest(e), e \in done, e.kind \in Syncs
  PROVE  TellsRow(e, mirrored[e.sub]) /\ mirrored[e.sub].status # "none"
  <1>1. mirrored[e.sub].status # "none" /\ e.at <= mirrored[e.sub].lastEventAt
    BY DEF SyncInv, DoneOK
  <1>2. PICK f \in Sent : f.sub = e.sub /\ TellsRow(f, mirrored[e.sub])
    BY <1>1, SentEvent DEF SyncInv, MirrorOK
  <1>3. f.at = e.at
    BY <1>1, <1>2, SentEvent DEF SyncInv, Latest, TellsRow
  <1>4. f = e
    BY <1>3, SameEvent DEF SyncInv
  <1> QED
    BY <1>1, <1>2, <1>4

LEMMA SyncRests ==
  ASSUME SyncAssumption, HandledInTurn, SyncInv, OneSubscription, PlansOK
  PROVE  RestsInSync /\ CanceledAtRest
  <1> SUFFICES ASSUME AtRest, NEW s \in SyncSubs
               PROVE  /\ (\A e \in sent : e.kind \notin Payments) =>
                           InSync(s) /\ (mirrored[s].status # "none" => planRow.name = mirrored[s].planName)
                      /\ mirrored[s].status = "canceled" <=> truth[s].status = "canceled"
                      /\ truth[s].status = "canceled" => planRow.name = BillingDefault
    BY DEF RestsInSync, CanceledAtRest
  <1>1. done = sent /\ Sent \subseteq done
    BY DEF AtRest, Sent
  <1>2. truth[s].status = "none" => mirrored[s].status = "none"
    BY DEF SyncInv, TruthOK, MirrorOK
  <1>3. mirrored[s].status = "canceled" => truth[s].status = "canceled"
    BY DEF SyncInv, MirrorOK, TruthOK, EventsOK, TellsRow
  <1>4. ASSUME truth[s].status # "none"
        PROVE  \E e \in Sent : /\ Latest(e) /\ e.sub = s /\ e.status = truth[s].status
                               /\ e.product = truth[s].product
                               /\ e.kind \in Syncs => TellsRow(e, mirrored[s]) /\ mirrored[s].status # "none"
    <2>1. PICK e \in Sent : /\ Latest(e) /\ e.sub = s /\ e.status = truth[s].status
                            /\ e.product = truth[s].product
      BY <1>4 DEF SyncInv, TruthOK
    <2> QED
      BY <1>1, <2>1, LastWord
  <1>5. truth[s].status = "canceled" => mirrored[s].status = "canceled"
    BY <1>4 DEF SyncInv, EventsOK, TellsRow, Syncs
  <1>6. mirrored[s].status = "canceled" => planRow.name = BillingDefault
    BY DEF PlansOK
  <1>7. ASSUME \A e \in sent : e.kind \notin Payments
        PROVE  InSync(s) /\ (mirrored[s].status # "none" => planRow.name = mirrored[s].planName)
    <2>1. \A e \in Sent : e.kind \in Syncs
      BY <1>7, SentEvent DEF SyncInv, Sent
    <2>2. InSync(s)
      <3>1. CASE truth[s].status = "none"
        BY <1>2, <3>1 DEF InSync
      <3>2. CASE truth[s].status # "none"
        BY <1>4, <2>1, <3>2 DEF InSync, TellsRow, PlanOf, SyncInv, EventsOK
      <3> QED
        BY <3>1, <3>2
    <2>3. mirrored[s].status # "none" => planRow.name = mirrored[s].planName
      BY <1>1, <1>7 DEF PlansOK
    <2> QED
      BY <2>2, <2>3
  <1> QED
    BY <1>3, <1>5, <1>6, <1>7

\* No event that comes late, or comes again, makes a canceled subscription active: the
\* ordering guard of syncSubscription and the condition of the payment handlers, as long
\* as events are handled one after the other and Stripe's are further apart than the
\* tolerance (billing_service.ts, stripe_event_dispatcher.ts).
THEOREM NoEventRevives ==
  ASSUME SyncAssumption, HandledInTurn
  PROVE  SyncSpec => CanceledStaysCanceled
  <1>1. SyncInit => SyncInv
    BY SyncStarts
  <1>2. SyncInv /\ [SyncNext]_syncVars => SyncInv'
    BY SyncStep
  <1>3. SyncInv /\ [SyncNext]_syncVars => [StaysCanceled]_syncVars
    BY SyncStep
  <1> QED
    BY <1>1, <1>2, <1>3, PTL DEF SyncSpec, CanceledStaysCanceled

\* Once every event of a tenant's subscription is handled, whatever the order, the faults
\* and the replays, the mirror is Stripe's and the plan is the mirror's
\* (syncSubscription, assignPlan).
THEOREM TheMirrorRestsInSync ==
  ASSUME SyncAssumption, HandledInTurn, OneSubscription
  PROVE  SyncSpec => []RestsInSync
  <1>1. SyncInit => SyncInv /\ PlansOK
    BY SyncStarts
  <1>2. SyncInv /\ PlansOK /\ [SyncNext]_syncVars => SyncInv' /\ PlansOK'
    BY SyncStep
  <1>3. SyncInv /\ PlansOK => RestsInSync
    BY SyncRests
  <1> QED
    BY <1>1, <1>2, <1>3, PTL DEF SyncSpec

\* And then a subscription is canceled exactly when it is at Stripe, and its tenant has
\* the default plan, whatever its payments did on the way (handleSubscriptionDeleted,
\* handlePaymentFailed).
THEOREM CanceledAtStripeAndHere ==
  ASSUME SyncAssumption, HandledInTurn, OneSubscription
  PROVE  SyncSpec => []CanceledAtRest
  <1>1. SyncInit => SyncInv /\ PlansOK
    BY SyncStarts
  <1>2. SyncInv /\ PlansOK /\ [SyncNext]_syncVars => SyncInv' /\ PlansOK'
    BY SyncStep
  <1>3. SyncInv /\ PlansOK => CanceledAtRest
    BY SyncRests
  <1> QED
    BY <1>1, <1>2, <1>3, PTL DEF SyncSpec

(***************************************************************************)
(*                      The newest archives are kept                       *)
(***************************************************************************)

\* A list names only archives that were made.
Made(l) == \A i \in 1 .. Len(l) : l[i] \in 1 .. made

\* What a sweep has still to delete are sequences of archives beyond the newest ones.
Old(left) == left \in Seq(Nat) /\ \A i \in 1 .. Len(left) : left[i] <= made - KeepLast

ProcOK(me) ==
  /\ me.pc \in {"load", "upload", "persist"} => me.at \in 1 .. made
  /\ me.pc \in {"persist", "rewrite"} => me.list \in Seq(Nat) /\ Made(me.list)
  /\ me.pc \in {"unlink", "delete", "reload", "rewrite"} => Old(me.left) /\ me.left # << >>

BackupInv ==
  /\ made \in Nat
  /\ redis \in Seq(Nat) /\ Made(redis) /\ sidecar \in Seq(Nat) /\ Made(sidecar)
  /\ proc = [p \in Procs |-> proc[p]] /\ \A p \in Procs : ProcOK(proc[p])
  /\ NewestAreKept

LEMMA BackupStarts == BackupInit => BackupInv
  BY DEF BackupInit, BackupInv, Made, ProcOK, ProcIdle, NewestAreKept

\* What is made, and what is old, remains so.
LEMMA ProcLasts ==
  ASSUME NEW q, proc'[q] = proc[q], ProcOK(proc[q]),
         \A l : Made(l) => Made(l)', \A left : Old(left) => Old(left)', made' >= made, made \in Nat,
         made' \in Nat
  PROVE  ProcOK(proc[q])'
  <1>1. PICK me : me = proc[q]
    OBVIOUS
  <1>2. ProcOK(me)'
    BY <1>1 DEF ProcOK
  <1> QED
    BY <1>1, <1>2 DEF ProcOK

\* Steps of one process that make no archive and delete none that is to be kept.
LEMMA BackupKept ==
  ASSUME BackupInv, NEW p \in Procs, NEW me, Becomes(p, me), ProcOK(me), UNCHANGED made,
         redis' \in Seq(Nat), Made(redis'), sidecar' \in Seq(Nat), Made(sidecar'),
         \A a \in disk \ disk' : a <= made - KeepLast,
         KeepLast \in Nat
  PROVE  BackupInv'
  <1>1. proc' = [proc EXCEPT ![p] = me]
    BY DEF Becomes
  <1>2. proc' = [q \in Procs |-> proc'[q]] /\ \A q \in Procs : proc'[q] = IF q = p THEN me ELSE proc[q]
    BY <1>1 DEF BackupInv
  <1>3. ASSUME NEW q \in Procs PROVE ProcOK(proc[q])'
    BY <1>2 DEF BackupInv, ProcOK, Made, Old
  <1>4. NewestAreKept'
    BY DEF BackupInv, NewestAreKept
  <1> QED
    BY <1>2, <1>3, <1>4 DEF BackupInv, Made

LEMMA LoadedIsMade ==
  ASSUME BackupInv, NEW l, Load(l)
  PROVE  l \in Seq(Nat) /\ Made(l)
  <1>1. l = redis \/ l = sidecar \/ l = << >>
    BY DEF Load
  <1>2. << >> \in Seq(Nat) /\ Made(<< >>)
    BY DEF Made
  <1> QED
    BY <1>1, <1>2 DEF BackupInv

LEMMA PersistedIsMade ==
  ASSUME BackupInv, NEW l \in Seq(Nat), Made(l), Persist(l)
  PROVE  redis' \in Seq(Nat) /\ Made(redis') /\ sidecar' \in Seq(Nat) /\ Made(sidecar')
  BY DEF BackupInv, Persist

\* An archive with KeepLast newer ones in a list is not among the KeepLast newest made.
LEMMA PurgedIsOld ==
  ASSUME made \in Nat, KeepLast \in Nat, NEW l \in Seq(Nat), Made(l), NEW a \in Purged(l)
  PROVE  a \in Nat /\ a <= made - KeepLast
  <1> DEFINE newer == {b \in ToSet(l) : b > a}
  <1>1. PICK i \in 1 .. Len(l) : l[i] = a
    BY DEF Purged, ToSet
  <1>2. a \in 1 .. made
    BY <1>1 DEF Made
  <1>3. \A b \in ToSet(l) : b \in 1 .. made
    BY DEF ToSet, Made
  <1>4. newer \subseteq (a + 1) .. made
    BY <1>2, <1>3
  <1>5. IsFiniteSet((a + 1) .. made) /\ Cardinality((a + 1) .. made) <= made - a
    <2>1. PICK c \in Int : c = a + 1
      BY <1>2
    <2>2. made \in Int
      OBVIOUS
    <2>3. IsFiniteSet(c .. made) /\ Cardinality(c .. made) = IF c > made THEN 0 ELSE made - c + 1
      BY <2>2, FS_Interval
    <2> QED
      BY <1>2, <2>1, <2>3
  <1>6. Cardinality(newer) <= Cardinality((a + 1) .. made) /\ Cardinality(newer) \in Nat
        /\ Cardinality((a + 1) .. made) \in Nat
    BY <1>4, <1>5, FS_Subset, FS_CardinalityType
  <1>7. Cardinality(newer) >= KeepLast
    BY DEF Purged
  <1> QED
    BY <1>2, <1>5, <1>6, <1>7

LEMMA DeletesIsOK ==
  ASSUME NEW left, Old(left)
  PROVE  ProcOK(Deletes(left))
  BY DEF Deletes, ProcOK, ProcIdle

LEMMA BackupKeptByBackup ==
  ASSUME BackupAssumption, BackupInv, NEW p \in Procs,
         (\E sweep \in BOOLEAN : Begins(p, sweep)) \/ Due(p) \/ Dumps(p) \/ LoadsForSave(p)
           \/ SavesList(p) \/ Uploads(p) \/ Dies(p)
  PROVE  BackupInv'
  <1>0. KeepLast \in Nat \ {0} /\ Listed \in Nat \ {0} /\ ProcOK(proc[p]) /\ made \in Nat
        /\ redis \in Seq(Nat) /\ Made(redis) /\ sidecar \in Seq(Nat) /\ Made(sidecar)
    BY DEF BackupAssumption, BackupInv
  <1>1. ASSUME NEW sweep \in BOOLEAN, Begins(p, sweep) PROVE BackupInv'
    <2>1. PICK me : me = [pc |-> IF sweep THEN "due" ELSE "dump", sweep |-> sweep]
      OBVIOUS
    <2>2. ProcOK(me)
      BY <2>1 DEF ProcOK
    <2> QED
      BY <1>0, <1>1, <2>1, <2>2, BackupKept DEF Begins, files, lists
  <1>2. CASE Due(p)
    <2>1. PICK me : me \in {[pc |-> "dump", sweep |-> TRUE], ProcIdle} /\ Becomes(p, me)
      BY <1>2 DEF Due
    <2>2. ProcOK(me)
      BY <2>1 DEF ProcOK, ProcIdle
    <2> QED
      BY <1>0, <1>2, <2>1, <2>2, BackupKept DEF Due, files, lists
  <1>3. CASE Dumps(p)
    <2>1. PICK me : me = [pc |-> "load", sweep |-> proc[p].sweep, at |-> made + 1]
      OBVIOUS
    <2>2. /\ proc' = [proc EXCEPT ![p] = me] /\ made' = made + 1 /\ disk' = disk \cup {made + 1}
          /\ UNCHANGED <<redis, sidecar>>
      BY <1>3, <2>1 DEF Dumps, Becomes, lists
    <2>3. proc' = [q \in Procs |-> proc'[q]] /\ \A q \in Procs : proc'[q] = IF q = p THEN me ELSE proc[q]
      BY <2>2 DEF BackupInv
    <2>4. made' \in Nat /\ \A i \in 1 .. made : i \in 1 .. made'
      BY <1>0, <2>2
    <2>5. \A l : Made(l) => Made(l)'
      BY <2>4 DEF Made
    <2>6. \A left : Old(left) => Old(left)'
      BY <1>0, <2>2 DEF Old
    <2>7. ASSUME NEW q \in Procs PROVE ProcOK(proc[q])'
      <3>1. CASE q = p
        <4>1. proc'[q] = me /\ me.pc = "load" /\ me.at \in 1 .. made'
          BY <1>0, <2>1, <2>2, <2>3, <3>1
        <4> QED
          BY <4>1 DEF ProcOK
      <3>2. CASE q # p
        <4>1. proc'[q] = proc[q] /\ ProcOK(proc[q])
          BY <2>3, <3>2 DEF BackupInv
        <4> QED
          BY <1>0, <2>2, <2>4, <2>5, <2>6, <4>1, ProcLasts
      <3> QED
        BY <3>1, <3>2
    <2>8. NewestAreKept'
      <3>1. ASSUME NEW a \in 1 .. made', a > made' - KeepLast PROVE a \in disk'
        <4>1. CASE a = made + 1
          BY <2>2, <4>1
        <4>2. CASE a # made + 1
          <5>1. a \in 1 .. made /\ a > made - KeepLast
            BY <1>0, <2>2, <3>1, <4>2
          <5> QED
            BY <2>2, <5>1 DEF BackupInv, NewestAreKept
        <4> QED
          BY <4>1, <4>2
      <3> QED
        BY <3>1 DEF NewestAreKept
    <2>9. Made(redis)' /\ Made(sidecar)'
      BY <1>0, <2>2, <2>4 DEF Made
    <2> QED
      BY <1>0, <2>2, <2>3, <2>4, <2>7, <2>8, <2>9 DEF BackupInv
  <1>4. CASE LoadsForSave(p)
    <2>1. PICK l \in ArchiveLists :
            /\ Load(l) /\ proc[p].pc = "load"
            /\ Becomes(p, [pc |-> "persist", sweep |-> proc[p].sweep, at |-> proc[p].at, list |-> l])
      BY <1>4 DEF LoadsForSave
    <2>2. PICK me : me = [pc |-> "persist", sweep |-> proc[p].sweep, at |-> proc[p].at, list |-> l]
      OBVIOUS
    <2>3. l \in Seq(Nat) /\ Made(l)
      BY <2>1, LoadedIsMade
    <2>4. ProcOK(me)
      BY <1>0, <2>1, <2>2, <2>3 DEF ProcOK
    <2> QED
      BY <1>0, <1>4, <2>1, <2>2, <2>4, BackupKept DEF LoadsForSave, files, lists
  <1>5. CASE SavesList(p)
    <2>1. PICK l : l = <<proc[p].at>> \o proc[p].list
      OBVIOUS
    <2>2. PICK k : k = IF Len(l) > Listed THEN Listed ELSE Len(l)
      OBVIOUS
    <2>3. PICK saved : saved = SubSeq(l, 1, k)
      OBVIOUS
    <2>4. proc[p].pc = "persist" /\ proc[p].at \in 1 .. made /\ proc[p].list \in Seq(Nat) /\ Made(proc[p].list)
      BY <1>0, <1>5 DEF SavesList, ProcOK
    <2>5. l \in Seq(Nat) /\ Made(l)
      BY <1>0, <2>1, <2>4 DEF Made
    <2>6. saved \in Seq(Nat) /\ Made(saved)
      <3>1. k \in Nat /\ k <= Len(l) /\ Len(l) \in Nat
        BY <1>0, <2>2, <2>5
      <3>2. saved \in Seq(Nat) /\ Len(saved) = k /\ \A i \in 1 .. k : saved[i] = l[i]
        BY <2>3, <2>5, <3>1
      <3> QED
        <4>1. ASSUME NEW i \in 1 .. Len(saved) PROVE saved[i] \in 1 .. made
          <5>1. i \in 1 .. k /\ i \in 1 .. Len(l)
            BY <3>1, <3>2
          <5> QED
            BY <2>5, <3>2, <5>1 DEF Made
        <4> QED
          BY <3>2, <4>1 DEF Made
    <2>7. Persist(saved)
      BY <1>5, <2>1, <2>2, <2>3 DEF SavesList
    <2>8. PICK me : Becomes(p, me) /\ me = IF S3 THEN [pc |-> "upload", sweep |-> proc[p].sweep, at |-> proc[p].at]
                                          ELSE IF proc[p].sweep THEN [pc |-> "plan"] ELSE ProcIdle
      BY <1>5 DEF SavesList
    <2>9. ProcOK(me)
      BY <2>4, <2>8 DEF ProcOK, ProcIdle
    <2>10. /\ redis' \in Seq(Nat) /\ Made(redis') /\ sidecar' \in Seq(Nat) /\ Made(sidecar')
           /\ UNCHANGED <<made, disk>>
      BY <1>5, <2>6, <2>7, PersistedIsMade DEF SavesList, files
    <2> QED
      BY <1>0, <2>8, <2>9, <2>10, BackupKept
  <1>6. CASE Uploads(p)
    <2>1. PICK me \in {ProcIdle, [pc |-> "plan"]} : Becomes(p, me)
      BY <1>6 DEF Uploads
    <2>2. ProcOK(me)
      BY <2>1 DEF ProcOK, ProcIdle
    <2> QED
      BY <1>0, <1>6, <2>1, <2>2, BackupKept DEF Uploads, lists
  <1>7. CASE Dies(p)
    <2>1. ProcOK(ProcIdle)
      BY DEF ProcOK, ProcIdle
    <2> QED
      BY <1>0, <1>7, <2>1, BackupKept DEF Dies, files, lists
  <1> QED
    BY <1>1, <1>2, <1>3, <1>4, <1>5, <1>6, <1>7

LEMMA BackupKeptBySweep ==
  ASSUME BackupAssumption, BackupInv, NEW p \in Procs,
         PlansSweep(p) \/ Unlinks(p) \/ DeletesInS3(p) \/ LoadsForDelete(p) \/ Unlists(p)
  PROVE  BackupInv'
  <1>0. KeepLast \in Nat \ {0} /\ ProcOK(proc[p]) /\ made \in Nat
        /\ redis \in Seq(Nat) /\ Made(redis) /\ sidecar \in Seq(Nat) /\ Made(sidecar)
    BY DEF BackupAssumption, BackupInv
  <1>1. CASE PlansSweep(p)
    <2>1. PICK l \in ArchiveLists : Load(l) /\ \E left \in NewestFirst(Purged(l)) : Becomes(p, Deletes(left))
      BY <1>1 DEF PlansSweep
    <2>2. PICK left \in NewestFirst(Purged(l)) : Becomes(p, Deletes(left))
      BY <2>1
    <2>3. l \in Seq(Nat) /\ Made(l)
      BY <2>1, LoadedIsMade
    <2>4. \A a \in Purged(l) : a \in Nat /\ a <= made - KeepLast
      BY <1>0, <2>3, PurgedIsOld
    <2>5. IsFiniteSet(Purged(l))
      <3>1. Purged(l) \subseteq 1 .. made
        BY <2>3 DEF Purged, ToSet, Made
      <3>2. IsFiniteSet(1 .. made)
        BY <1>0, FS_Interval
      <3> QED
        BY <3>1, <3>2, FS_Subset
    <2>6. Cardinality(Purged(l)) \in Nat
      BY <2>5, FS_CardinalityType
    <2>7. left \in [1 .. Cardinality(Purged(l)) -> Purged(l)]
      BY <2>2 DEF NewestFirst
    <2>8. left \in Seq(Nat) /\ \A i \in 1 .. Len(left) : left[i] \in Purged(l)
      <3>1. PICK n \in Nat : n = Cardinality(Purged(l))
        BY <2>6
      <3>2. left \in [1 .. n -> Nat] /\ \A i \in 1 .. n : left[i] \in Purged(l)
        BY <2>4, <2>7, <3>1
      <3> QED
        BY <3>2
    <2>9. Old(left)
      BY <2>4, <2>8 DEF Old
    <2>10. PICK me : me = Deletes(left)
      OBVIOUS
    <2>11. ProcOK(me)
      BY <2>9, <2>10, DeletesIsOK
    <2> QED
      BY <1>0, <1>1, <2>2, <2>10, <2>11, BackupKept DEF PlansSweep, files, lists
  <1>2. CASE Unlinks(p)
    <2>1. PICK me : me = [pc |-> IF S3 THEN "delete" ELSE "reload", left |-> proc[p].left]
      OBVIOUS
    <2>2. proc[p].pc = "unlink" /\ Old(proc[p].left) /\ proc[p].left # << >>
      BY <1>0, <1>2 DEF Unlinks, ProcOK
    <2>3. ProcOK(me)
      BY <2>1, <2>2 DEF ProcOK
    <2>4. Head(proc[p].left) <= made - KeepLast
      BY <2>2 DEF Old
    <2>5. \A a \in disk \ disk' : a <= made - KeepLast
      BY <1>2, <2>4 DEF Unlinks
    <2> QED
      BY <1>0, <1>2, <2>1, <2>3, <2>5, BackupKept DEF Unlinks, lists
  <1>3. CASE DeletesInS3(p)
    <2>1. PICK me : me = [pc |-> "reload", left |-> proc[p].left]
      OBVIOUS
    <2>2. ProcOK(me)
      BY <1>0, <1>3, <2>1 DEF DeletesInS3, ProcOK
    <2> QED
      BY <1>0, <1>3, <2>1, <2>2, BackupKept DEF DeletesInS3, lists
  <1>4. CASE LoadsForDelete(p)
    <2>1. PICK l \in ArchiveLists :
            Load(l) /\ Becomes(p, [pc |-> "rewrite", left |-> proc[p].left, list |-> l])
      BY <1>4 DEF LoadsForDelete
    <2>2. PICK me : me = [pc |-> "rewrite", left |-> proc[p].left, list |-> l]
      OBVIOUS
    <2>3. l \in Seq(Nat) /\ Made(l)
      BY <2>1, LoadedIsMade
    <2>4. ProcOK(me)
      BY <1>0, <1>4, <2>2, <2>3 DEF LoadsForDelete, ProcOK
    <2> QED
      BY <1>0, <1>4, <2>1, <2>2, <2>4, BackupKept DEF LoadsForDelete, files, lists
  <1>5. CASE Unlists(p)
    <2>1. /\ proc[p].list \in Seq(Nat) /\ Made(proc[p].list)
          /\ Old(proc[p].left) /\ proc[p].left # << >>
      BY <1>0, <1>5 DEF Unlists, ProcOK
    <2>2. PICK l : Persist(l) /\ l \in Seq(Nat) /\ Made(l)
      <3>1. CASE Persist(proc[p].list)
        BY <2>1, <3>1
      <3>2. ASSUME NEW i \in DOMAIN proc[p].list, Persist(RemoveAt(proc[p].list, i))
            PROVE  \E l : Persist(l) /\ l \in Seq(Nat) /\ Made(l)
        <4>1. PICK l : l = RemoveAt(proc[p].list, i)
          OBVIOUS
        <4>2. PICK s : s = proc[p].list
          OBVIOUS
        <4>3. s \in Seq(Nat) /\ Made(s) /\ i \in 1 .. Len(s) /\ Len(s) \in Nat
          BY <2>1, <3>2, <4>2
        <4>4. l = RemoveAt(s, i)
          BY <4>1, <4>2
        <4>5. /\ l \in Seq(Nat) /\ Len(l) = Len(s) - 1
              /\ \A j \in 1 .. Len(s) - 1 : l[j] = IF j < i THEN s[j] ELSE s[j + 1]
          <5>1. PICK S : S = Nat
            OBVIOUS
          <5>2. PICK k \in 1 .. Len(s) : k = i
            BY <4>3
          <5>3. s \in Seq(S) /\ l = RemoveAt(s, k)
            BY <4>3, <4>4, <5>1, <5>2
          <5>4. /\ l \in Seq(S) /\ Len(l) = Len(s) - 1
                /\ \A j \in 1 .. Len(s) - 1 : l[j] = IF j < k THEN s[j] ELSE s[j + 1]
            BY <5>3, RemovedAt
          <5> QED
            BY <5>1, <5>2, <5>4
        <4>6. Made(l)
          <5>1. ASSUME NEW j \in 1 .. Len(l) PROVE l[j] \in 1 .. made
            <6>1. j \in 1 .. Len(s) - 1 /\ j \in 1 .. Len(s) /\ j + 1 \in 1 .. Len(s)
              BY <4>3, <4>5, <5>1
            <6>2. CASE j < i
              BY <4>3, <4>5, <6>1, <6>2 DEF Made
            <6>3. CASE ~(j < i)
              BY <4>3, <4>5, <6>1, <6>3 DEF Made
            <6> QED
              BY <6>2, <6>3
          <5> QED
            BY <5>1 DEF Made
        <4> QED
          BY <3>2, <4>1, <4>5, <4>6
      <3> QED
        BY <1>5, <3>1, <3>2 DEF Unlists
    <2>3. Old(Tail(proc[p].left))
      BY <2>1 DEF Old
    <2>4. PICK me : me = Deletes(Tail(proc[p].left))
      OBVIOUS
    <2>5. ProcOK(me)
      BY <2>3, <2>4, DeletesIsOK
    <2>6. redis' \in Seq(Nat) /\ Made(redis') /\ sidecar' \in Seq(Nat) /\ Made(sidecar')
      BY <2>2, PersistedIsMade
    <2> QED
      BY <1>0, <1>5, <2>4, <2>5, <2>6, BackupKept DEF Unlists, files
  <1> QED
    BY <1>1, <1>2, <1>3, <1>4, <1>5

LEMMA BackupStep == BackupAssumption /\ BackupInv /\ [BackupNext]_backupVars => BackupInv'
  <1> SUFFICES ASSUME BackupAssumption, BackupInv, [BackupNext]_backupVars PROVE BackupInv'
    OBVIOUS
  <1>1. CASE RedisExpires
    BY <1>1 DEF RedisExpires, files, BackupInv, Made, ProcOK, Old, NewestAreKept
  <1>2. ASSUME NEW p \in Procs, (\E a \in Archives : BeginsRestore(p, a)) \/ Fetches(p) \/ Written(p) \/ Restores(p)
        PROVE  BackupInv'
    <2>1. PICK me : Becomes(p, me) /\ me.pc \in {"idle", "fetch", "writing", "restore"}
      <3>1. CASE \E a \in Archives : BeginsRestore(p, a)
        BY <3>1 DEF BeginsRestore
      <3>2. CASE Fetches(p)
        BY <3>2 DEF Fetches, ProcIdle
      <3>3. CASE Written(p)
        BY <3>3 DEF Written
      <3>4. CASE Restores(p)
        BY <3>4 DEF Restores, ProcIdle
      <3> QED
        BY <1>2, <3>1, <3>2, <3>3, <3>4
    <2>2. ProcOK(me)
      BY <2>1 DEF ProcOK
    <2>3. UNCHANGED <<made, redis, sidecar>> /\ disk \subseteq disk'
      BY <1>2 DEF BeginsRestore, Fetches, Written, Restores, files, lists
    <2>4. KeepLast \in Nat /\ redis \in Seq(Nat) /\ Made(redis) /\ sidecar \in Seq(Nat) /\ Made(sidecar)
      BY DEF BackupAssumption, BackupInv
    <2> QED
      BY <2>1, <2>2, <2>3, <2>4, BackupKept
  <1>3. CASE UNCHANGED backupVars
    BY <1>3 DEF backupVars, files, lists, BackupInv, Made, ProcOK, Old, NewestAreKept
  <1> QED
    BY <1>1, <1>2, <1>3, BackupKeptByBackup, BackupKeptBySweep DEF BackupNext

\* Whatever backups, sweeps and restores of several processes cross, whatever of the two
\* lists is old, lost or fails to be written, the keepLast newest archives stay on disk
\* (backup_service.ts, backup_retention_service.ts).
THEOREM NewestArchivesStay == ASSUME BackupAssumption PROVE BackupSpec => []NewestAreKept
  <1>1. BackupInit => BackupInv
    BY BackupStarts
  <1>2. BackupInv /\ [BackupNext]_backupVars => BackupInv'
    BY BackupStep
  <1>3. BackupInv => NewestAreKept
    BY DEF BackupInv
  <1> QED
    BY <1>1, <1>2, <1>3, PTL DEF BackupSpec

(***************************************************************************)
(*                        What the doctor reports                          *)
(***************************************************************************)

\* The status a row was listed with when a problem is about it.
RowFits(code, row) ==
  /\ code = "tenant_failed" => row = "failed"
  /\ code = "provisioning_stalled" => row = "provisioning"
  /\ code = "schema_missing" => row # "deleted"
  /\ code = "migrations_never_ran" => row = "active"
  /\ code \in {"queue_failed_jobs", "queue_delayed_backlog", "queue_stalled"} =>
       row \in {"active", "suspended"}
  /\ code \in {"backup_never_taken", "backup_stale"} => row = "active"

\* The checks that look at one tenant or replica after the other.
Itemized == PerTenant \cup {"replica_lag"}

\* The run has the check behind it, or has looked at where p is.
Behind(me, p) ==
  \A k \in me.at .. Len(Checks) : Checks[k] = CheckOf(p.code) =>
    k = me.at /\ Checks[k] \in Itemized /\ p.on \notin me.todo

Asked(me, p) == CheckOf(p.code) \in me.checks /\ p.on \notin DoctorTenants \ me.scope
Told(me, p) == p \in me.issues \/ Blind(me, CheckOf(p.code), p.on)

\* What has been wrong since the list is so of the tenants as they are listed, and what of
\* it the run has behind it is told.
TellsWhatStays(me, wrong) ==
  \A p \in wrong : /\ p.on \in me.scope => RowFits(p.code, me.listed[p.on])
                   /\ Asked(me, p) /\ Behind(me, p) => Told(me, p)
RunOK(me, wrong) ==
  /\ me.pc \in {"idle", "list"} => wrong = {}
  /\ me.pc \notin {"idle", "list"} => DOMAIN me.listed = me.scope /\ TellsWhatStays(me, wrong)
  /\ me.pc \in {"check", "probe"} => me.at <= Len(Checks)
  /\ me.pc = "probe" => Checks[me.at] = "replica_lag"
  /\ me.pc \in {"end", "over"} => me.at = Len(Checks) + 1
  /\ me.pc = "over" /\ me.mode # "watch" => me.exitCode = ExitCode(me.issues)

DoctorInv ==
  /\ DoctorTypeOK
  /\ \A r \in Checkups : steady[r] \subseteq Problems /\ RunOK(checkup[r], steady[r])

LEMMA TenChecks == Len(Checks) = 10
  BY DEF Checks

LEMMA ChecksCover == \A code : \E j \in 1 .. Len(Checks) : Checks[j] = CheckOf(code)
  <1>1. Len(Checks) = 10
    BY TenChecks
  <1>2. ASSUME NEW code
        PROVE  CheckOf(code) \in {"failed_tenants", "provisioning_stalled", "schema_drift",
                 "migration_state", "circuit_breakers", "queue_health", "backup_recency",
                 "replica_lag", "connection_pool", "long_running_queries"}
    BY DEF CheckOf
  <1>3. /\ Checks[1] = "failed_tenants" /\ Checks[2] = "provisioning_stalled"
        /\ Checks[3] = "schema_drift" /\ Checks[4] = "migration_state"
        /\ Checks[5] = "circuit_breakers" /\ Checks[6] = "queue_health"
        /\ Checks[7] = "backup_recency" /\ Checks[8] = "replica_lag"
        /\ Checks[9] = "connection_pool" /\ Checks[10] = "long_running_queries"
    BY DEF Checks
  <1> QED
    BY <1>1, <1>2, <1>3

\* The forms a problem has.
OfTenant(p, t) ==
  \/ p = Issue("tenant_failed", t) /\ rowStatus[t] = "failed"
  \/ p = Issue("provisioning_stalled", t) /\ rowStatus[t] = "provisioning" /\ Has("old", t)
  \/ p = Issue("schema_missing", t) /\ rowStatus[t] # "deleted" /\ schema[t] = "none"
  \/ p = Issue("migrations_never_ran", t) /\ rowStatus[t] = "active" /\ schema[t] # "migrated"
  \/ /\ rowStatus[t] \in {"active", "suspended"}
     /\ \/ p = Issue("queue_failed_jobs", t) /\ Has("jobs_failed", t)
        \/ p = Issue("queue_delayed_backlog", t) /\ Has("jobs_delayed", t)
        \/ p = Issue("queue_stalled", t) /\ Has("jobs_stalled", t)
  \/ /\ rowStatus[t] = "active"
     /\ \/ p = Issue("backup_never_taken", t) /\ Has("no_backup", t)
        \/ p = Issue("backup_stale", t) /\ Has("old_backup", t) /\ ~Has("no_backup", t)

LEMMA ProblemForms ==
  ASSUME NEW p \in Problems
  PROVE  \/ \E t \in DoctorTenants : OfTenant(p, t)
         \/ p \in OpenCircuits /\ \E t \in DoctorTenants : p = Issue("circuit_open", t)
         \/ \E h \in Replicas : p \in ReplicaLag(h)
         \/ /\ p \in ConnectionPool
            /\ \E t \in DoctorTenants : p \in {Issue("pool_saturated", t),
                 Issue("pool_near_saturation", t), Issue("pool_pending_acquires", t)}
         \/ /\ p \in LongRunningQueries
            /\ p \in {Issue("long_running_query", "database"),
                      Issue("long_running_query_critical", "database")}
  <1>1. CASE p \in OpenCircuits
    BY <1>1 DEF OpenCircuits, When
  <1>2. CASE p \in ConnectionPool
    BY <1>2 DEF ConnectionPool, When
  <1>3. CASE p \in LongRunningQueries
    BY <1>3 DEF LongRunningQueries, When
  <1>4. CASE \E h \in Replicas : p \in ReplicaLag(h)
    BY <1>4
  <1>5. ASSUME NEW t \in DoctorTenants,
               \/ p \in FailedTenant(t, rowStatus[t]) \/ p \in Stalled(t, rowStatus[t])
               \/ p \in MissingSchema(t, rowStatus[t]) \/ p \in MigrationState(t, rowStatus[t])
               \/ p \in QueueHealth(t, rowStatus[t]) \/ p \in BackupRecency(t, rowStatus[t])
        PROVE  OfTenant(p, t)
    BY <1>5 DEF OfTenant, FailedTenant, Stalled, MissingSchema, MigrationState, QueueHealth,
                BackupRecency, When
  <1>6. \/ p \in OpenCircuits \/ p \in ConnectionPool \/ p \in LongRunningQueries
        \/ \E h \in Replicas : p \in ReplicaLag(h)
        \/ \E t \in DoctorTenants :
             \/ p \in FailedTenant(t, rowStatus[t]) \/ p \in Stalled(t, rowStatus[t])
             \/ p \in MissingSchema(t, rowStatus[t]) \/ p \in MigrationState(t, rowStatus[t])
             \/ p \in QueueHealth(t, rowStatus[t]) \/ p \in BackupRecency(t, rowStatus[t])
    <2>1. \/ p \in OpenCircuits \/ p \in ConnectionPool \/ p \in LongRunningQueries
          \/ \E h \in Replicas : p \in ReplicaLag(h)
          \/ \E t \in DoctorTenants : p \in TenantProblems(t)
      BY DEF Problems
    <2> QED
      BY <2>1 DEF TenantProblems
  <1> QED
    BY <1>1, <1>2, <1>3, <1>4, <1>5, <1>6

LEMMA LagForms ==
  ASSUME NEW h, NEW p \in ReplicaLag(h)
  PROVE  /\ p.on = h /\ p = Issue(p.code, h)
         /\ p.code \in {"replica_unreachable", "replica_not_in_recovery", "replica_lag_critical",
                        "replica_lag_high"}
  BY DEF ReplicaLag, When, Issue

\* A problem fits the row as it is now.
LEMMA RowsFit == \A p \in Problems : p.on \in DoctorTenants => RowFits(p.code, rowStatus[p.on])
  <1> SUFFICES ASSUME NEW p \in Problems, p.on \in DoctorTenants PROVE RowFits(p.code, rowStatus[p.on])
    OBVIOUS
  <1>1. CASE \E t \in DoctorTenants : OfTenant(p, t)
    BY <1>1 DEF OfTenant, Issue, RowFits
  <1>2. CASE \E h \in Replicas : p \in ReplicaLag(h)
    BY <1>2, LagForms DEF RowFits
  <1>3. CASE ~(\E t \in DoctorTenants : OfTenant(p, t)) /\ ~(\E h \in Replicas : p \in ReplicaLag(h))
    BY <1>3, ProblemForms DEF Issue, RowFits
  <1> QED
    BY <1>1, <1>2, <1>3

LEMMA IssueTyped ==
  ASSUME NEW code \in Codes, NEW on \in Places
  PROVE  Issue(code, on) \in [code : Codes, on : Places]
  BY DEF Issue

LEMMA ProblemsTyped == Problems \subseteq [code : Codes, on : Places]
  <1> SUFFICES ASSUME NEW p \in Problems PROVE p \in [code : Codes, on : Places]
    OBVIOUS
  <1>1. ASSUME NEW t \in DoctorTenants, OfTenant(p, t)
        PROVE  \E code \in Codes : p = Issue(code, t)
    BY <1>1 DEF OfTenant, Codes, ErrorCodes, WarnCodes
  <1>2. ASSUME NEW h \in Replicas, p \in ReplicaLag(h)
        PROVE  \E code \in Codes : p = Issue(code, h)
    BY <1>2, LagForms DEF Codes, ErrorCodes, WarnCodes
  <1>3. \E code \in Codes, on \in Places : p = Issue(code, on)
    BY <1>1, <1>2, ProblemForms DEF Places, Codes, ErrorCodes, WarnCodes
  <1> QED
    BY <1>3, IssueTyped

\* A check that gets to it finds a problem that is still there, of a tenant whose listed row
\* it fits.
LEMMA CheckFinds ==
  ASSUME NEW p \in Problems, NEW listed, p.on \notin DoctorTenants \ DOMAIN listed,
         DOMAIN listed \subseteq DoctorTenants,
         p.on \in DOMAIN listed => RowFits(p.code, listed[p.on])
  PROVE  LET c == CheckOf(p.code)
         IN  /\ c \in PerTenant => p.on \in DoctorTenants /\ p \in FoundAt(c, p.on, listed[p.on])
             /\ c = "replica_lag" => p.on \in Replicas /\ p \in ReplicaLag(p.on)
             /\ c \notin Itemized => p \in FoundByAll(c, listed)
             /\ c = "long_running_queries" => p.on = "database"
  <1>1. ASSUME NEW t \in DoctorTenants, OfTenant(p, t) PROVE
             /\ CheckOf(p.code) \in PerTenant =>
                  p.on \in DoctorTenants /\ p \in FoundAt(CheckOf(p.code), p.on, listed[p.on])
             /\ CheckOf(p.code) \notin Itemized => p \in FoundByAll(CheckOf(p.code), listed)
             /\ CheckOf(p.code) \notin {"replica_lag", "long_running_queries"}
    <2>1. p.on = t /\ t \in DOMAIN listed /\ RowFits(p.code, listed[t])
      BY <1>1 DEF OfTenant, Issue
    <2>2. CASE p = Issue("tenant_failed", t)
      <3>1. CheckOf(p.code) = "failed_tenants" /\ listed[t] = "failed"
        BY <2>1, <2>2 DEF CheckOf, Issue, RowFits
      <3> QED
        BY <2>1, <2>2, <3>1 DEF FoundByAll, FailedTenant, When, Itemized, PerTenant
    <2>3. CASE p = Issue("provisioning_stalled", t) /\ Has("old", t)
      <3>1. CheckOf(p.code) = "provisioning_stalled" /\ listed[t] = "provisioning"
        BY <2>1, <2>3 DEF CheckOf, Issue, RowFits
      <3> QED
        BY <2>1, <2>3, <3>1 DEF FoundByAll, Stalled, When, Itemized, PerTenant
    <2>4. CASE p = Issue("schema_missing", t) /\ schema[t] = "none"
      <3>1. CheckOf(p.code) = "schema_drift" /\ listed[t] # "deleted"
        BY <2>1, <2>4 DEF CheckOf, Issue, RowFits
      <3> QED
        BY <2>1, <2>4, <3>1 DEF FoundByAll, MissingSchema, When, Itemized, PerTenant
    <2>5. CASE p = Issue("migrations_never_ran", t) /\ schema[t] # "migrated"
      <3>1. CheckOf(p.code) = "migration_state" /\ listed[t] = "active"
        BY <2>1, <2>5 DEF CheckOf, Issue, RowFits
      <3> QED
        BY <2>1, <2>5, <3>1 DEF FoundAt, MigrationState, When, Itemized, PerTenant
    <2>6. CASE \/ p = Issue("queue_failed_jobs", t) /\ Has("jobs_failed", t)
               \/ p = Issue("queue_delayed_backlog", t) /\ Has("jobs_delayed", t)
               \/ p = Issue("queue_stalled", t) /\ Has("jobs_stalled", t)
      <3>1. CheckOf(p.code) = "queue_health" /\ listed[t] \in {"active", "suspended"}
        BY <2>1, <2>6 DEF CheckOf, Issue, RowFits
      <3> QED
        BY <2>1, <2>6, <3>1 DEF FoundAt, QueueHealth, When, Itemized, PerTenant
    <2>7. CASE \/ p = Issue("backup_never_taken", t) /\ Has("no_backup", t)
               \/ p = Issue("backup_stale", t) /\ Has("old_backup", t) /\ ~Has("no_backup", t)
      <3>1. CheckOf(p.code) = "backup_recency" /\ listed[t] = "active"
        BY <2>1, <2>7 DEF CheckOf, Issue, RowFits
      <3> QED
        BY <2>1, <2>7, <3>1 DEF FoundAt, BackupRecency, When, Itemized, PerTenant
    <2> QED
      BY <1>1, <2>2, <2>3, <2>4, <2>5, <2>6, <2>7 DEF OfTenant
  <1>2. ASSUME NEW h \in Replicas, p \in ReplicaLag(h)
        PROVE  CheckOf(p.code) = "replica_lag" /\ p.on = h
    BY <1>2, LagForms DEF CheckOf
  <1>3. CASE p \in OpenCircuits /\ \E t \in DoctorTenants : p = Issue("circuit_open", t)
    <2>1. CheckOf(p.code) = "circuit_breakers"
      BY <1>3 DEF CheckOf, Issue
    <2> QED
      BY <1>3, <2>1 DEF FoundByAll, Itemized, PerTenant
  <1>4. CASE /\ p \in ConnectionPool
             /\ \E t \in DoctorTenants : p \in {Issue("pool_saturated", t),
                  Issue("pool_near_saturation", t), Issue("pool_pending_acquires", t)}
    <2>1. CheckOf(p.code) = "connection_pool"
      BY <1>4 DEF CheckOf, Issue
    <2> QED
      BY <1>4, <2>1 DEF FoundByAll, Itemized, PerTenant
  <1>5. CASE /\ p \in LongRunningQueries
             /\ p \in {Issue("long_running_query", "database"),
                       Issue("long_running_query_critical", "database")}
    <2>1. CheckOf(p.code) = "long_running_queries" /\ p.on = "database"
      BY <1>5 DEF CheckOf, Issue
    <2> QED
      BY <1>5, <2>1 DEF FoundByAll, Itemized, PerTenant
  <1>6. "replica_lag" \notin PerTenant
    BY DEF PerTenant
  <1>7. CASE \E h \in Replicas : p \in ReplicaLag(h)
    BY <1>2, <1>6, <1>7 DEF Itemized
  <1> QED
    BY <1>1, <1>3, <1>4, <1>5, <1>7, ProblemForms

LEMMA FoundTyped ==
  /\ \A t \in DoctorTenants, c \in PerTenant : \A row :
       FoundAt(c, t, row) \subseteq [code : Codes, on : Places]
  /\ \A h \in Replicas : ReplicaLag(h) \subseteq [code : Codes, on : Places]
  /\ \A c \in {"failed_tenants", "provisioning_stalled", "schema_drift", "circuit_breakers",
               "connection_pool", "long_running_queries"} : \A listed :
       DOMAIN listed \subseteq DoctorTenants => FoundByAll(c, listed) \subseteq [code : Codes, on : Places]
  <1>1. ASSUME NEW t \in DoctorTenants, NEW row, NEW c \in PerTenant, NEW p \in FoundAt(c, t, row)
        PROVE  \E code \in Codes : p = Issue(code, t)
    BY <1>1 DEF FoundAt, PerTenant, MigrationState, QueueHealth, BackupRecency, When, Codes, WarnCodes,
                ErrorCodes
  <1>2. ASSUME NEW h \in Replicas, NEW p \in ReplicaLag(h)
        PROVE  \E code \in Codes : p = Issue(code, h)
    BY <1>2, LagForms DEF Codes, ErrorCodes, WarnCodes
  <1>3. ASSUME NEW listed, DOMAIN listed \subseteq DoctorTenants,
               NEW c \in {"failed_tenants", "provisioning_stalled", "schema_drift", "circuit_breakers",
                          "connection_pool", "long_running_queries"},
               NEW p \in FoundByAll(c, listed)
        PROVE  \E code \in Codes, on \in Places : p = Issue(code, on)
    <2>1. CASE c = "failed_tenants"
      BY <1>3, <2>1 DEF FoundByAll, FailedTenant, When, Codes, ErrorCodes, Places
    <2>2. CASE c = "provisioning_stalled"
      BY <1>3, <2>2 DEF FoundByAll, Stalled, When, Codes, ErrorCodes, Places
    <2>3. CASE c = "schema_drift"
      BY <1>3, <2>3 DEF FoundByAll, MissingSchema, OrphanSchemas, When, Codes, WarnCodes, ErrorCodes, Places
    <2>4. CASE c = "circuit_breakers"
      BY <1>3, <2>4 DEF FoundByAll, OpenCircuits, When, Codes, ErrorCodes, Places
    <2>5. CASE c = "connection_pool"
      BY <1>3, <2>5 DEF FoundByAll, ConnectionPool, When, Codes, WarnCodes, ErrorCodes, Places
    <2>6. CASE c = "long_running_queries"
      BY <1>3, <2>6 DEF FoundByAll, LongRunningQueries, When, Codes, WarnCodes, ErrorCodes, Places
    <2> QED
      BY <2>1, <2>2, <2>3, <2>4, <2>5, <2>6
  <1> QED
    BY <1>1, <1>2, <1>3, IssueTyped DEF Places

\* A check that was asked for has the place of every problem in its scope to look at.
LEMMA HasToLook ==
  ASSUME NEW r, NEW p \in Problems, Asked(checkup[r], p), NEW j \in 1 .. Len(Checks),
         Checks[j] = CheckOf(p.code)
  PROVE  /\ Todo(r, j) # {}
         /\ Checks[j] \in Itemized => p.on \in Todo(r, j)
  <1>1. /\ Checks[j] \in PerTenant => Todo(r, j) = checkup[r].scope
        /\ Checks[j] = "replica_lag" => Todo(r, j) = Replicas
        /\ Checks[j] \notin Itemized => Todo(r, j) = {"all"}
    BY TenChecks DEF Todo, Asked, PerTenant, Itemized
  <1>2. "replica_lag" \notin PerTenant
    BY DEF PerTenant
  <1>3. CASE CheckOf(p.code) \in PerTenant
    <2>1. p.on \in DoctorTenants
      <3>1. PICK listed : listed = [t \in DoctorTenants |-> rowStatus[t]]
        OBVIOUS
      <3> QED
        BY <1>3, <3>1, CheckFinds, RowsFit
    <2> QED
      BY <1>1, <1>3, <2>1 DEF Asked
  <1>4. CASE CheckOf(p.code) = "replica_lag"
    <2>1. p.on \in Replicas
      <3>1. PICK listed : listed = [t \in DoctorTenants |-> rowStatus[t]]
        OBVIOUS
      <3> QED
        BY <1>4, <3>1, CheckFinds, RowsFit
    <2> QED
      BY <1>1, <1>2, <1>4, <2>1
  <1>5. CASE CheckOf(p.code) \notin Itemized
    BY <1>1, <1>5 DEF Itemized
  <1> QED
    BY <1>3, <1>4, <1>5 DEF Itemized

\* A run goes on from the n-th check: it has nothing new behind it but checks that were not
\* asked for or have nothing to look at.
LEMMA GoesOnTells ==
  ASSUME NEW r \in Checkups, checkup[r] \in Checkup, NEW new \in Checkup, NEW n \in 1 .. Len(Checks) + 1,
         new.checks = checkup[r].checks, new.scope = checkup[r].scope,
         DOMAIN new.listed = new.scope, NEW wrong, wrong \subseteq Problems,
         \A p \in wrong : /\ p.on \in new.scope => RowFits(p.code, new.listed[p.on])
                          /\ Asked(new, p) =>
                               \/ Told(new, p)
                               \/ \E j \in n .. Len(Checks) : Checks[j] = CheckOf(p.code),
         NEW me \in GoesOn(r, new, n)
  PROVE  me \in Checkup /\ RunOK(me, wrong) /\ me.pc \in {"check", "end"}
  <1>1. PICK k \in NextCheck(r, n) : me = Begun(r, new, k)
    BY DEF GoesOn
  <1>2. k \in n .. Len(Checks) + 1 /\ \A j \in n .. k - 1 : Todo(r, j) = {}
    BY <1>1 DEF NextCheck
  <1>3. /\ me.pc = IF k > Len(Checks) THEN "end" ELSE "check"
        /\ me.at = k /\ me.todo = Todo(r, k) /\ me.scope = new.scope /\ me.checks = new.checks
        /\ me.listed = new.listed /\ me.issues = new.issues /\ me.threw = new.threw
        /\ me.mode = new.mode /\ me.fix = new.fix /\ me.host = new.host /\ me.cut = new.cut
        /\ me.exitCode = new.exitCode
    BY <1>1 DEF Begun, Checkup
  <1>4. me \in Checkup
    <2>1. Todo(r, k) \subseteq DoctorTenants \cup Replicas \cup {"all"}
      BY DEF Todo, Checkup
    <2>2. k \in 1 .. Len(Checks) + 1
      BY <1>2, TenChecks
    <2>3. (IF k > Len(Checks) THEN "end" ELSE "check") \in {"check", "end"}
      OBVIOUS
    <2> QED
      BY <1>1, <2>1, <2>2, <2>3 DEF Begun, Checkup
  <1>5. ASSUME NEW p \in wrong, Asked(me, p), Behind(me, p) PROVE Told(me, p)
    <2>1. Asked(new, p) /\ Asked(checkup[r], p)
      BY <1>3, <1>5 DEF Asked
    <2>2. CASE Told(new, p)
      BY <1>3, <2>2 DEF Told, Blind
    <2>3. ASSUME NEW j \in n .. Len(Checks), Checks[j] = CheckOf(p.code) PROVE FALSE
      <3>1. Todo(r, j) # {} /\ (Checks[j] \in Itemized => p.on \in Todo(r, j))
        BY <1>5, <2>1, <2>3, HasToLook, TenChecks
      <3>2. j >= k
        BY <1>2, <3>1, TenChecks
      <3>3. j = k /\ Checks[j] \in Itemized /\ p.on \notin Todo(r, k)
        BY <1>2, <1>3, <1>5, <2>3, <3>2, TenChecks DEF Behind
      <3> QED
        BY <3>1, <3>3
    <2> QED
      BY <1>5, <2>1, <2>2, <2>3
  <1>6. TellsWhatStays(me, wrong)
    BY <1>3, <1>5 DEF TellsWhatStays
  <1>7. /\ me.pc \in {"check", "end"} /\ (me.pc = "check" => me.at <= Len(Checks))
        /\ (me.pc = "end" => me.at = Len(Checks) + 1)
    BY <1>2, <1>3, TenChecks
  <1> QED
    BY <1>3, <1>4, <1>6, <1>7 DEF RunOK

\* A look at x that tells of every problem of its check there.
LEMMA FoundTells ==
  ASSUME NEW r \in Checkups, checkup[r] \in Checkup, checkup[r].pc \in {"check", "probe"},
         RunOK(checkup[r], steady[r]), NEW wrong, wrong \subseteq steady[r], wrong \subseteq Problems,
         NEW x, NEW issues, issues \subseteq [code : Codes, on : Places],
         \A p \in wrong : \A y :
                             /\ Asked(checkup[r], p) /\ CheckOf(p.code) = Checks[checkup[r].at]
                             /\ Checks[checkup[r].at] \in Itemized => p.on = x
                             /\ issues \subseteq y.issues
                             => Told(y, p),
         NEW me \in Found(r, x, issues)
  PROVE  me \in Checkup /\ RunOK(me, wrong)
  <1>1. PICK was : was = checkup[r]
    OBVIOUS
  <1>2. PICK new : new = [was EXCEPT !.pc = "check", !.issues = was.issues \cup issues,
                                     !.todo = was.todo \ {x}, !.cut = FALSE, !.host = "none"]
    OBVIOUS
  <1>3. was \in Checkup /\ was.at <= Len(Checks) /\ DOMAIN was.listed = was.scope /\ TellsWhatStays(was, steady[r])
    BY <1>1 DEF RunOK
  <1>4. /\ new \in Checkup
        /\ new.pc = "check" /\ new.at = was.at /\ new.todo = was.todo \ {x} /\ new.scope = was.scope
        /\ new.checks = was.checks /\ new.listed = was.listed /\ new.threw = was.threw
        /\ new.issues = was.issues \cup issues
    BY <1>2, <1>3 DEF Checkup
  <1>5. ASSUME NEW p \in wrong, Asked(new, p), CheckOf(p.code) = Checks[was.at],
               Checks[was.at] \in Itemized => p.on = x
        PROVE  Told(new, p)
    <2>1. Asked(was, p)
      BY <1>4, <1>5 DEF Asked
    <2> QED
      BY <1>1, <1>4, <1>5, <2>1
  <1>6. ASSUME NEW p \in wrong, Asked(new, p), Behind(was, p) PROVE Told(new, p)
    <2>1. Told(was, p)
      BY <1>3, <1>4, <1>6 DEF TellsWhatStays, Asked
    <2> QED
      BY <1>4, <2>1 DEF Told, Blind
  <1>7. was.at \in 1 .. Len(Checks) /\ Len(Checks) = 10
    BY <1>3, TenChecks DEF Checkup
  <1>8. CASE new.todo = {}
    <2>1. me \in GoesOn(r, new, was.at + 1)
      BY <1>1, <1>2, <1>4, <1>8 DEF Found
    <2>2. ASSUME NEW p \in wrong, Asked(new, p),
                 ~ \E j \in was.at + 1 .. Len(Checks) : Checks[j] = CheckOf(p.code)
          PROVE  Told(new, p)
      <3>1. CASE CheckOf(p.code) = Checks[was.at] /\ (Checks[was.at] \in Itemized => p.on = x)
        BY <1>5, <2>2, <3>1
      <3>2. CASE CheckOf(p.code) = Checks[was.at] /\ Checks[was.at] \in Itemized /\ p.on # x
        <4>1. p.on \notin was.todo
          BY <1>4, <1>8, <3>2
        <4>2. Behind(was, p)
          BY <1>7, <2>2, <3>2, <4>1 DEF Behind
        <4> QED
          BY <1>6, <2>2, <4>2
      <3>3. CASE CheckOf(p.code) # Checks[was.at]
        <4>1. Behind(was, p)
          BY <1>7, <2>2, <3>3 DEF Behind
        <4> QED
          BY <1>6, <2>2, <4>1
      <3> QED
        BY <3>1, <3>2, <3>3
    <2>3. \A p \in wrong : p.on \in new.scope => RowFits(p.code, new.listed[p.on])
      BY <1>3, <1>4 DEF TellsWhatStays
    <2>4. was.at + 1 \in 1 .. Len(Checks) + 1
      BY <1>7
    <2>5. PICK n \in 1 .. Len(Checks) + 1 : n = was.at + 1
      BY <2>4
    <2>6. DOMAIN new.listed = new.scope /\ new.checks = checkup[r].checks /\ new.scope = checkup[r].scope
      BY <1>1, <1>3, <1>4
    <2>7. \A p \in wrong : Asked(new, p) =>
             Told(new, p) \/ \E j \in n .. Len(Checks) : Checks[j] = CheckOf(p.code)
      BY <2>2, <2>5
    <2>8. me \in GoesOn(r, new, n)
      BY <2>1, <2>5
    <2> QED
      BY <1>4, <2>3, <2>6, <2>7, <2>8, GoesOnTells
  <1>9. CASE new.todo # {}
    <2>1. me = new
      BY <1>1, <1>2, <1>4, <1>9 DEF Found
    <2>2. ASSUME NEW p \in wrong, Asked(new, p), Behind(new, p) PROVE Told(new, p)
      <3>1. CASE CheckOf(p.code) = Checks[was.at] /\ p.on = x
        BY <1>5, <2>2, <3>1
      <3>2. CASE ~(CheckOf(p.code) = Checks[was.at] /\ p.on = x)
        <4>1. Behind(was, p)
          BY <1>4, <1>7, <2>2, <3>2 DEF Behind
        <4> QED
          BY <1>6, <2>2, <4>1
      <3> QED
        BY <3>1, <3>2
    <2>3. TellsWhatStays(new, wrong)
      BY <1>3, <1>4, <2>2 DEF TellsWhatStays
    <2> QED
      BY <1>3, <1>4, <2>1, <2>3 DEF RunOK
  <1> QED
    BY <1>8, <1>9

LEMMA NoCheckupTyped == NoCheckup \in Checkup
  <1>1. PICK none : none = [t \in {} |-> "active"]
    OBVIOUS
  <1>2. none \in UNION {[S -> Statuses] : S \in SUBSET DoctorTenants}
    <2>1. none \in [{} -> Statuses]
      BY <1>1
    <2> QED
      BY <2>1
  <1>3. 1 \in 1 .. Len(Checks) + 1
    BY TenChecks
  <1>4. NoCheckup = [pc |-> "idle", mode |-> "once", scope |-> DoctorTenants, fix |-> FALSE,
                     checks |-> {}, at |-> 1, todo |-> {}, listed |-> none, issues |-> {},
                     threw |-> {}, host |-> "none", cut |-> FALSE, exitCode |-> 0]
    BY <1>1 DEF NoCheckup
  <1> QED
    BY <1>2, <1>3, <1>4 DEF Checkup, CheckupModes

LEMMA DoctorStarts == DoctorAssumption /\ DoctorInit => DoctorInv
  <1> SUFFICES ASSUME DoctorAssumption, DoctorInit PROVE DoctorInv
    OBVIOUS
  <1>1. NoCheckup \in Checkup
    BY NoCheckupTyped
  <1>2. DoctorTypeOK
    BY <1>1 DEF DoctorInit, DoctorTypeOK, DoctorAssumption
  <1>3. \A r \in Checkups : checkup[r] = NoCheckup /\ steady[r] = {}
    BY DEF DoctorInit
  <1>4. RunOK(NoCheckup, {})
    BY DEF RunOK, NoCheckup
  <1> QED
    BY <1>2, <1>3, <1>4 DEF DoctorInv

LEMMA SameProblems ==
  ASSUME UNCHANGED <<rowStatus, schema, facts>>
  PROVE  Problems' = Problems
  BY DEF Problems, TenantProblems, FailedTenant, Stalled, MissingSchema, MigrationState, QueueHealth,
         BackupRecency, OpenCircuits, ReplicaLag, ConnectionPool, LongRunningQueries, Has

\* What is said of a run remains so of less, and when its connection is closed under it.
LEMMA StaysOK ==
  ASSUME NEW me \in Checkup, NEW was, RunOK(me, was), NEW wrong, wrong \subseteq was,
         NEW new, new = me \/ new = [me EXCEPT !.cut = TRUE]
  PROVE  new \in Checkup /\ RunOK(new, wrong)
  <1>1. /\ new \in Checkup
        /\ new.pc = me.pc /\ new.mode = me.mode /\ new.scope = me.scope /\ new.checks = me.checks
        /\ new.at = me.at /\ new.todo = me.todo /\ new.listed = me.listed /\ new.issues = me.issues
        /\ new.threw = me.threw /\ new.exitCode = me.exitCode
    BY DEF Checkup
  <1>2. TellsWhatStays(me, was) => TellsWhatStays(new, wrong)
    BY <1>1 DEF TellsWhatStays, Asked, Behind, Told, Blind
  <1> QED
    BY <1>1, <1>2 DEF RunOK

SteadyStep ==
  steady' = [r \in Checkups |->
       CASE checkup'[r].pc \in {"idle", "list"} -> {}
         [] checkup'[r].pc \notin {"idle", "list"} /\ checkup[r].pc = "list" -> Problems'
         [] OTHER -> steady[r] \cap Problems']

LEMMA SteadyNext ==
  ASSUME SteadyStep, NEW r \in Checkups
  PROVE  /\ checkup'[r].pc \in {"idle", "list"} => steady'[r] = {}
         /\ checkup'[r].pc \notin {"idle", "list"} /\ checkup[r].pc = "list" => steady'[r] = Problems'
         /\ checkup[r].pc # "list" => steady'[r] \subseteq steady[r]
         /\ checkup'[r].pc \in {"idle", "list"} \/ checkup[r].pc # "list" => steady'[r] \subseteq steady[r]
         /\ steady'[r] \subseteq Problems'
  BY DEF SteadyStep

\* A step of one run: it is for that run to keep what is said of it.
LEMMA OthersStay ==
  ASSUME DoctorInv, SteadyStep, NEW r \in Checkups, checkup' = [q \in Checkups |-> checkup'[q]],
         \A q \in Checkups \ {r} : checkup'[q] = checkup[q] \/ checkup'[q] = [checkup[q] EXCEPT !.cut = TRUE],
         checkup'[r] \in Checkup, RunOK(checkup'[r], steady'[r])
  PROVE  /\ checkup' \in [Checkups -> Checkup]
         /\ \A q \in Checkups : steady'[q] \subseteq Problems' /\ RunOK(checkup'[q], steady'[q])
  <1>1. ASSUME NEW q \in Checkups \ {r} PROVE checkup'[q] \in Checkup /\ RunOK(checkup'[q], steady'[q])
    <2>1. PICK me : me = checkup[q]
      OBVIOUS
    <2>2. PICK new : new = checkup'[q]
      OBVIOUS
    <2>3. me \in Checkup /\ RunOK(me, steady[q])
      BY <2>1 DEF DoctorInv, DoctorTypeOK
    <2>4. new = me \/ new = [me EXCEPT !.cut = TRUE]
      BY <2>1, <2>2
    <2>5. new.pc = me.pc
      BY <2>3, <2>4 DEF Checkup
    <2>6. steady'[q] \subseteq steady[q]
      BY <2>1, <2>2, <2>5, SteadyNext
    <2> QED
      BY <2>2, <2>3, <2>4, <2>6, StaysOK
  <1> QED
    BY <1>1, SteadyNext

CheckupsKept ==
  /\ checkup' \in [Checkups -> Checkup]
  /\ \A q \in Checkups : steady'[q] \subseteq Problems' /\ RunOK(checkup'[q], steady'[q])

LEMMA SetsOne ==
  ASSUME DoctorInv, SteadyStep, NEW r \in Checkups, NEW new \in Checkup, SetsCheckup(r, new),
         RunOK(new, steady'[r])
  PROVE  CheckupsKept
  <1>1. /\ checkup' = [q \in Checkups |-> checkup'[q]] /\ checkup'[r] = new
        /\ \A q \in Checkups \ {r} : checkup'[q] = checkup[q]
    BY DEF SetsCheckup, DoctorInv, DoctorTypeOK
  <1>2. checkup'[r] \in Checkup /\ RunOK(checkup'[r], steady'[r])
    BY <1>1
  <1> QED
    BY <1>1, <1>2, OthersStay DEF CheckupsKept

LEMMA AsksKeep ==
  ASSUME DoctorInv, SteadyStep, NEW r \in Checkups, Asks(r)
  PROVE  CheckupsKept
  <1>1. PICK mode \in CheckupModes, named \in SUBSET DoctorTenants, fix \in BOOLEAN, checks \in Selections :
          SetsCheckup(r, Asking(mode, named, fix, checks))
    BY Zenon DEF Asks
  <1>2. PICK none : none = NoCheckup
    OBVIOUS
  <1>3. PICK new : new = [none EXCEPT !.pc = "list", !.mode = mode, !.scope = named, !.fix = fix,
                                      !.checks = checks]
    OBVIOUS
  <1>4. SetsCheckup(r, new)
    BY <1>1, <1>2, <1>3, Zenon DEF Asking
  <1>5. new \in Checkup /\ new.pc = "list"
    <2>1. none \in Checkup
      BY <1>2, NoCheckupTyped
    <2> QED
      BY <1>3, <2>1 DEF Checkup
  <1>6. checkup'[r] = new
    BY <1>4 DEF SetsCheckup, DoctorInv, DoctorTypeOK
  <1>7. steady'[r] = {}
    BY <1>5, <1>6, SteadyNext
  <1>8. RunOK(new, steady'[r])
    BY <1>5, <1>7 DEF RunOK
  <1> QED
    BY <1>4, <1>5, <1>8, SetsOne

LEMMA ListKeeps ==
  ASSUME DoctorInv, SteadyStep, NEW r \in Checkups, ListsTenants(r)
  PROVE  CheckupsKept
  <1>1. PICK was : was = checkup[r]
    OBVIOUS
  <1>2. PICK rows : rows = [t \in was.scope |-> rowStatus[t]]
    OBVIOUS
  <1>3. PICK new : new = [was EXCEPT !.listed = rows]
    OBVIOUS
  <1>4. PICK me \in GoesOn(r, new, 1) : SetsCheckup(r, me)
    BY <1>1, <1>2, <1>3 DEF ListsTenants
  <1>5. was \in Checkup /\ was.pc = "list" /\ rowStatus \in [DoctorTenants -> Statuses]
    BY <1>1 DEF DoctorInv, DoctorTypeOK, ListsTenants
  <1>6. rows \in UNION {[S -> Statuses] : S \in SUBSET DoctorTenants}
    <2>1. was.scope \in SUBSET DoctorTenants
      BY <1>5 DEF Checkup
    <2>2. rows \in [was.scope -> Statuses]
      BY <1>2, <1>5, <2>1
    <2> QED
      BY <2>1, <2>2
  <1>7. new \in Checkup /\ new.checks = was.checks /\ new.scope = was.scope /\ new.listed = rows
    BY <1>3, <1>5, <1>6 DEF Checkup
  <1>8. ASSUME NEW p \in Problems
        PROVE  /\ p.on \in new.scope => RowFits(p.code, new.listed[p.on])
               /\ \E j \in 1 .. Len(Checks) : Checks[j] = CheckOf(p.code)
    <2>1. new.scope \subseteq DoctorTenants
      BY <1>7 DEF Checkup
    <2> QED
      BY <1>2, <1>7, <2>1, RowsFit, ChecksCover
  <1>9. DOMAIN new.listed = new.scope
    BY <1>2, <1>7
  <1>10. PICK wrong : wrong = Problems
    OBVIOUS
  <1>11. me \in Checkup /\ RunOK(me, wrong) /\ me.pc \in {"check", "end"}
    <2>1. 1 \in 1 .. Len(Checks) + 1
      BY TenChecks
    <2>2. PICK n \in 1 .. Len(Checks) + 1 : n = 1
      BY <2>1
    <2>3. /\ \A p \in wrong : p.on \in new.scope => RowFits(p.code, new.listed[p.on])
          /\ \A p \in wrong : Asked(new, p) =>
               \/ Told(new, p)
               \/ \E j \in n .. Len(Checks) : Checks[j] = CheckOf(p.code)
      BY <1>8, <1>10, <2>2
    <2>4. me \in GoesOn(r, new, n)
      BY <1>4, <2>2
    <2>5. checkup[r] \in Checkup /\ new.checks = checkup[r].checks /\ new.scope = checkup[r].scope
      BY <1>1, <1>5, <1>7
    <2>6. wrong \subseteq Problems /\ new \in Checkup
      BY <1>7, <1>10
    <2> QED
      BY <1>9, <2>3, <2>4, <2>5, <2>6, GoesOnTells
  <1>12. me.pc \notin {"idle", "list"}
    BY <1>11
  <1>13. steady'[r] = wrong
    <2>1. checkup'[r] = me
      BY <1>4 DEF SetsCheckup, DoctorInv, DoctorTypeOK
    <2>2. Problems' = Problems
      BY SameProblems DEF ListsTenants, World
    <2> QED
      BY <1>1, <1>5, <1>10, <1>12, <2>1, <2>2, SteadyNext
  <1> QED
    BY <1>4, <1>11, <1>13, SetsOne

\* A look of a run that is in a check.
LEMMA LookKeeps ==
  ASSUME DoctorInv, SteadyStep, NEW r \in Checkups, checkup[r].pc \in {"check", "probe"},
         NEW x, NEW issues, issues \subseteq [code : Codes, on : Places],
         \A p \in steady[r] : \A y :
                             /\ Asked(checkup[r], p) /\ CheckOf(p.code) = Checks[checkup[r].at]
                             /\ Checks[checkup[r].at] \in Itemized => p.on = x
                             /\ issues \subseteq y.issues
                             => Told(y, p),
         NEW me \in Found(r, x, issues)
  PROVE  me \in Checkup /\ RunOK(me, steady'[r])
  <1>1. checkup[r] \in Checkup /\ RunOK(checkup[r], steady[r]) /\ steady[r] \subseteq Problems
    BY DEF DoctorInv, DoctorTypeOK
  <1>2. PICK wrong : wrong = steady'[r]
    OBVIOUS
  <1>3. wrong \subseteq steady[r]
    BY <1>2, SteadyNext
  <1> QED
    BY <1>1, <1>2, <1>3, FoundTells

\* What is known of a problem that has been there since the list was read.
LEMMA SteadyFinds ==
  ASSUME DoctorInv, NEW r \in Checkups, checkup[r].pc \in {"check", "probe"}, NEW p \in steady[r],
         Asked(checkup[r], p)
  PROVE  /\ CheckOf(p.code) \in PerTenant =>
              p.on \in DoctorTenants /\ p \in FoundAt(CheckOf(p.code), p.on, checkup[r].listed[p.on])
         /\ CheckOf(p.code) = "replica_lag" => p.on \in Replicas /\ p \in ReplicaLag(p.on)
         /\ CheckOf(p.code) \notin Itemized => p \in FoundByAll(CheckOf(p.code), checkup[r].listed)
         /\ CheckOf(p.code) = "long_running_queries" => p.on = "database"
  <1>1. PICK listed : listed = checkup[r].listed
    OBVIOUS
  <1>2. DOMAIN listed = checkup[r].scope /\ p \in Problems
        /\ (p.on \in DOMAIN listed => RowFits(p.code, listed[p.on]))
    BY <1>1 DEF DoctorInv, RunOK, TellsWhatStays
  <1>3. checkup[r] \in Checkup
    BY DEF DoctorInv, DoctorTypeOK
  <1>4. DOMAIN listed \subseteq DoctorTenants
    BY <1>2, <1>3 DEF Checkup
  <1>5. p.on \notin DoctorTenants \ DOMAIN listed
    BY <1>2 DEF Asked
  <1> QED
    BY <1>1, <1>2, <1>4, <1>5, CheckFinds

\* The run is in a check that is not over.
LEMMA InACheck ==
  ASSUME DoctorInv, NEW r \in Checkups, NEW c, AtCheck(r, c)
  PROVE  /\ checkup[r] \in Checkup /\ checkup[r].pc = "check" /\ Checks[checkup[r].at] = c
         /\ DOMAIN checkup[r].listed = checkup[r].scope
         /\ checkup[r].at \in 1 .. Len(Checks) /\ checkup[r].scope \subseteq DoctorTenants
  <1>1. PICK me \in Checkup : me = checkup[r]
    BY DEF DoctorInv, DoctorTypeOK
  <1>2. RunOK(me, steady[r]) /\ me.pc = "check" /\ Checks[me.at] = c /\ me.at <= Len(Checks)
    BY <1>1 DEF DoctorInv, AtCheck
  <1>3. me.at \in 1 .. Len(Checks) + 1 /\ me.scope \subseteq DoctorTenants
    BY DEF Checkup
  <1>4. me.at \in 1 .. Len(Checks)
    BY <1>2, <1>3, TenChecks
  <1> QED
    BY <1>1, <1>2, <1>3, <1>4 DEF RunOK

LEMMA ChecksAllKeeps ==
  ASSUME DoctorInv, SteadyStep, NEW r \in Checkups, ChecksAll(r)
  PROVE  CheckupsKept
  <1>1. PICK c \in {"failed_tenants", "provisioning_stalled", "schema_drift", "circuit_breakers",
                    "connection_pool", "long_running_queries"} :
          /\ AtCheck(r, c)
          /\ \E new \in Found(r, "all", FoundByAll(c, checkup[r].listed)) : SetsCheckup(r, new)
    BY Zenon DEF ChecksAll
  <1>2. PICK listed : listed = checkup[r].listed
    OBVIOUS
  <1>3. PICK issues : issues = FoundByAll(c, listed)
    OBVIOUS
  <1>4. PICK me \in Found(r, "all", issues) : SetsCheckup(r, me)
    BY <1>1, <1>2, <1>3
  <1>5. checkup[r].pc = "check" /\ Checks[checkup[r].at] = c /\ DOMAIN listed \subseteq DoctorTenants
    BY <1>1, <1>2, InACheck
  <1>6. issues \subseteq [code : Codes, on : Places]
    BY <1>3, <1>5, FoundTyped
  <1>7. ASSUME NEW p \in steady[r], NEW y, Asked(checkup[r], p), CheckOf(p.code) = Checks[checkup[r].at],
               issues \subseteq y.issues
        PROVE  Told(y, p)
    <2>1. c \notin Itemized
      BY <1>1 DEF Itemized, PerTenant
    <2>2. p \in issues
      BY <1>2, <1>3, <1>5, <1>7, <2>1, SteadyFinds
    <2> QED
      BY <1>7, <2>2 DEF Told
  <1>8. me \in Checkup /\ RunOK(me, steady'[r])
    BY <1>5, <1>6, <1>7, LookKeeps
  <1> QED
    BY <1>4, <1>8, SetsOne

LEMMA QueryFailsKeeps ==
  ASSUME DoctorInv, SteadyStep, NEW r \in Checkups, QueryFails(r)
  PROVE  CheckupsKept
  <1>1. CASE /\ AtCheck(r, "long_running_queries")
             /\ \E new \in Found(r, "all", {Issue("pg_stat_activity_unreadable", "database")}) :
                  SetsCheckup(r, new)
    <2>1. PICK issues : issues = {Issue("pg_stat_activity_unreadable", "database")}
      OBVIOUS
    <2>2. PICK me \in Found(r, "all", issues) : SetsCheckup(r, me)
      BY <1>1, <2>1
    <2>3. checkup[r].pc = "check" /\ Checks[checkup[r].at] = "long_running_queries"
      BY <1>1, InACheck
    <2>4. issues \subseteq [code : Codes, on : Places]
      BY <2>1, IssueTyped DEF Codes, InfoCodes, Places
    <2>5. ASSUME NEW p \in steady[r], NEW y, Asked(checkup[r], p),
                 CheckOf(p.code) = Checks[checkup[r].at], issues \subseteq y.issues
          PROVE  Told(y, p)
      <3>1. p.on = "database"
        BY <2>3, <2>5, SteadyFinds
      <3> QED
        BY <2>1, <2>3, <2>5, <3>1 DEF Told, Blind
    <2>6. me \in Checkup /\ RunOK(me, steady'[r])
      BY <2>3, <2>4, <2>5, LookKeeps
    <2> QED
      BY <2>2, <2>6, SetsOne
  <1>2. ASSUME NEW c \in {"schema_drift", "long_running_queries"}, AtCheck(r, c),
               \E new \in GoesOn(r, [checkup[r] EXCEPT !.threw = @ \cup {c}], checkup[r].at + 1) :
                  SetsCheckup(r, new)
        PROVE  CheckupsKept
    <2>1. PICK was : was = checkup[r]
      OBVIOUS
    <2>2. PICK new : new = [was EXCEPT !.threw = was.threw \cup {c}]
      OBVIOUS
    <2>3. /\ was \in Checkup /\ was.pc = "check" /\ Checks[was.at] = c
          /\ DOMAIN was.listed = was.scope /\ was.at \in 1 .. Len(Checks)
      BY <1>2, <2>1, InACheck
    <2>4. PICK n \in 1 .. Len(Checks) + 1 : n = was.at + 1
      BY <2>3, TenChecks
    <2>5. PICK me \in GoesOn(r, new, n) : SetsCheckup(r, me)
      BY <1>2, <2>1, <2>2, <2>4
    <2>6. /\ new \in Checkup
          /\ new.scope = was.scope /\ new.checks = was.checks /\ new.listed = was.listed
          /\ new.issues = was.issues /\ new.threw = was.threw \cup {c}
      BY <2>2, <2>3 DEF Checkup
    <2>7. PICK wrong : wrong = steady'[r]
      OBVIOUS
    <2>8. wrong \subseteq steady[r] /\ wrong \subseteq Problems /\ TellsWhatStays(was, steady[r])
      BY <2>1, <2>3, <2>7, SteadyNext DEF DoctorInv, RunOK
    <2>9. ASSUME NEW p \in wrong, Asked(new, p),
                 ~ \E j \in n .. Len(Checks) : Checks[j] = CheckOf(p.code)
          PROVE  Told(new, p)
      <3>1. CASE CheckOf(p.code) = c
        BY <2>6, <3>1 DEF Told, Blind
      <3>2. CASE CheckOf(p.code) # c
        <4>1. Behind(was, p)
          BY <2>3, <2>4, <2>9, <3>2, TenChecks DEF Behind
        <4>2. Told(was, p)
          BY <2>6, <2>8, <2>9, <4>1 DEF TellsWhatStays, Asked
        <4> QED
          BY <2>6, <4>2 DEF Told, Blind
      <3> QED
        BY <3>1, <3>2
    <2>10. /\ \A p \in wrong : p.on \in new.scope => RowFits(p.code, new.listed[p.on])
           /\ \A p \in wrong : Asked(new, p) =>
                \/ Told(new, p)
                \/ \E j \in n .. Len(Checks) : Checks[j] = CheckOf(p.code)
      BY <2>6, <2>8, <2>9 DEF TellsWhatStays
    <2>11. /\ checkup[r] \in Checkup /\ new.checks = checkup[r].checks /\ new.scope = checkup[r].scope
           /\ DOMAIN new.listed = new.scope
      BY <2>1, <2>3, <2>6
    <2>12. me \in Checkup /\ RunOK(me, wrong)
      BY <2>6, <2>8, <2>10, <2>11, GoesOnTells
    <2> QED
      BY <2>5, <2>7, <2>12, SetsOne
  <1> QED
    BY <1>1, <1>2, Zenon DEF QueryFails

LEMMA ChecksTenantKeeps ==
  ASSUME DoctorInv, SteadyStep, NEW r \in Checkups, NEW t \in DoctorTenants, ChecksTenant(r, t)
  PROVE  CheckupsKept
  <1>1. PICK c \in PerTenant :
          AtCheck(r, c) /\ \E new \in Found(r, t, FoundAt(c, t, checkup[r].listed[t])) : SetsCheckup(r, new)
    BY Zenon DEF ChecksTenant
  <1>2. PICK issues : issues = FoundAt(c, t, checkup[r].listed[t])
    OBVIOUS
  <1>3. PICK me \in Found(r, t, issues) : SetsCheckup(r, me)
    BY <1>1, <1>2
  <1>4. checkup[r].pc = "check" /\ Checks[checkup[r].at] = c /\ c \in Itemized
    BY <1>1, InACheck DEF Itemized
  <1>5. issues \subseteq [code : Codes, on : Places]
    BY <1>2, FoundTyped
  <1>6. ASSUME NEW p \in steady[r], NEW y, Asked(checkup[r], p), CheckOf(p.code) = Checks[checkup[r].at],
               p.on = t, issues \subseteq y.issues
        PROVE  Told(y, p)
    <2>1. p \in issues
      BY <1>1, <1>2, <1>4, <1>6, SteadyFinds
    <2> QED
      BY <1>6, <2>1 DEF Told
  <1>7. me \in Checkup /\ RunOK(me, steady'[r])
    BY <1>4, <1>5, <1>6, LookKeeps
  <1> QED
    BY <1>3, <1>7, SetsOne

LEMMA CannotLookKeeps ==
  ASSUME DoctorInv, SteadyStep, NEW r \in Checkups, NEW t \in DoctorTenants, CannotLook(r, t)
  PROVE  CheckupsKept
  <1>1. PICK c \in PerTenant :
          AtCheck(r, c) /\ \E new \in Found(r, t, {Issue(InspectFailed[c], t)}) : SetsCheckup(r, new)
    BY Zenon DEF CannotLook
  <1>2. PICK issues : issues = {Issue(InspectFailed[c], t)}
    OBVIOUS
  <1>3. PICK me \in Found(r, t, issues) : SetsCheckup(r, me)
    BY <1>1, <1>2
  <1>4. checkup[r].pc = "check" /\ Checks[checkup[r].at] = c /\ c \in Itemized
    BY <1>1, InACheck DEF Itemized
  <1>5. issues \subseteq [code : Codes, on : Places]
    <2>1. InspectFailed[c] \in Codes
      BY <1>1 DEF InspectFailed, PerTenant, Codes, InfoCodes, WarnCodes
    <2> QED
      BY <1>2, <2>1, IssueTyped DEF Places
  <1>6. ASSUME NEW p \in steady[r], NEW y, Asked(checkup[r], p), CheckOf(p.code) = Checks[checkup[r].at],
               p.on = t, issues \subseteq y.issues
        PROVE  Told(y, p)
    BY <1>1, <1>2, <1>4, <1>6 DEF Told, Blind
  <1>7. me \in Checkup /\ RunOK(me, steady'[r])
    BY <1>4, <1>5, <1>6, LookKeeps
  <1> QED
    BY <1>3, <1>7, SetsOne

LEMMA ProbesKeep ==
  ASSUME DoctorInv, SteadyStep, NEW r \in Checkups, NEW h \in Replicas, Probes(r, h)
  PROVE  CheckupsKept
  <1>1. PICK was : was = checkup[r]
    OBVIOUS
  <1>2. PICK new : new = [was EXCEPT !.pc = "probe", !.host = h, !.cut = FALSE]
    OBVIOUS
  <1>3. SetsCheckup(r, new) /\ AtCheck(r, "replica_lag")
    BY <1>1, <1>2 DEF Probes
  <1>4. was \in Checkup /\ was.pc = "check" /\ Checks[was.at] = "replica_lag" /\ was.at <= Len(Checks)
    BY <1>1, <1>3, InACheck DEF AtCheck
  <1>5. /\ new \in Checkup
        /\ new.pc = "probe" /\ new.scope = was.scope /\ new.checks = was.checks
        /\ new.at = was.at /\ new.todo = was.todo /\ new.listed = was.listed
        /\ new.issues = was.issues /\ new.threw = was.threw
    BY <1>2, <1>4 DEF Checkup
  <1>6. steady'[r] \subseteq steady[r] /\ RunOK(was, steady[r])
    BY <1>1, <1>4, SteadyNext DEF DoctorInv
  <1>7. DOMAIN was.listed = was.scope /\ TellsWhatStays(was, steady[r])
    BY <1>4, <1>6 DEF RunOK
  <1>8. TellsWhatStays(new, steady'[r])
    BY <1>5, <1>6, <1>7 DEF TellsWhatStays, Asked, Behind, Told, Blind
  <1>9. RunOK(new, steady'[r])
    BY <1>4, <1>5, <1>7, <1>8 DEF RunOK
  <1> QED
    BY <1>3, <1>5, <1>9, SetsOne

LEMMA AnswersKeep ==
  ASSUME DoctorInv, SteadyStep, NEW r \in Checkups, NEW h \in Replicas, Answers(r, h)
  PROVE  CheckupsKept
  <1>1. PICK issues \in {ReplicaLag(h)} \cup IF checkup[r].cut THEN {{Issue("replica_unreachable", h)}} ELSE {} :
        \E new \in Found(r, h, issues) :
           checkup' = [q \in Checkups |->
                         IF q = r THEN new
                         ELSE IF checkup[q].host = h /\ h \in probes
                              THEN [checkup[q] EXCEPT !.cut = TRUE] ELSE checkup[q]]
    BY Zenon DEF Answers
  <1>2. PICK me \in Found(r, h, issues) :
           checkup' = [q \in Checkups |->
                         IF q = r THEN me
                         ELSE IF checkup[q].host = h /\ h \in probes
                              THEN [checkup[q] EXCEPT !.cut = TRUE] ELSE checkup[q]]
    BY <1>1, Zenon
  <1>3. issues = ReplicaLag(h) \/ issues = {Issue("replica_unreachable", h)}
    BY <1>1
  <1>4. checkup[r].pc = "probe" /\ Checks[checkup[r].at] = "replica_lag"
    BY DEF Answers, DoctorInv, RunOK
  <1>5. issues \subseteq [code : Codes, on : Places]
    BY <1>3, FoundTyped, IssueTyped DEF Codes, ErrorCodes, Places
  <1>6. ASSUME NEW p \in steady[r], NEW y, Asked(checkup[r], p), CheckOf(p.code) = Checks[checkup[r].at],
               p.on = h, issues \subseteq y.issues
        PROVE  Told(y, p)
    <2>1. p \in ReplicaLag(h)
      BY <1>4, <1>6, SteadyFinds
    <2> QED
      BY <1>3, <1>4, <1>6, <2>1 DEF Told, Blind
  <1>7. "replica_lag" \in Itemized
    BY DEF Itemized
  <1>8. me \in Checkup /\ RunOK(me, steady'[r])
    BY <1>4, <1>5, <1>6, <1>7, LookKeeps
  <1>9. /\ checkup' = [q \in Checkups |-> checkup'[q]]
        /\ \A q \in Checkups \ {r} : checkup'[q] = checkup[q] \/ checkup'[q] = [checkup[q] EXCEPT !.cut = TRUE]
        /\ checkup'[r] = me
    BY <1>2, Zenon
  <1>10. checkup'[r] \in Checkup /\ RunOK(checkup'[r], steady'[r])
    BY <1>8, <1>9
  <1> QED
    BY <1>9, <1>10, OthersStay DEF CheckupsKept

LEMMA EndsKeep ==
  ASSUME DoctorInv, SteadyStep, NEW r \in Checkups, CheckupEnds(r)
  PROVE  CheckupsKept
  <1>1. PICK was : was = checkup[r]
    OBVIOUS
  <1>2. was \in Checkup /\ was.pc = "end" /\ RunOK(was, steady[r])
    BY <1>1 DEF DoctorInv, DoctorTypeOK, CheckupEnds
  <1>3. steady'[r] \subseteq steady[r] /\ DOMAIN was.listed = was.scope /\ TellsWhatStays(was, steady[r])
        /\ was.at = Len(Checks) + 1
    BY <1>1, <1>2, SteadyNext DEF RunOK
  <1>4. CASE \/ /\ was.mode # "watch"
                /\ SetsCheckup(r, [was EXCEPT !.pc = "over", !.exitCode = ExitCode(was.issues)])
             \/ was.mode = "watch" /\ SetsCheckup(r, [was EXCEPT !.pc = "over"])
    <2>1. PICK new : /\ SetsCheckup(r, new)
                     /\ \/ was.mode # "watch" /\ new = [was EXCEPT !.pc = "over", !.exitCode = ExitCode(was.issues)]
                        \/ was.mode = "watch" /\ new = [was EXCEPT !.pc = "over"]
      BY <1>4
    <2>2. ExitCode(was.issues) \in {0, 1}
      BY DEF ExitCode
    <2>3. /\ new \in Checkup
          /\ new.pc = "over" /\ new.scope = was.scope /\ new.checks = was.checks /\ new.mode = was.mode
          /\ new.at = was.at /\ new.todo = was.todo /\ new.listed = was.listed
          /\ new.issues = was.issues /\ new.threw = was.threw
          /\ was.mode # "watch" => new.exitCode = ExitCode(was.issues)
      <3>1. CASE new = [was EXCEPT !.pc = "over", !.exitCode = ExitCode(was.issues)]
        BY <1>2, <2>2, <3>1 DEF Checkup
      <3>2. CASE was.mode = "watch" /\ new = [was EXCEPT !.pc = "over"]
        BY <1>2, <3>2 DEF Checkup
      <3> QED
        BY <2>1, <3>1, <3>2
    <2>4. TellsWhatStays(new, steady'[r])
      BY <1>3, <2>3 DEF TellsWhatStays, Asked, Behind, Told, Blind
    <2>5. RunOK(new, steady'[r])
      BY <1>3, <2>3, <2>4 DEF RunOK
    <2> QED
      BY <2>1, <2>3, <2>5, SetsOne
  <1>5. CASE SetsCheckup(r, [was EXCEPT !.pc = "list", !.issues = {}, !.threw = {}])
    <2>1. PICK new : new = [was EXCEPT !.pc = "list", !.issues = {}, !.threw = {}]
      OBVIOUS
    <2>2. SetsCheckup(r, new)
      BY <1>5, <2>1
    <2>3. new \in Checkup /\ new.pc = "list"
      BY <1>2, <2>1 DEF Checkup
    <2>4. checkup'[r] = new
      BY <2>2 DEF SetsCheckup, DoctorInv, DoctorTypeOK
    <2>5. steady'[r] = {}
      BY <2>3, <2>4, SteadyNext
    <2>6. RunOK(new, steady'[r])
      BY <2>3, <2>5 DEF RunOK
    <2> QED
      BY <2>2, <2>3, <2>6, SetsOne
  <1> QED
    BY <1>1, <1>4, <1>5, Zenon DEF CheckupEnds

LEMMA NoRunMoves ==
  ASSUME DoctorInv, SteadyStep, UNCHANGED checkup
  PROVE  CheckupsKept
  <1>1. ASSUME NEW q \in Checkups PROVE steady'[q] \subseteq Problems' /\ RunOK(checkup'[q], steady'[q])
    <2>1. PICK me : me = checkup[q]
      OBVIOUS
    <2>2. me \in Checkup /\ RunOK(me, steady[q])
      BY <2>1 DEF DoctorInv, DoctorTypeOK
    <2>3. steady'[q] \subseteq steady[q] /\ steady'[q] \subseteq Problems'
      BY SteadyNext
    <2> QED
      BY <2>1, <2>2, <2>3, StaysOK
  <1> QED
    BY <1>1 DEF CheckupsKept, DoctorInv, DoctorTypeOK

\* The world, the probes and the counters.
WorldTypeOK ==
  /\ rowStatus \in [DoctorTenants -> Statuses]
  /\ schema \in [DoctorTenants -> {"none", "empty", "migrated"}]
  /\ facts \subseteq WorldFacts /\ probes \subseteq Replicas
  /\ worldChanges \in 0 .. MaxWorldChanges /\ queryFaults \in 0 .. MaxQueryFaults

LEMMA WorldChangesTyped ==
  ASSUME DoctorAssumption, WorldTypeOK, WorldChanges
  PROVE  WorldTypeOK'
  <1>1. worldChanges' \in 0 .. MaxWorldChanges /\ queryFaults' = queryFaults /\ probes' = probes
    BY DEF DoctorAssumption, WorldTypeOK, WorldChanges
  <1>2. ASSUME NEW t \in DoctorTenants, TenantMoves(t)
        PROVE  /\ rowStatus' \in [DoctorTenants -> Statuses]
               /\ schema' \in [DoctorTenants -> {"none", "empty", "migrated"}]
               /\ facts' = facts
    <2>1. PICK s \in Statuses, st \in {"none", "empty", "migrated"} : Moves(t, s, st)
      BY <1>2, Zenon DEF TenantMoves, WorldTypeOK, Statuses
    <2> QED
      BY <2>1 DEF Moves, WorldTypeOK
  <1>3. ASSUME NEW f \in WorldFacts, FactMoves(f)
        PROVE  facts' \subseteq WorldFacts /\ UNCHANGED <<rowStatus, schema>>
    BY <1>3 DEF FactMoves, WorldTypeOK
  <1>4. (\E t \in DoctorTenants : TenantMoves(t)) \/ (\E f \in WorldFacts : FactMoves(f))
    BY DEF WorldChanges
  <1> QED
    BY <1>1, <1>2, <1>3, <1>4 DEF WorldTypeOK

LEMMA LookTyped ==
  ASSUME DoctorAssumption, WorldTypeOK, NEW r \in Checkups, Look(r)
  PROVE  WorldTypeOK'
  <1>1. CASE Asks(r) \/ ListsTenants(r) \/ CheckupEnds(r) \/ \E t \in DoctorTenants : ChecksTenant(r, t)
    <2>1. UNCHANGED <<World, probes, queryFaults>>
      BY <1>1, Zenon DEF Asks, ListsTenants, CheckupEnds, ChecksTenant
    <2> QED
      BY <2>1 DEF World, WorldTypeOK
  <1>2. CASE QueryFails(r) \/ \E t \in DoctorTenants : CannotLook(r, t)
    <2>1. UNCHANGED <<World, probes>> /\ queryFaults < MaxQueryFaults /\ queryFaults' = queryFaults + 1
      BY <1>2, Zenon DEF QueryFails, CannotLook
    <2> QED
      BY <2>1 DEF World, WorldTypeOK, DoctorAssumption
  <1>3. CASE \E h \in Replicas : Probes(r, h) \/ Answers(r, h)
    <2>1. PICK h \in Replicas : Probes(r, h) \/ Answers(r, h)
      BY <1>3
    <2>2. UNCHANGED <<World, queryFaults>> /\ (probes' = probes \cup {h} \/ probes' = probes \ {h})
      BY <2>1, Zenon DEF Probes, Answers
    <2> QED
      BY <2>2 DEF World, WorldTypeOK
  <1>4. CASE ChecksAll(r)
    <2>1. UNCHANGED <<schema, worldChanges, probes, queryFaults>> /\ \E issues : Fixes(r, issues)
      BY <1>4, Zenon DEF ChecksAll
    <2>2. PICK issues : Fixes(r, issues)
      BY <2>1
    <2>3. rowStatus' \in [DoctorTenants -> Statuses] /\ facts' \subseteq WorldFacts
      BY <2>2 DEF Fixes, WorldTypeOK, Statuses
    <2> QED
      BY <2>1, <2>3 DEF WorldTypeOK
  <1> QED
    BY <1>1, <1>2, <1>3, <1>4, Zenon DEF Look

LEMMA DoctorStep ==
  ASSUME DoctorAssumption, DoctorInv, [DoctorNext]_doctor
  PROVE  DoctorInv'
  <1>1. WorldTypeOK
    BY DEF DoctorInv, DoctorTypeOK, WorldTypeOK
  <1>2. CASE UNCHANGED doctor
    <2>1. Problems' = Problems
      BY <1>2, SameProblems DEF doctor
    <2> QED
      BY <1>2, <2>1 DEF doctor, DoctorInv, DoctorTypeOK
  <1>3. CASE DoctorNext
    <2>1. SteadyStep
      BY <1>3 DEF DoctorNext, SteadyStep
    <2>2. ASSUME WorldChanges PROVE CheckupsKept /\ WorldTypeOK'
      <3>1. UNCHANGED checkup
        BY <2>2 DEF WorldChanges
      <3>2. CheckupsKept
        BY <2>1, <3>1, NoRunMoves
      <3>3. WorldTypeOK'
        BY <1>1, <2>2, WorldChangesTyped
      <3> QED
        BY <3>2, <3>3
    <2>3. ASSUME NEW r \in Checkups, Look(r) PROVE CheckupsKept /\ WorldTypeOK'
      <3>1. WorldTypeOK'
        BY <1>1, <2>3, LookTyped
      <3>2. CASE Asks(r)
        BY <2>1, <3>1, <3>2, AsksKeep
      <3>3. CASE ListsTenants(r)
        BY <2>1, <3>1, <3>3, ListKeeps
      <3>4. CASE ChecksAll(r)
        BY <2>1, <3>1, <3>4, ChecksAllKeeps
      <3>5. CASE QueryFails(r)
        BY <2>1, <3>1, <3>5, QueryFailsKeeps
      <3>6. ASSUME NEW t \in DoctorTenants, ChecksTenant(r, t) \/ CannotLook(r, t)
            PROVE  CheckupsKept
        BY <2>1, <3>6, ChecksTenantKeeps, CannotLookKeeps
      <3>7. ASSUME NEW h \in Replicas, Probes(r, h) \/ Answers(r, h)
            PROVE  CheckupsKept
        BY <2>1, <3>7, ProbesKeep, AnswersKeep
      <3>8. CASE CheckupEnds(r)
        BY <2>1, <3>1, <3>8, EndsKeep
      <3> QED
        BY <2>3, <3>1, <3>2, <3>3, <3>4, <3>5, <3>6, <3>7, <3>8, Zenon DEF Look
    <2>4. CheckupsKept /\ WorldTypeOK'
      BY <1>3, <2>2, <2>3, Zenon DEF DoctorNext
    <2>5. steady' \in [Checkups -> SUBSET [code : Codes, on : Places]]
      <3>1. (Problems \subseteq [code : Codes, on : Places])'
        BY ProblemsTyped, PTL
      <3>2. \A q \in Checkups : steady'[q] \subseteq [code : Codes, on : Places]
        BY <2>4, <3>1 DEF CheckupsKept
      <3>3. steady' = [q \in Checkups |-> steady'[q]]
        BY <2>1, Zenon DEF SteadyStep
      <3> QED
        BY <3>2, <3>3
    <2>6. DoctorTypeOK'
      BY <2>4, <2>5 DEF CheckupsKept, WorldTypeOK, DoctorTypeOK
    <2>7. \A q \in Checkups : steady'[q] \subseteq Problems' /\ RunOK(checkup'[q], steady'[q])
      BY <2>4 DEF CheckupsKept
    <2> QED
      BY <2>6, <2>7, Zenon DEF DoctorInv
  <1> QED
    BY <1>2, <1>3

LEMMA DoctorReports == DoctorInv => ReportsWhatStays
  <1> SUFFICES ASSUME DoctorInv, NEW r \in Checkups
      PROVE  /\ checkup[r].pc \in {"end", "over"} =>
                  \A p \in steady[r] :
                    \/ p \in checkup[r].issues
                    \/ CheckOf(p.code) \notin checkup[r].checks
                    \/ p.on \in DoctorTenants \ checkup[r].scope
                    \/ Blind(checkup[r], CheckOf(p.code), p.on)
             /\ checkup[r].pc = "over" /\ checkup[r].mode # "watch" /\ checkup[r].exitCode = 0 =>
                  \A p \in steady[r] \cap checkup[r].issues : Severity(p.code) # "error"
    BY DEF ReportsWhatStays
  <1>1. PICK me : me = checkup[r]
    OBVIOUS
  <1>2. RunOK(me, steady[r])
    BY <1>1 DEF DoctorInv
  <1>3. ASSUME me.pc \in {"end", "over"}, NEW p \in steady[r], Asked(me, p) PROVE Told(me, p)
    <2>1. me.at = Len(Checks) + 1 /\ TellsWhatStays(me, steady[r])
      BY <1>2, <1>3 DEF RunOK
    <2>2. Behind(me, p)
      BY <2>1, TenChecks DEF Behind
    <2> QED
      BY <1>3, <2>1, <2>2 DEF TellsWhatStays
  <1>4. ASSUME me.pc = "over", me.mode # "watch", me.exitCode = 0, NEW p \in me.issues
        PROVE  Severity(p.code) # "error"
    BY <1>2, <1>4 DEF RunOK, ExitCode
  <1> QED
    BY <1>1, <1>3, <1>4 DEF Asked, Told

\* Type correctness of the tenants as the doctor sees them, its runs and their reports.
THEOREM DoctorTypes ==
  ASSUME DoctorAssumption
  PROVE  DoctorSpec => []DoctorTypeOK
  <1>1. DoctorInit => DoctorInv
    BY DoctorStarts
  <1>2. DoctorInv /\ [DoctorNext]_doctor => DoctorInv'
    BY DoctorStep
  <1>3. DoctorInv => DoctorTypeOK
    BY DEF DoctorInv
  <1> QED
    BY <1>1, <1>2, <1>3, PTL DEF DoctorSpec

\* What is wrong from the moment a run of the doctor reads its list of the tenants until it
\* ends is in its report, about every tenant and for every check it was asked about, whatever
\* changes meanwhile and whichever runs share its probes, unless the report says that the
\* check could not look there; and one that ends well has told of no error.
THEOREM WhatStaysIsReported ==
  ASSUME DoctorAssumption
  PROVE  DoctorSpec => []ReportsWhatStays
  <1>1. DoctorInit => DoctorInv
    BY DoctorStarts
  <1>2. DoctorInv /\ [DoctorNext]_doctor => DoctorInv'
    BY DoctorStep
  <1>3. DoctorInv => ReportsWhatStays
    BY DoctorReports
  <1> QED
    BY <1>1, <1>2, <1>3, PTL DEF DoctorSpec

(***************************************************************************)
(*                  An import applies what its dump says                   *)
(***************************************************************************)

\* The statements of the transaction that must end in the schema.
Wanted == DOMAIN tokens \ (refusals \cup Skipped(tokens))
Failing == refusals \ Skipped(tokens)

\* What a step of the command finds, and what the transaction has done before
\* its next token.
NotRead ==
  importStep \in {"command", "refused"} =>
    /\ tokens = <<>> /\ refusals = {} /\ importSchema = <<>> /\ counted = NoResult
    /\ nextToken = 1 /\ trx = NoTrx
ReadAsSaid ==
  importStep \notin {"command", "refused"} /\ Understood(file) =>
    tokens = Meaning(file) /\ refusals = DOMAIN tokens \ Accepted(tokens)
DryRunWritesNothing ==
  /\ options.dryRun => importSchema = <<>> /\ importStep \notin {"transaction", "psql", "threw", "gave_up"}
  /\ importStep = "count" => options.dryRun
RunsOnce ==
  /\ importStep \in {"psql", "transaction", "count"} => importSchema = <<>> /\ nextToken \in Nat
  /\ importStep = "psql" => HasCopyBlocks(tokens) /\ counted.errors = 0
  /\ importStep = "transaction" => ~HasCopyBlocks(tokens)
  /\ importStep \in {"threw", "gave_up"} /\ ~HasCopyBlocks(tokens) => importSchema = <<>>
AppliedSoFar ==
  importStep = "transaction" =>
    /\ trx = [applied |-> Chosen(tokens, Wanted \cap 1..(nextToken - 1)), aborted |-> FALSE]
    /\ counted.executed = Cardinality(Wanted \cap 1..(nextToken - 1))
    /\ counted.executed + counted.skipped + counted.errors = nextToken - 1
    /\ counted.errors > 0 <=> Failing \cap 1..(nextToken - 1) # {}
AppliedInTheEnd ==
  importStep \in {"report", "reported"} /\ ~options.dryRun =>
    /\ ~HasCopyBlocks(tokens) =>
         /\ importSchema = Chosen(tokens, Wanted)
         /\ counted.executed = Cardinality(Wanted)
         /\ counted.executed + counted.skipped + counted.errors = Len(tokens)
         /\ counted.errors > 0 <=> Failing # {}
    /\ HasCopyBlocks(tokens) => importSchema = Chosen(Meaning(file), Accepted(Meaning(file)))
CountedInTheEnd ==
  importStep \in {"report", "reported"} /\ options.dryRun =>
    counted.executed + counted.skipped + counted.copies = Len(tokens)
ExitIsOfErrors == importStep = "reported" => (importExit = 1 <=> counted.errors > 0)

ImportInv ==
  /\ ImportTypeOK
  /\ NotRead
  /\ ReadAsSaid
  /\ DryRunWritesNothing
  /\ RunsOnce
  /\ AppliedSoFar
  /\ AppliedInTheEnd
  /\ CountedInTheEnd
  /\ ExitIsOfErrors

\* Positions after all others come last.
LEMMA ChosenAppend ==
  ASSUME NEW s, NEW I, NEW n \in Nat, I \subseteq 1..n
  PROVE  /\ IsFiniteSet(I) /\ IsFiniteSet(I \cup {n + 1})
         /\ Cardinality(I) \in Nat
         /\ Cardinality(I \cup {n + 1}) = Cardinality(I) + 1
         /\ Chosen(s, I \cup {n + 1}) = Append(Chosen(s, I), s[n + 1])
  <1> DEFINE J == I \cup {n + 1}
  <1>1. IsFiniteSet(I) /\ Cardinality(I) \in Nat
    <2>1. IsFiniteSet(1..n)
      BY FS_Interval
    <2> QED
      BY <2>1, FS_Subset, FS_CardinalityType
  <1>2. n + 1 \notin I
    OBVIOUS
  <1>3. IsFiniteSet(J) /\ Cardinality(J) = Cardinality(I) + 1
    BY <1>1, <1>2, FS_AddElement
  <1>4. ASSUME NEW i \in I
        PROVE  {j \in J : j <= i} = {j \in I : j <= i}
    OBVIOUS
  <1>5. {j \in J : j <= n + 1} = J
    <2>1. \A j \in J : j <= n + 1
      OBVIOUS
    <2> QED
      BY <2>1
  <1>6. ASSUME NEW k \in 1..Cardinality(I)
        PROVE  Ranked(J, k) = Ranked(I, k)
    <2>1. ASSUME NEW i \in I
          PROVE  i \in Ranked(J, k) <=> i \in Ranked(I, k)
      BY <1>4 DEF Ranked
    <2>2. n + 1 \notin Ranked(J, k)
      <3>1. Cardinality({j \in J : j <= n + 1}) = Cardinality(I) + 1
        BY <1>5, <1>3
      <3>2. ~(Cardinality(I) + 1 = k)
        BY <1>1
      <3> QED
        BY <3>1, <3>2 DEF Ranked
    <2> QED
      BY <2>1, <2>2, <1>2 DEF Ranked
  <1>7. Ranked(J, Cardinality(I) + 1) = {n + 1}
    <2>1. ASSUME NEW i \in I
          PROVE  i \notin Ranked(J, Cardinality(I) + 1)
      <3>1. {j \in I : j <= i} \subseteq I
        OBVIOUS
      <3>2. Cardinality({j \in I : j <= i}) <= Cardinality(I) /\ Cardinality({j \in I : j <= i}) \in Nat
        BY <3>1, <1>1, FS_Subset, FS_CardinalityType
      <3> QED
        BY <3>2, <1>1, <1>4 DEF Ranked
    <2>2. n + 1 \in Ranked(J, Cardinality(I) + 1)
      BY <1>3, <1>5 DEF Ranked
    <2> QED
      BY <2>1, <2>2 DEF Ranked
  <1> DEFINE e(k) == s[CHOOSE i \in Ranked(I, k) : TRUE]
  <1>8. Chosen(s, J) = [k \in 1..(Cardinality(I) + 1) |-> IF k \in 1..Cardinality(I) THEN e(k) ELSE s[n + 1]]
    <2>1. ASSUME NEW k \in 1..Cardinality(I)
          PROVE  s[CHOOSE i \in Ranked(J, k) : TRUE] = e(k)
      BY <1>6
    <2>2. s[CHOOSE i \in Ranked(J, Cardinality(I) + 1) : TRUE] = s[n + 1]
      BY <1>7
    <2> HIDE DEF e, J
    <2>3. ASSUME NEW k \in 1..(Cardinality(I) + 1)
          PROVE  s[CHOOSE i \in Ranked(J, k) : TRUE] = IF k \in 1..Cardinality(I) THEN e(k) ELSE s[n + 1]
      <3>1. CASE k \in 1..Cardinality(I)
        BY <3>1, <2>1
      <3>2. CASE k \notin 1..Cardinality(I)
        <4>1. k = Cardinality(I) + 1
          BY <3>2, <1>1
        <4> QED
          BY <4>1, <3>2, <2>2
      <3> QED
        BY <3>1, <3>2
    <2> QED
      BY <2>3, <1>3 DEF Chosen
  <1>9. Chosen(s, I) = [k \in 1..Cardinality(I) |-> e(k)]
    BY DEF Chosen
  <1> HIDE DEF e
  <1>10. PICK S : S = {e(k) : k \in 1..Cardinality(I)} \cup {s[n + 1]}
    OBVIOUS
  <1>11. Chosen(s, I) \in Seq(S) /\ Len(Chosen(s, I)) = Cardinality(I)
    BY <1>9, <1>10, <1>1
  <1>12. Append(Chosen(s, I), s[n + 1])
           = [k \in 1..(Cardinality(I) + 1) |-> IF k \in 1..Cardinality(I) THEN e(k) ELSE s[n + 1]]
    BY <1>11, <1>9, <1>1
  <1> QED
    BY <1>1, <1>3, <1>8, <1>12

\* What is chosen is a sequence, and nothing is chosen from no position.
LEMMA ChosenIsSequence ==
  ASSUME NEW s, NEW n \in Nat, NEW I, I \subseteq 1..n
  PROVE  /\ <<>> \o Chosen(s, I) = Chosen(s, I)
         /\ Len(Chosen(s, I)) = Cardinality(I)
         /\ Chosen(s, {}) = <<>> /\ Cardinality({}) = 0
  <1>1. Cardinality(I) \in Nat
    <2>1. IsFiniteSet(1..n)
      BY FS_Interval
    <2> QED
      BY <2>1, FS_Subset, FS_CardinalityType
  <1>2. Cardinality({}) = 0
    BY FS_EmptySet
  <1> DEFINE e(k) == s[CHOOSE i \in Ranked(I, k) : TRUE]
  <1>3. Chosen(s, I) = [k \in 1..Cardinality(I) |-> e(k)]
    BY DEF Chosen
  <1>4. Chosen(s, {}) = <<>>
    BY <1>2 DEF Chosen
  <1> HIDE DEF e
  <1>5. PICK S : S = {e(k) : k \in 1..Cardinality(I)}
    OBVIOUS
  <1>6. Chosen(s, I) \in Seq(S) /\ Len(Chosen(s, I)) = Cardinality(I)
    BY <1>1, <1>3, <1>5
  <1>7. <<>> \o Chosen(s, I) = Chosen(s, I)
    BY <1>6
  <1> QED
    BY <1>2, <1>4, <1>6, <1>7

LEMMA ImportInvInit ==
  ImportInit => ImportInv
  <1> SUFFICES ASSUME ImportInit PROVE ImportInv
    OBVIOUS
  <1> USE DEF ImportInit
  <1>1. ImportTypeOK
    <2>1. tokens = <<>> /\ tokens \in Seq(Tokens) /\ Len(tokens) = 0
      OBVIOUS
    <2>2. nextToken \in 1..(Len(tokens) + 1)
      BY <2>1
    <2>3. counted \in [total : 0..Len(tokens), executed : 0..Len(tokens), skipped : 0..Len(tokens),
                       copies : 0..Len(tokens), errors : 0..Len(tokens)]
      BY <2>1 DEF NoResult
    <2> QED
      BY <2>1, <2>2, <2>3 DEF ImportTypeOK
  <1>2. NotRead /\ ReadAsSaid /\ DryRunWritesNothing /\ RunsOnce /\ AppliedSoFar /\ AppliedInTheEnd
        /\ CountedInTheEnd /\ ExitIsOfErrors
    BY DEF NotRead, ReadAsSaid, DryRunWritesNothing, RunsOnce, AppliedSoFar, AppliedInTheEnd,
           CountedInTheEnd, ExitIsOfErrors
  <1> QED
    BY <1>1, <1>2 DEF ImportInv

\* Statements are skipped, blocks are copied, and none is both.
LEMMA CountsFit ==
  ASSUME NEW ts \in Seq(Tokens)
  PROVE  /\ Len(ts) \in Nat /\ DOMAIN ts = 1..Len(ts)
         /\ Cardinality(Skipped(ts)) \in Nat /\ Cardinality(Blocks(ts)) \in Nat
         /\ Cardinality(Skipped(ts)) + Cardinality(Blocks(ts)) <= Len(ts)
  <1>1. Len(ts) \in Nat /\ DOMAIN ts = 1..Len(ts)
    OBVIOUS
  <1>2. IsFiniteSet(1..Len(ts)) /\ Cardinality(1..Len(ts)) = Len(ts)
    <2>1. PICK n \in Nat : n = Len(ts)
      BY <1>1
    <2>2. PICK c \in Int : c = 1
      OBVIOUS
    <2>3. n \in Int
      OBVIOUS
    <2>4. IsFiniteSet(c..n) /\ Cardinality(c..n) = IF c > n THEN 0 ELSE n - c + 1
      BY <2>3, FS_Interval
    <2> QED
      BY <2>1, <2>2, <2>4
  <1>3. Skipped(ts) \subseteq 1..Len(ts) /\ Blocks(ts) \subseteq 1..Len(ts)
    BY <1>1 DEF Skipped, Blocks
  <1>4. Skipped(ts) \cap Blocks(ts) = {}
    BY DEF Skipped, Blocks, ShouldSkip
  <1>5. IsFiniteSet(Skipped(ts)) /\ IsFiniteSet(Blocks(ts))
    BY <1>2, <1>3, FS_Subset
  <1>6. Cardinality(Skipped(ts) \cup Blocks(ts)) = Cardinality(Skipped(ts)) + Cardinality(Blocks(ts))
    <2>1. Cardinality(Skipped(ts) \cap Blocks(ts)) = 0
      BY <1>4, FS_EmptySet
    <2>2. Cardinality(Skipped(ts)) \in Nat /\ Cardinality(Blocks(ts)) \in Nat
      BY <1>5, FS_CardinalityType
    <2> QED
      <3>1. Cardinality(Skipped(ts) \cup Blocks(ts))
              = Cardinality(Skipped(ts)) + Cardinality(Blocks(ts)) - Cardinality(Skipped(ts) \cap Blocks(ts))
        BY <1>5, FS_Union
      <3> QED
        BY <3>1, <2>1, <2>2
  <1>7. Cardinality(Skipped(ts) \cup Blocks(ts)) <= Len(ts)
    <2>1. Skipped(ts) \cup Blocks(ts) \subseteq 1..Len(ts)
      BY <1>3
    <2> QED
      BY <2>1, <1>2, FS_Subset
  <1>8. Cardinality(Skipped(ts)) \in Nat /\ Cardinality(Blocks(ts)) \in Nat
    BY <1>5, FS_CardinalityType
  <1> QED
    BY <1>1, <1>6, <1>7, <1>8

LEMMA ParsesStep ==
  ASSUME SplitsWhatIsSaid, ImportInv, Parses
  PROVE  ImportInv'
  <1> USE DEF ImportInv
  <1>0. file \in DumpFiles /\ UNCHANGED <<file, options, nextToken, trx, importSchema, importExit>>
    BY DEF Parses, ImportTypeOK
  <1>1. tokens' \in Seq(Tokens) /\ (Understood(file) => tokens' = Meaning(file))
    BY <1>0 DEF Parses, SplitsWhatIsSaid
  <1>2. Len(tokens') \in Nat
    BY <1>1
  <1>r. /\ refusals' \subseteq DOMAIN tokens'
        /\ Understood(file) => refusals' = DOMAIN tokens' \ Accepted(tokens')
    <2>1. refusals' \in IF Understood(file) THEN {DOMAIN tokens' \ Accepted(tokens')}
                        ELSE SUBSET DOMAIN tokens'
      BY DEF Parses
    <2> QED
      BY <2>1
  <1>3. /\ tokens = <<>> /\ importSchema = <<>> /\ counted = NoResult /\ nextToken = 1 /\ trx = NoTrx
        /\ importStep = "command"
    BY DEF Parses, NotRead
  <1>4. counted' = [NoResult EXCEPT !.total = Len(tokens')]
    BY DEF Parses
  <1>5. /\ importStep' \in {"count", "psql", "transaction"}
        /\ importStep' = "count" <=> options.dryRun
        /\ importStep' = "psql" => HasCopyBlocks(tokens')
        /\ importStep' = "transaction" => ~HasCopyBlocks(tokens')
    BY DEF Parses
  <1>6. ImportTypeOK'
    <2>1. counted' \in [total : 0..Len(tokens'), executed : 0..Len(tokens'), skipped : 0..Len(tokens'),
                        copies : 0..Len(tokens'), errors : 0..Len(tokens')]
      BY <1>2, <1>4 DEF NoResult
    <2>2. nextToken' \in 1..(Len(tokens') + 1)
      BY <1>0, <1>2, <1>3
    <2> QED
      BY <1>0, <1>1, <1>r, <1>5, <2>1, <2>2 DEF ImportTypeOK
  <1>7. NotRead' /\ ReadAsSaid' /\ DryRunWritesNothing' /\ RunsOnce'
    BY <1>0, <1>1, <1>r, <1>3, <1>4, <1>5 DEF NotRead, ReadAsSaid, DryRunWritesNothing, RunsOnce, NoResult
  <1>8. AppliedSoFar'
    <2>1. Wanted' \cap 1..(nextToken' - 1) = {} /\ Failing' \cap 1..(nextToken' - 1) = {}
      BY <1>0, <1>3
    <2>2. Chosen(tokens', {}) = <<>> /\ Cardinality({}) = 0
      BY ChosenIsSequence
    <2>3. counted'.executed = 0 /\ counted'.skipped = 0 /\ counted'.errors = 0 /\ trx' = NoTrx /\ nextToken' = 1
      BY <1>0, <1>3, <1>4 DEF NoResult
    <2> QED
      <3>1. trx' = [applied |-> Chosen(tokens', Wanted' \cap 1..(nextToken' - 1)), aborted |-> FALSE]
        BY <2>1, <2>2, <2>3 DEF NoTrx
      <3>2. /\ counted'.executed = Cardinality(Wanted' \cap 1..(nextToken' - 1))
            /\ counted'.executed + counted'.skipped + counted'.errors = nextToken' - 1
            /\ ~(counted'.errors > 0)
        BY <2>1, <2>2, <2>3
      <3> QED
        BY <3>1, <3>2, <2>1 DEF AppliedSoFar
  <1>9. AppliedInTheEnd' /\ CountedInTheEnd' /\ ExitIsOfErrors'
    BY <1>5 DEF AppliedInTheEnd, CountedInTheEnd, ExitIsOfErrors
  <1> QED
    BY <1>6, <1>7, <1>8, <1>9

LEMMA CountsOnlyStep ==
  ASSUME ImportInv, CountsOnly
  PROVE  ImportInv'
  <1> USE DEF ImportInv
  <1>1. /\ UNCHANGED <<file, options, tokens, refusals, nextToken, trx, importSchema, importExit>>
        /\ importStep = "count" /\ importStep' = "report" /\ options.dryRun
    BY DEF CountsOnly, DryRunWritesNothing
  <1>2. PICK n, m \in Nat : n = SkippedCount /\ m = CopyCount /\ n + m <= Len(tokens) /\ Len(tokens) \in Nat
    BY CountsFit DEF ImportTypeOK, SkippedCount, CopyCount
  <1>3. counted' = [counted EXCEPT !.skipped = n, !.copies = m, !.executed = Len(tokens) - n - m]
    BY <1>2 DEF CountsOnly
  <1>4. ImportTypeOK'
    <2>1. Len(tokens) - n - m \in 0..Len(tokens) /\ n \in 0..Len(tokens) /\ m \in 0..Len(tokens)
      BY <1>2
    <2> QED
      BY <1>1, <1>3, <2>1 DEF ImportTypeOK
  <1>5. CountedInTheEnd'
    BY <1>1, <1>2, <1>3 DEF CountedInTheEnd, ImportTypeOK
  <1>6. NotRead' /\ ReadAsSaid' /\ DryRunWritesNothing' /\ RunsOnce' /\ AppliedSoFar' /\ AppliedInTheEnd'
        /\ ExitIsOfErrors'
    BY <1>1 DEF NotRead, ReadAsSaid, DryRunWritesNothing, RunsOnce, AppliedSoFar, AppliedInTheEnd,
       ExitIsOfErrors
  <1> QED
    BY <1>4, <1>5, <1>6

LEMMA EachStatementStep ==
  ASSUME ImportInv, EachStatement
  PROVE  ImportInv'
  <1> USE DEF ImportInv
  <1>1. /\ UNCHANGED <<file, options, importStep, tokens, refusals, importSchema, importExit>>
        /\ importStep = "transaction" /\ nextToken <= Len(tokens) /\ nextToken' = nextToken + 1
        /\ ~options.dryRun
    BY DEF EachStatement, DryRunWritesNothing
  <1>2. tokens \in Seq(Tokens) /\ Len(tokens) \in Nat /\ DOMAIN tokens = 1..Len(tokens)
        /\ refusals \subseteq DOMAIN tokens
    BY DEF ImportTypeOK
  <1>3. PICK n \in Nat : n = nextToken - 1 /\ nextToken = n + 1 /\ n + 1 <= Len(tokens)
    BY <1>1, <1>2 DEF ImportTypeOK
  <1> DEFINE W == Wanted  F == Failing
             W0 == W \cap 1..n    F0 == F \cap 1..n
             W1 == W \cap 1..(n + 1)  F1 == F \cap 1..(n + 1)
  <1>4. /\ trx = [applied |-> Chosen(tokens, W0), aborted |-> FALSE]
        /\ counted.executed = Cardinality(W0)
        /\ counted.executed + counted.skipped + counted.errors = n
        /\ counted.errors > 0 <=> F0 # {}
    BY <1>1, <1>3 DEF AppliedSoFar
  <1>5. /\ counted.executed \in Nat /\ counted.skipped \in Nat /\ counted.errors \in Nat
        /\ counted.total \in 0..Len(tokens) /\ counted.copies \in 0..Len(tokens)
        /\ counted = [total |-> counted.total, executed |-> counted.executed, skipped |-> counted.skipped,
                      copies |-> counted.copies, errors |-> counted.errors]
    BY <1>2 DEF ImportTypeOK
  <1>6. /\ Cardinality(W0) \in Nat /\ Cardinality(W0 \cup {n + 1}) = Cardinality(W0) + 1
        /\ Chosen(tokens, W0 \cup {n + 1}) = Append(Chosen(tokens, W0), tokens[n + 1])
    <2>1. W0 \subseteq 1..n
      OBVIOUS
    <2> QED
      BY <2>1, ChosenAppend
  <1>7. n + 1 \in DOMAIN tokens /\ 1..(n + 1) = 1..n \cup {n + 1}
    BY <1>2, <1>3
  \* What the step has done, whichever of the three it is.
  <1>8. ASSUME NEW a \in Nat, NEW b \in Nat, NEW c \in Nat, a + b + c = n + 1,
               counted' = [total |-> counted.total, executed |-> a, skipped |-> b,
                           copies |-> counted.copies, errors |-> c],
               trx' = [applied |-> Chosen(tokens, W1), aborted |-> FALSE], a = Cardinality(W1),
               c > 0 <=> F1 # {}
        PROVE  ImportInv'
    <2>1. counted' = [total |-> counted.total, executed |-> a, skipped |-> b, copies |-> counted.copies,
                      errors |-> c]
      BY <1>8
    <2>2. a \in 0..Len(tokens) /\ b \in 0..Len(tokens) /\ c \in 0..Len(tokens)
      BY <1>8, <1>2, <1>3
    <2>3. nextToken' \in 1..(Len(tokens) + 1) /\ nextToken' - 1 = n + 1 /\ nextToken' \in Nat
      BY <1>1, <1>2, <1>3
    <2>4. ImportTypeOK'
      <3>1. counted' \in [total : 0..Len(tokens), executed : 0..Len(tokens), skipped : 0..Len(tokens),
                          copies : 0..Len(tokens), errors : 0..Len(tokens)]
        BY <2>1, <2>2, <1>5
      <3> QED
        BY <3>1, <1>1, <2>3 DEF ImportTypeOK
    <2>5. AppliedSoFar'
      <3>1. /\ trx' = [applied |-> Chosen(tokens', Wanted' \cap 1..(nextToken' - 1)),
                       aborted |-> FALSE]
            /\ counted'.executed = Cardinality(Wanted' \cap 1..(nextToken' - 1))
            /\ counted'.executed + counted'.skipped + counted'.errors = nextToken' - 1
            /\ counted'.errors > 0 <=> Failing' \cap 1..(nextToken' - 1) # {}
        <4>1. tokens' = tokens /\ Wanted' = W /\ Failing' = F
          BY <1>1 DEF Wanted, Failing
        <4>2. counted'.executed = a /\ counted'.skipped = b /\ counted'.errors = c
          BY <2>1
        <4> QED
          BY <4>1, <4>2, <1>8, <2>3
      <3> QED
        BY <3>1 DEF AppliedSoFar
    <2>6. NotRead' /\ ReadAsSaid' /\ DryRunWritesNothing' /\ AppliedInTheEnd' /\ CountedInTheEnd' /\ ExitIsOfErrors'
      BY <1>1 DEF NotRead, ReadAsSaid, DryRunWritesNothing, AppliedInTheEnd, CountedInTheEnd, ExitIsOfErrors
    <2>7. RunsOnce'
      BY <1>1, <2>3 DEF RunsOnce
    <2> QED
      BY <2>4, <2>5, <2>6, <2>7
  <1>9. CASE ShouldSkip(tokens[n + 1])
    <2>1. trx' = trx /\ counted' = [counted EXCEPT !.skipped = counted.skipped + 1]
      BY <1>3, <1>9 DEF EachStatement
    <2>2. counted' = [total |-> counted.total, executed |-> counted.executed, skipped |-> counted.skipped + 1,
                      copies |-> counted.copies, errors |-> counted.errors]
      BY <2>1, <1>5
    <2>3. W1 = W0 /\ F1 = F0
      <3>1. n + 1 \notin W /\ n + 1 \notin F
        BY <1>7, <1>9 DEF Wanted, Failing, Skipped
      <3> QED
        BY <3>1, <1>7
    <2>4. trx' = trx
      BY <2>1
    <2>5. PICK a \in Nat, b \in Nat, c \in Nat : a = counted.executed /\ b = counted.skipped + 1 /\ c = counted.errors
      BY <1>5
    <2>6. a + b + c = n + 1 /\ a = Cardinality(W1) /\ (c > 0 <=> F1 # {})
      <3>1. a + b + c = n + 1
        BY <2>5, <1>4, <1>5
      <3>2. a = Cardinality(W1)
        BY <2>3, <2>4, <2>5, <1>4, <1>6
      <3>3. c > 0 <=> F1 # {}
        BY <2>3, <2>4, <2>5, <1>4, <1>5
      <3> QED
        BY <3>1, <3>2, <3>3
    <2>7. counted' = [total |-> counted.total, executed |-> a, skipped |-> b,
                      copies |-> counted.copies, errors |-> c]
      BY <2>2, <2>5
    <2>8. trx' = [applied |-> Chosen(tokens, W1), aborted |-> FALSE]
      BY <2>1, <2>2, <2>3, <2>4, <1>4
    <2> HIDE DEF W1, F1
    <2> QED
      BY <2>6, <2>7, <2>8, <1>8
  <1>10. CASE ~ShouldSkip(tokens[n + 1]) /\ n + 1 \in refusals
    <2>1. /\ trx' = RollbackToSavepoint([trx EXCEPT !.aborted = TRUE], trx)
          /\ counted' = [counted EXCEPT !.errors = counted.errors + 1]
      <3>1. Execution(trx, nextToken) = [trx EXCEPT !.aborted = TRUE]
        BY <1>3, <1>10 DEF Execution
      <3>2. [trx EXCEPT !.aborted = TRUE].aborted
        BY <1>4
      <3> QED
        BY <3>1, <3>2, <1>3, <1>10 DEF EachStatement
    <2>2. trx' = trx
      BY <2>1 DEF RollbackToSavepoint
    <2>3. counted' = [total |-> counted.total, executed |-> counted.executed, skipped |-> counted.skipped,
                      copies |-> counted.copies, errors |-> counted.errors + 1]
      BY <2>1, <1>5
    <2>4. W1 = W0 /\ n + 1 \in F1
      <3>1. n + 1 \notin W /\ n + 1 \in F
        BY <1>7, <1>10 DEF Wanted, Failing, Skipped
      <3> QED
        BY <3>1, <1>7
    <2>5. PICK a \in Nat, b \in Nat, c \in Nat : a = counted.executed /\ b = counted.skipped /\ c = counted.errors + 1
      BY <1>5
    <2>6. a + b + c = n + 1 /\ a = Cardinality(W1) /\ (c > 0 <=> F1 # {})
      <3>1. a + b + c = n + 1
        BY <2>5, <1>4, <1>5
      <3>2. a = Cardinality(W1)
        BY <2>3, <2>4, <2>5, <1>4, <1>6
      <3>3. c > 0 <=> F1 # {}
        BY <2>3, <2>4, <2>5, <1>4, <1>5
      <3> QED
        BY <3>1, <3>2, <3>3
    <2>7. counted' = [total |-> counted.total, executed |-> a, skipped |-> b,
                      copies |-> counted.copies, errors |-> c]
      BY <2>3, <2>5
    <2>8. trx' = [applied |-> Chosen(tokens, W1), aborted |-> FALSE]
      BY <2>1, <2>2, <2>3, <2>4, <1>4
    <2> HIDE DEF W1, F1
    <2> QED
      BY <2>6, <2>7, <2>8, <1>8
  <1>11. CASE ~ShouldSkip(tokens[n + 1]) /\ n + 1 \notin refusals
    <2>1. trx' = [trx EXCEPT !.applied = Append(trx.applied, tokens[n + 1])]
          /\ counted' = [counted EXCEPT !.executed = counted.executed + 1]
      <3>1. Execution(trx, nextToken) = [trx EXCEPT !.applied = Append(trx.applied, tokens[n + 1])]
        BY <1>3, <1>4, <1>11 DEF Execution
      <3>2. ~[trx EXCEPT !.applied = Append(trx.applied, tokens[n + 1])].aborted
        BY <1>4
      <3> QED
        BY <3>1, <3>2, <1>3, <1>11 DEF EachStatement
    <2>2. counted' = [total |-> counted.total, executed |-> counted.executed + 1, skipped |-> counted.skipped,
                      copies |-> counted.copies, errors |-> counted.errors]
      BY <2>1, <1>5
    <2>3. W1 = W0 \cup {n + 1} /\ F1 = F0
      <3>1. n + 1 \in W /\ n + 1 \notin F
        BY <1>7, <1>11 DEF Wanted, Failing, Skipped
      <3> QED
        BY <3>1, <1>7
    <2>4. trx' = [applied |-> Chosen(tokens, W1), aborted |-> FALSE]
      BY <2>1, <2>3, <1>4, <1>6
    <2>5. PICK a \in Nat, b \in Nat, c \in Nat : a = counted.executed + 1 /\ b = counted.skipped /\ c = counted.errors
      BY <1>5
    <2>6. a + b + c = n + 1 /\ a = Cardinality(W1) /\ (c > 0 <=> F1 # {})
      <3>1. a + b + c = n + 1
        BY <2>5, <1>4, <1>5
      <3>2. a = Cardinality(W1)
        BY <2>3, <2>4, <2>5, <1>4, <1>6
      <3>3. c > 0 <=> F1 # {}
        BY <2>3, <2>4, <2>5, <1>4, <1>5
      <3> QED
        BY <3>1, <3>2, <3>3
    <2>7. counted' = [total |-> counted.total, executed |-> a, skipped |-> b,
                      copies |-> counted.copies, errors |-> c]
      BY <2>2, <2>5
    <2>8. trx' = [applied |-> Chosen(tokens, W1), aborted |-> FALSE]
      BY <2>1, <2>2, <2>3, <2>4, <1>4
    <2> HIDE DEF W1, F1
    <2> QED
      BY <2>6, <2>7, <2>8, <1>8
  <1> QED
    BY <1>9, <1>10, <1>11

LEMMA CommitsStep ==
  ASSUME ImportInv, Commits
  PROVE  ImportInv'
  <1> USE DEF ImportInv
  <1>1. /\ UNCHANGED <<file, options, tokens, refusals, nextToken, counted, importExit>>
        /\ importStep = "transaction" /\ importStep' = "report" /\ nextToken > Len(tokens)
        /\ ~options.dryRun /\ importSchema = <<>> /\ ~HasCopyBlocks(tokens)
    BY DEF Commits, DryRunWritesNothing, RunsOnce
  <1>2. tokens \in Seq(Tokens) /\ Len(tokens) \in Nat /\ DOMAIN tokens = 1..Len(tokens)
        /\ refusals \subseteq DOMAIN tokens
    BY DEF ImportTypeOK
  <1>3. nextToken - 1 = Len(tokens)
    BY <1>1, <1>2 DEF ImportTypeOK
  <1> DEFINE W == Wanted  F == Failing
  <1>4. W \subseteq 1..Len(tokens) /\ F \subseteq 1..Len(tokens)
    BY <1>2 DEF Wanted, Failing
  <1>5. W \cap 1..(nextToken - 1) = W /\ F \cap 1..(nextToken - 1) = F
    BY <1>3, <1>4
  <1>6. /\ trx = [applied |-> Chosen(tokens, W), aborted |-> FALSE]
        /\ counted.executed = Cardinality(W)
        /\ counted.executed + counted.skipped + counted.errors = Len(tokens)
        /\ counted.errors > 0 <=> F # {}
    BY <1>1, <1>3, <1>5 DEF AppliedSoFar
  <1>7. importSchema' = Chosen(tokens, W)
    <2>1. importSchema' = <<>> \o Chosen(tokens, W)
      BY <1>1, <1>6 DEF Commits
    <2> QED
      BY <2>1, <1>2, <1>4, ChosenIsSequence
  <1>8. ImportTypeOK'
    BY <1>1 DEF ImportTypeOK
  <1>9. AppliedInTheEnd'
    <2> HIDE DEF W, F
    <2>1. /\ importSchema' = Chosen(tokens', W)
          /\ counted'.executed = Cardinality(W)
          /\ counted'.executed + counted'.skipped + counted'.errors = Len(tokens')
          /\ counted'.errors > 0 <=> F # {}
          /\ ~HasCopyBlocks(tokens')
      BY <1>1, <1>6, <1>7
    <2>2. W = Wanted' /\ F = Failing'
      BY <1>1 DEF W, F, Wanted, Failing
    <2> QED
      BY <2>1, <2>2 DEF AppliedInTheEnd
  <1>10. NotRead' /\ ReadAsSaid' /\ DryRunWritesNothing' /\ RunsOnce' /\ AppliedSoFar' /\ CountedInTheEnd'
         /\ ExitIsOfErrors'
    BY <1>1 DEF NotRead, ReadAsSaid, DryRunWritesNothing, RunsOnce, AppliedSoFar, CountedInTheEnd, ExitIsOfErrors
  <1> QED
    BY <1>8, <1>9, <1>10

LEMMA RunsPsqlStep ==
  ASSUME SplitsWhatIsSaid, ImportInv, RunsPsql
  PROVE  ImportInv'
  <1> USE DEF ImportInv
  <1>1. /\ UNCHANGED <<file, options, tokens, refusals, nextToken, trx, importExit>>
        /\ importStep = "psql" /\ ~options.dryRun /\ importSchema = <<>> /\ HasCopyBlocks(tokens)
        /\ counted.errors = 0
    BY DEF RunsPsql, DryRunWritesNothing, RunsOnce
  <1>2. /\ tokens \in Seq(Tokens) /\ Len(tokens) \in Nat /\ DOMAIN tokens = 1..Len(tokens)
        /\ Meaning(file) \in Seq(Tokens)
    BY DEF ImportTypeOK, SplitsWhatIsSaid
  <1>3. NotRead' /\ ReadAsSaid' /\ AppliedSoFar' /\ CountedInTheEnd' /\ ExitIsOfErrors'
    BY <1>1 DEF RunsPsql, NotRead, ReadAsSaid, AppliedSoFar, CountedInTheEnd, ExitIsOfErrors
  <1>4. CASE options.psql
    <2>1. importStep' = "report" /\ importSchema' = <<>> \o Chosen(Meaning(file), Accepted(Meaning(file)))
      BY <1>1, <1>4 DEF RunsPsql
    <2>2. PICK n, m \in Nat : n = SkippedCount /\ m = CopyCount /\ n + m <= Len(tokens)
      BY <1>2, CountsFit DEF SkippedCount, CopyCount
    <2>3. counted' = [counted EXCEPT !.copies = m, !.skipped = n, !.executed = Len(tokens) - n]
      BY <1>4, <2>2 DEF RunsPsql
    <2>4. importSchema' = Chosen(Meaning(file), Accepted(Meaning(file)))
      <3>1. PICK k \in Nat : k = Len(Meaning(file))
        BY <1>2
      <3>2. Accepted(Meaning(file)) \subseteq 1..k
        BY <1>2, <3>1 DEF Accepted
      <3> QED
        BY <3>2, <2>1, ChosenIsSequence
    <2>5. ImportTypeOK'
      <3>1. Len(tokens) - n \in 0..Len(tokens) /\ n \in 0..Len(tokens) /\ m \in 0..Len(tokens)
        BY <2>2, <1>2
      <3> QED
        BY <1>1, <2>1, <2>3, <3>1 DEF ImportTypeOK
    <2>6. AppliedInTheEnd' /\ DryRunWritesNothing' /\ RunsOnce'
      BY <1>1, <2>1, <2>4 DEF AppliedInTheEnd, DryRunWritesNothing, RunsOnce
    <2> QED
      BY <1>3, <2>5, <2>6
  <1>5. CASE ~options.psql
    <2>1. importStep' = "threw" /\ importSchema' = importSchema /\ counted' = counted
      BY <1>1, <1>5 DEF RunsPsql
    <2>2. ImportTypeOK'
      BY <1>1, <2>1 DEF ImportTypeOK
    <2>3. AppliedInTheEnd' /\ DryRunWritesNothing' /\ RunsOnce'
      BY <1>1, <2>1 DEF AppliedInTheEnd, DryRunWritesNothing, RunsOnce
    <2> QED
      BY <1>3, <2>2, <2>3
  <1> QED
    BY <1>4, <1>5

LEMMA GivesUpStep ==
  ASSUME ImportInv, ConnectionLost \/ PsqlDies
  PROVE  ImportInv'
  <1> USE DEF ImportInv
  <1>1. /\ UNCHANGED <<file, options, tokens, refusals, nextToken, counted, importExit>>
        /\ importStep \in {"transaction", "psql"} /\ importStep' = "threw" /\ ~options.dryRun
        /\ importStep = "transaction" => importSchema' = <<>>
        /\ importStep = "psql" => HasCopyBlocks(tokens)
    BY DEF ConnectionLost, PsqlDies, DryRunWritesNothing, RunsOnce
  <1>2. ImportTypeOK'
    BY <1>1 DEF ImportTypeOK
  <1>3. DryRunWritesNothing' /\ RunsOnce'
    BY <1>1 DEF DryRunWritesNothing, RunsOnce
  <1>4. NotRead' /\ ReadAsSaid' /\ AppliedSoFar' /\ AppliedInTheEnd' /\ CountedInTheEnd' /\ ExitIsOfErrors'
    BY <1>1 DEF NotRead, ReadAsSaid, AppliedSoFar, AppliedInTheEnd, CountedInTheEnd, ExitIsOfErrors
  <1> QED
    BY <1>2, <1>3, <1>4

LEMMA ReportsStep ==
  ASSUME ImportInv, Reports
  PROVE  ImportInv'
  <1> USE DEF ImportInv
  <1>1. /\ UNCHANGED <<file, options, tokens, refusals, nextToken, trx, importSchema, counted>>
        /\ importStep \in {"report", "threw"} /\ importExit' \in {0, 1}
        /\ importStep = "report" => importStep' = "reported" /\ (importExit' = 1 <=> counted.errors > 0)
        /\ importStep = "threw" => importStep' = "gave_up"
    BY DEF Reports
  <1>2. ImportTypeOK'
    BY <1>1 DEF ImportTypeOK
  <1>3. DryRunWritesNothing' /\ RunsOnce' /\ ExitIsOfErrors'
    BY <1>1 DEF DryRunWritesNothing, RunsOnce, ExitIsOfErrors
  <1>4. NotRead' /\ ReadAsSaid' /\ AppliedSoFar' /\ CountedInTheEnd'
    BY <1>1 DEF NotRead, ReadAsSaid, AppliedSoFar, CountedInTheEnd
  <1>5. AppliedInTheEnd'
    BY <1>1 DEF AppliedInTheEnd, Wanted, Failing
  <1> QED
    BY <1>2, <1>3, <1>4, <1>5

LEMMA RefusesTenantStep ==
  ASSUME ImportInv, RefusesTenant
  PROVE  ImportInv'
  <1> USE DEF ImportInv
  <1>1. /\ UNCHANGED <<file, options, tokens, refusals, nextToken, trx, importSchema, counted>>
        /\ importStep = "command" /\ importStep' = "refused" /\ importExit' = 1
    BY DEF RefusesTenant
  <1>2. ImportTypeOK'
    BY <1>1 DEF ImportTypeOK
  <1>3. NotRead' /\ ReadAsSaid' /\ DryRunWritesNothing' /\ RunsOnce' /\ AppliedSoFar' /\ AppliedInTheEnd'
        /\ CountedInTheEnd' /\ ExitIsOfErrors'
    BY <1>1 DEF NotRead, ReadAsSaid, DryRunWritesNothing, RunsOnce, AppliedSoFar, AppliedInTheEnd,
       CountedInTheEnd, ExitIsOfErrors
  <1> QED
    BY <1>2, <1>3

LEMMA ImportInvStep ==
  ASSUME SplitsWhatIsSaid, ImportInv, [ImportNext]_import
  PROVE  ImportInv'
  <1>1. CASE UNCHANGED import
    BY <1>1 DEF import, ImportInv, ImportTypeOK, NotRead, ReadAsSaid, DryRunWritesNothing, RunsOnce, AppliedSoFar,
       AppliedInTheEnd, CountedInTheEnd, ExitIsOfErrors, Wanted, Failing
  <1> QED
    BY <1>1, ParsesStep, CountsOnlyStep, EachStatementStep, CommitsStep, RunsPsqlStep, GivesUpStep, ReportsStep,
       RefusesTenantStep DEF ImportNext

\* The invariant says what the property asks, token by token.
LEMMA ImportInvApplies ==
  ImportInv => AppliesTheDump
  <1> SUFFICES ASSUME ImportInv PROVE AppliesTheDump
    OBVIOUS
  <1> USE DEF ImportInv
  <1>1. tokens \in Seq(Tokens) /\ Len(tokens) \in Nat /\ DOMAIN tokens = 1..Len(tokens)
    BY DEF ImportTypeOK
  <1>2. Wanted \subseteq 1..Len(tokens)
    BY <1>1 DEF Wanted
  <1>3. Len(Chosen(tokens, Wanted)) = Cardinality(Wanted)
    BY <1>1, <1>2, ChosenIsSequence
  <1>5. CASE importStep \in {"command", "refused"}
    BY <1>5 DEF AppliesTheDump, NotRead
  <1>6. CASE importStep \notin {"command", "refused"}
    <2>1. Understood(file) => tokens = Meaning(file) /\ refusals = DOMAIN tokens \ Accepted(tokens)
      BY <1>6 DEF ReadAsSaid
    <2>2. importStep = "reported" /\ ~options.dryRun /\ ~HasCopyBlocks(tokens) =>
            /\ importSchema = Chosen(tokens, Wanted)
            /\ counted.executed = Len(Chosen(tokens, Wanted))
            /\ counted.executed + counted.skipped + counted.errors = Len(tokens)
            /\ importExit = 1 <=> Failing # {}
      BY <1>3 DEF AppliedInTheEnd, ExitIsOfErrors
    <2>3. /\ importStep = "reported" /\ ~options.dryRun /\ HasCopyBlocks(tokens) =>
               importSchema = Chosen(Meaning(file), Accepted(Meaning(file)))
          /\ importStep = "reported" /\ options.dryRun =>
               counted.executed + counted.skipped + counted.copies = Len(tokens)
          /\ options.dryRun \/ (importStep \in {"threw", "gave_up"} /\ ~HasCopyBlocks(tokens)) =>
               importSchema = <<>>
      BY DEF AppliedInTheEnd, CountedInTheEnd, DryRunWritesNothing, RunsOnce
    <2> QED
      BY <1>6, <2>1, <2>2, <2>3 DEF AppliesTheDump, Wanted, Failing
  <1> QED
    BY <1>5, <1>6

\* The type invariant of the import.
THEOREM ImportTypes ==
  ASSUME SplitsWhatIsSaid
  PROVE  ImportSpec => []ImportTypeOK
  <1>1. ImportInit => ImportInv
    BY ImportInvInit
  <1>2. ImportInv /\ [ImportNext]_import => ImportInv'
    BY ImportInvStep
  <1>3. ImportInv => ImportTypeOK
    BY DEF ImportInv
  <1> QED
    BY <1>1, <1>2, <1>3, PTL DEF ImportSpec

\* What is reported as imported is in the schema, once the name of the dump's schema is
\* replaced, as the dump says it where the scanner understands it, and otherwise as the
\* scanner cuts it: whatever the dump, and whatever the database refuses.  Assumed is, and
\* evaluated over the bounded dumps, that the scanner makes of a dump it understands what
\* the dump says (sql_import_service.ts, sql_splitter.ts).
THEOREM ImportAppliesTheDump ==
  ASSUME SplitsWhatIsSaid
  PROVE  ImportSpec => []AppliesTheDump
  <1>1. ImportInit => ImportInv
    BY ImportInvInit
  <1>2. ImportInv /\ [ImportNext]_import => ImportInv'
    BY ImportInvStep
  <1>3. ImportInv => AppliesTheDump
    BY ImportInvApplies
  <1> QED
    BY <1>1, <1>2, <1>3, PTL DEF ImportSpec

(***************************************************************************)
(*                           A state logs in once                          *)
(***************************************************************************)

\* The callback has taken its state out of Redis and has not ended.
Holds(c) == callback[c].pc \in {"config", "discover", "exchange", "verify"}

\* A state that is still in Redis has logged nobody in.
StoredIsFresh ==
  \A s \in States :
    /\ issued[s] = Absent => stored[s] = Absent /\ logins[s] = << >>
    /\ stored[s] # Absent => stored[s] = issued[s].tenant /\ logins[s] = << >>

\* A callback that has taken a state is alone with it: GETDEL gave it to no other.
HeldIsFresh ==
  \A c \in Callbacks :
    Holds(c) => /\ issued[callback[c].state] # Absent
                /\ stored[callback[c].state] = Absent
                /\ logins[callback[c].state] = << >>
                /\ callback[c].tenant = issued[callback[c].state].tenant

HeldByOne ==
  \A c, d \in Callbacks :
    Holds(c) /\ Holds(d) /\ c # d => callback[c].state # callback[d].state

LoginInv == StoredIsFresh /\ HeldIsFresh /\ HeldByOne /\ OneLoginPerState

-----------------------------------------------------------------------------
(* Types *)

\* A callback that has read the configuration.
Late == [pc : {"discover", "exchange", "verify"}, state : States, code : States,
         tenant : SsoTenants, issuer : Issuers]

LEMMA CallbackType ==
  ASSUME SsoTypeOK, NEW c \in Callbacks
  PROVE  /\ callback[c].pc = "take" \/ Holds(c) => callback[c].state \in States /\ callback[c].code \in States
         /\ Holds(c) => callback[c].tenant \in SsoTenants
         /\ callback[c].pc \in {"discover", "exchange", "verify"} => callback[c] \in Late
  <1>1. CASE callback[c] = NoCallback
    BY <1>1 DEF NoCallback, Holds
  <1>2. CASE callback[c] \in [pc : {"take"}, state : States, code : States]
    BY <1>2 DEF Holds
  <1>3. CASE callback[c] \in [pc : {"config"}, state : States, code : States, tenant : SsoTenants]
    BY <1>3 DEF Holds
  <1>4. CASE callback[c] \in Late
    BY <1>4 DEF Holds, Late
  <1>5. callback[c] \in Callback \cup {NoCallback}
    BY DEF SsoTypeOK
  <1> QED
    BY <1>1, <1>2, <1>3, <1>4, <1>5, Zenon DEF Callback, Late

LEMMA LoginTypesStart == SsoAssumption /\ SsoInit => SsoTypeOK
  <1> SUFFICES ASSUME SsoAssumption, SsoInit PROVE SsoTypeOK
    OBVIOUS
  <1>1. [issuer : Issuers, enabled : {TRUE}] \subseteq Config
    BY DEF Config
  <1>2. ssoConfig \in [SsoTenants -> Config \cup {Absent}]
    BY <1>1 DEF SsoInit
  <1> QED
    BY <1>2 DEF SsoAssumption, SsoInit, SsoTypeOK

LEMMA TypeOfLogins ==
  ASSUME SsoTypeOK,
         \/ \E s \in States : StateExpires(s) \/ \E t \in SsoTenants : BuildAuthUrl(s, t)
         \/ \E i \in Issuers : DiscoveryExpires(i)
  PROVE  SsoTypeOK'
  <1>1. ASSUME NEW s \in States, NEW t \in SsoTenants, BuildAuthUrl(s, t) PROVE SsoTypeOK'
    <2>1. ssoConfig[t].issuer \in Issuers
      BY <1>1 DEF BuildAuthUrl, Enabled, SsoTypeOK, Config
    <2> QED
      BY <1>1, <2>1 DEF BuildAuthUrl, SsoTypeOK
  <1>2. ASSUME NEW s \in States, StateExpires(s) PROVE SsoTypeOK'
    BY <1>2 DEF StateExpires, SsoTypeOK
  <1>3. ASSUME NEW i \in Issuers, DiscoveryExpires(i) PROVE SsoTypeOK'
    BY <1>3 DEF DiscoveryExpires, SsoTypeOK
  <1> QED
    BY <1>1, <1>2, <1>3

LEMMA TypeOfEdits ==
  ASSUME SsoAssumption, SsoTypeOK, NEW t \in SsoTenants,
         Disable(t) \/ \E i \in Issuers : Upsert(t, i)
  PROVE  SsoTypeOK'
  <1>1. edits' \in 0 .. MaxEdits
    BY DEF SsoAssumption, SsoTypeOK, Disable, Upsert, Edits
  <1>2. ssoConfig' \in [SsoTenants -> Config \cup {Absent}]
    <2>1. CASE Disable(t)
      <3>1. ssoConfig[t] \in Config
        BY <2>1 DEF Disable, SsoTypeOK
      <3>2. [ssoConfig[t] EXCEPT !.enabled = FALSE] \in Config
        BY <3>1 DEF Config
      <3> QED
        BY <2>1, <3>2 DEF Disable, SsoTypeOK
    <2>2. ASSUME NEW i \in Issuers, Upsert(t, i)
          PROVE  ssoConfig' \in [SsoTenants -> Config \cup {Absent}]
      BY <2>2 DEF Upsert, SsoTypeOK, Config
    <2> QED
      BY <2>1, <2>2
  <1> QED
    BY <1>1, <1>2 DEF SsoTypeOK, Disable, Upsert

\* A callback that is given a value of its type, and nothing else written but what
\* the step says.
LEMMA CallbackBecomes ==
  ASSUME SsoTypeOK, NEW c \in Callbacks, NEW x \in Callback \cup {NoCallback},
         callback' = [callback EXCEPT ![c] = x]
  PROVE  callback' \in [Callbacks -> Callback \cup {NoCallback}]
  BY DEF SsoTypeOK

LEMMA TypeOfCallbacks ==
  ASSUME SsoTypeOK, NEW c \in Callbacks,
         \/ \E s, x \in States : CallbackArrives(c, s, x)
         \/ TakesState(c) \/ InvalidState(c) \/ ReadsConfig(c)
         \/ Discovers(c) \/ Exchanges(c) \/ Verifies(c)
  PROVE  SsoTypeOK'
  <1>1. ASSUME NEW s \in States, NEW x \in States, CallbackArrives(c, s, x) PROVE SsoTypeOK'
    <2>1. [pc |-> "take", state |-> s, code |-> x] \in Callback
      BY DEF Callback
    <2> QED
      BY <1>1, <2>1, CallbackBecomes DEF CallbackArrives, SsoTypeOK
  <1>2. CASE TakesState(c)
    <2>1. [pc |-> "config", state |-> callback[c].state, code |-> callback[c].code,
           tenant |-> stored[callback[c].state]] \in Callback
      BY <1>2, CallbackType DEF TakesState, Callback, SsoTypeOK
    <2> QED
      BY <1>2, <2>1, CallbackBecomes, CallbackType DEF TakesState, SsoTypeOK
  <1>3. CASE InvalidState(c)
    BY <1>3, CallbackBecomes DEF InvalidState, CallbackEnds, SsoTypeOK
  <1>4. CASE ReadsConfig(c)
    <2>1. CASE Enabled(callback[c].tenant)
      <3>1. ssoConfig[callback[c].tenant].issuer \in Issuers
        BY <1>4, <2>1, CallbackType DEF ReadsConfig, Enabled, SsoTypeOK, Config, Holds
      <3>2. [pc |-> "discover", state |-> callback[c].state, code |-> callback[c].code,
             tenant |-> callback[c].tenant, issuer |-> ssoConfig[callback[c].tenant].issuer] \in Callback
        BY <1>4, <3>1, CallbackType DEF ReadsConfig, Callback, Holds
      <3> QED
        BY <1>4, <2>1, <3>2, CallbackBecomes DEF ReadsConfig, SsoTypeOK
    <2>2. CASE ~Enabled(callback[c].tenant)
      BY <1>4, <2>2, CallbackBecomes DEF ReadsConfig, CallbackEnds, SsoTypeOK
    <2> QED
      BY <2>1, <2>2
  <1>5. CASE Discovers(c)
    <2>1. callback[c].issuer \in Issuers /\ [callback[c] EXCEPT !.pc = "exchange"] \in Callback
      BY <1>5, CallbackType DEF Discovers, Late, Callback
    <2> QED
      BY <1>5, <2>1, CallbackBecomes DEF Discovers, CallbackEnds, SsoTypeOK
  <1>6. CASE Exchanges(c)
    <2>1. [callback[c] EXCEPT !.pc = "verify"] \in Callback
      BY <1>6, CallbackType DEF Exchanges, Late, Callback
    <2> QED
      BY <1>6, <2>1, CallbackBecomes DEF Exchanges, CallbackEnds, SsoTypeOK
  <1>7. CASE Verifies(c)
    <2>1. logins' \in [States -> Seq(SsoTenants)]
      BY <1>7, CallbackType DEF Verifies, SsoTypeOK, Holds
    <2> QED
      BY <1>7, <2>1, CallbackBecomes DEF Verifies, CallbackEnds, SsoTypeOK
  <1> QED
    BY <1>1, <1>2, <1>3, <1>4, <1>5, <1>6, <1>7

LEMMA LoginTypesStep == SsoAssumption /\ SsoTypeOK /\ [SsoNext]_ssoVars => SsoTypeOK'
  <1> SUFFICES ASSUME SsoAssumption, SsoTypeOK, [SsoNext]_ssoVars PROVE SsoTypeOK'
    OBVIOUS
  <1>1. CASE UNCHANGED ssoVars
    BY <1>1 DEF ssoVars, SsoTypeOK
  <1> QED
    BY <1>1, TypeOfLogins, TypeOfEdits, TypeOfCallbacks DEF SsoNext

-----------------------------------------------------------------------------
(* Logins *)

LEMMA LoginInit == SsoInit => LoginInv
  BY DEF SsoInit, LoginInv, StoredIsFresh, HeldIsFresh, HeldByOne, OneLoginPerState,
         Holds, NoCallback

\* A callback that goes on with the state it has taken, or ends.
LEMMA LoginGoesOn ==
  ASSUME LoginInv, UNCHANGED <<stored, issued, logins>>, NEW c \in Callbacks,
         \A d \in Callbacks \ {c} : callback'[d] = callback[d],
         Holds(c)' => Holds(c) /\ callback'[c].state = callback[c].state
                               /\ callback'[c].tenant = callback[c].tenant
  PROVE  LoginInv'
  BY DEF LoginInv, StoredIsFresh, HeldIsFresh, HeldByOne, OneLoginPerState, Holds

LEMMA LoginBegins ==
  ASSUME SsoAssumption, SsoTypeOK, LoginInv, NEW s \in States, NEW t \in SsoTenants,
         BuildAuthUrl(s, t)
  PROVE  LoginInv'
  <1>1. /\ issued[s] = Absent /\ stored'[s] = t /\ issued'[s].tenant = t
        /\ issued'[s] # Absent /\ logins[s] = << >>
        /\ \A x \in States \ {s} : stored'[x] = stored[x] /\ issued'[x] = issued[x]
        /\ UNCHANGED <<callback, logins>>
    <2>1. ssoConfig[t].issuer \in Issuers
      BY DEF BuildAuthUrl, Enabled, SsoTypeOK, Config
    <2>2. [tenant |-> t, issuer |-> ssoConfig[t].issuer] \in [tenant : SsoTenants, issuer : Issuers]
      BY <2>1
    <2> QED
      BY <2>2 DEF BuildAuthUrl, SsoTypeOK, LoginInv, StoredIsFresh, SsoAssumption
  <1>2. \A c \in Callbacks : Holds(c) => callback[c].state \in States \ {s}
    BY <1>1, CallbackType DEF LoginInv, HeldIsFresh
  <1> QED
    BY <1>1, <1>2 DEF LoginInv, StoredIsFresh, HeldIsFresh, HeldByOne,
                      OneLoginPerState, Holds

LEMMA LoginExpires ==
  ASSUME SsoTypeOK, LoginInv, NEW s \in States, StateExpires(s)
  PROVE  LoginInv'
  <1>1. /\ stored'[s] = Absent /\ \A x \in States \ {s} : stored'[x] = stored[x]
        /\ UNCHANGED <<callback, logins, issued>>
    BY DEF StateExpires, SsoTypeOK
  <1>2. \A c \in Callbacks : Holds(c) => callback[c].state \in States
    BY CallbackType
  <1> QED
    BY <1>1, <1>2 DEF LoginInv, StoredIsFresh, HeldIsFresh, HeldByOne,
                      OneLoginPerState, Holds

LEMMA LoginIsTaken ==
  ASSUME SsoTypeOK, LoginInv, NEW c \in Callbacks, TakesState(c)
  PROVE  LoginInv'
  <1> DEFINE s == callback[c].state
  <1>1. /\ s \in States /\ stored[s] # Absent /\ stored'[s] = Absent
        /\ \A x \in States \ {s} : stored'[x] = stored[x]
        /\ callback'[c].state = s /\ callback'[c].tenant = stored[s] /\ callback'[c].pc = "config"
        /\ \A d \in Callbacks \ {c} : callback'[d] = callback[d]
        /\ UNCHANGED <<logins, issued>>
    BY CallbackType DEF TakesState, SsoTypeOK
  <1>2. issued[s] # Absent /\ stored[s] = issued[s].tenant /\ logins[s] = << >>
    BY <1>1 DEF LoginInv, StoredIsFresh
  <1>3. \A d \in Callbacks : Holds(d) => callback[d].state \in States \ {s}
    BY <1>1, CallbackType DEF LoginInv, HeldIsFresh
  <1> HIDE DEF s
  <1> QED
    BY <1>1, <1>2, <1>3 DEF LoginInv, StoredIsFresh, HeldIsFresh, HeldByOne,
                            OneLoginPerState, Holds

LEMMA LoginIsVerified ==
  ASSUME SsoTypeOK, LoginInv, NEW c \in Callbacks, Verifies(c)
  PROVE  LoginInv'
  <1> DEFINE s == callback[c].state
  <1>1. /\ s \in States /\ Holds(c) /\ ~Holds(c)'
        /\ \A d \in Callbacks \ {c} : callback'[d] = callback[d]
        /\ \A x \in States \ {s} : logins'[x] = logins[x]
        /\ logins'[s] \in {logins[s], Append(logins[s], callback[c].tenant)}
        /\ UNCHANGED <<stored, issued>>
    BY CallbackType DEF Verifies, CallbackEnds, NoCallback, SsoTypeOK, Holds
  <1>2. /\ issued[s] # Absent /\ stored[s] = Absent /\ logins[s] = << >>
        /\ callback[c].tenant = issued[s].tenant
    BY <1>1 DEF LoginInv, HeldIsFresh
  <1>3. logins'[s] = << >> \/ logins'[s] = <<issued[s].tenant>>
    BY <1>1, <1>2
  <1>4. \A d \in Callbacks \ {c} : Holds(d) => callback[d].state \in States \ {s}
    BY <1>1, CallbackType DEF LoginInv, HeldByOne
  <1> HIDE DEF s
  <1> QED
    BY <1>1, <1>2, <1>3, <1>4 DEF LoginInv, StoredIsFresh, HeldIsFresh, HeldByOne,
                                  OneLoginPerState, Holds

LEMMA LoginStep == SsoAssumption /\ SsoTypeOK /\ LoginInv /\ [SsoNext]_ssoVars => LoginInv'
  <1> SUFFICES ASSUME SsoAssumption, SsoTypeOK, LoginInv, [SsoNext]_ssoVars PROVE LoginInv'
    OBVIOUS
  <1>1. CASE UNCHANGED <<stored, issued, callback, logins>>
    BY <1>1 DEF LoginInv, StoredIsFresh, HeldIsFresh, HeldByOne, OneLoginPerState, Holds
  <1>2. ASSUME NEW c \in Callbacks,
               \/ \E s, x \in States : CallbackArrives(c, s, x)
               \/ InvalidState(c) \/ ReadsConfig(c) \/ Discovers(c) \/ Exchanges(c)
        PROVE  LoginInv'
    <2>1. /\ UNCHANGED <<stored, issued, logins>>
          /\ \A d \in Callbacks \ {c} : callback'[d] = callback[d]
      BY <1>2 DEF CallbackArrives, InvalidState, ReadsConfig, Discovers, Exchanges, CallbackEnds, SsoTypeOK
    <2>2. Holds(c)' => Holds(c) /\ callback'[c].state = callback[c].state
                                /\ callback'[c].tenant = callback[c].tenant
      <3>1. CASE \/ \E s, x \in States : CallbackArrives(c, s, x)
                 \/ InvalidState(c)
        BY <3>1 DEF CallbackArrives, InvalidState, CallbackEnds, NoCallback, Holds, SsoTypeOK
      <3>2. CASE ReadsConfig(c)
        BY <3>2 DEF ReadsConfig, CallbackEnds, NoCallback, Holds, SsoTypeOK
      <3>3. CASE Discovers(c) \/ Exchanges(c)
        BY <3>3 DEF Discovers, Exchanges, CallbackEnds, NoCallback, Holds, SsoTypeOK, Callback
      <3> QED
        BY <1>2, <3>1, <3>2, <3>3
    <2> QED
      BY <2>1, <2>2, LoginGoesOn
  <1>3. CASE \E t \in SsoTenants : Disable(t) \/ \E i \in Issuers : Upsert(t, i)
    BY <1>1, <1>3 DEF Disable, Upsert
  <1>4. CASE \E i \in Issuers : DiscoveryExpires(i)
    BY <1>1, <1>4 DEF DiscoveryExpires
  <1> QED
    BY <1>1, <1>2, <1>3, <1>4, LoginBegins, LoginExpires, LoginIsTaken, LoginIsVerified
    DEF SsoNext, ssoVars

\* Type correctness of the states in Redis, the configurations and the callbacks.
THEOREM SsoTypes ==
  ASSUME SsoAssumption
  PROVE  SsoSpec => []SsoTypeOK
  <1>1. SsoInit => SsoTypeOK
    BY LoginTypesStart
  <1>2. SsoTypeOK /\ [SsoNext]_ssoVars => SsoTypeOK'
    BY LoginTypesStep
  <1> QED
    BY <1>1, <1>2, PTL DEF SsoSpec

\* A state logs in at most once and for its own tenant, whatever callbacks race
\* for it, late, repeated or with the code of another login.
THEOREM StatesLogInOnce ==
  ASSUME SsoAssumption
  PROVE  SsoSpec => []OneLoginPerState
  <1>1. SsoInit => SsoTypeOK /\ LoginInv
    BY LoginTypesStart, LoginInit
  <1>2. SsoTypeOK /\ LoginInv /\ [SsoNext]_ssoVars => (SsoTypeOK /\ LoginInv)'
    BY LoginTypesStep, LoginStep
  <1>3. SsoTypeOK /\ LoginInv => OneLoginPerState
    BY DEF LoginInv
  <1> QED
    BY <1>1, <1>2, <1>3, PTL DEF SsoSpec

=============================================================================
