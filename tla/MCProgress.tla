----------------------------- MODULE MCProgress -----------------------------
(***************************************************************************)
(* Components that owe an end, one at a time: a behaviour is one of the    *)
(* component that part names, whose variables are v1, v2, ... in the order *)
(* in which its module declares them; the rest stay 0.                     *)
(***************************************************************************)
EXTENDS Naturals

CONSTANT Nothing

VARIABLES part, v1, v2, v3, v4, v5, v6, v7, v8, v9, v10, v11

vars == <<part, v1, v2, v3, v4, v5, v6, v7, v8, v9, v10, v11>>
after7  == <<v8, v9, v10, v11>>
after8  == <<v9, v10, v11>>
after9  == <<v10, v11>>

Nodes == {"n1", "n2"}
Calls == {"c1", "c2"}
NodeOf == [c \in Calls |-> IF c = "c1" THEN "n1" ELSE "n2"]
NoUse == [p \in {"free", "max"} |-> 0]

Quotas == INSTANCE PlanQuotas WITH
  On <- NodeOf, Plans <- {"free", "max"}, DefaultPlan <- "free", PlanLimit <- NoUse,
  Unlimited <- {"max"}, MaxUse <- 0, MaxWrites <- 1, MaxFaults <- 1,
  row <- v1, mode <- v2, memory <- v3, shared <- v4, bus <- v5, call <- v6, counter <- v7,
  enforced <- v8, cap <- v9, writes <- v10, faults <- v11
Webhooks == INSTANCE WebhookDelivery WITH
  Deliveries <- {"d1"}, Workers <- {"w1", "w2"}, MaxAttempts <- 3, Concurrency <- 1,
  MaxManual <- 1, MaxCrashes <- 1, MaxCount <- 3,
  hook <- v1, delivery <- v2, due <- v3, broken <- v4, listed <- v5, sending <- v6, acked <- v7,
  failures <- v8, manual <- v9, crashes <- v10
Acting == INSTANCE Impersonation WITH
  On <- NodeOf, MaxFaults <- 1,
  time <- v1, memory <- v2, shared <- v3, bus <- v4, call <- v5, revoked <- v6, audited <- v7,
  faults <- v8
Fleet == INSTANCE FleetCommands WITH
  FleetTenants <- {"t1", "t2"}, Runs <- {"r1"}, MaxFleetFaults <- 1, MaxDeletes <- 1,
  Nowhere <- Nothing,
  fleetStatus <- v1, store <- v2, run <- v3, worked <- v4, told <- v5, fleetFaults <- v6,
  deletes <- v7
Breakers == INSTANCE CircuitBreaker WITH
  Volume <- 1, MaxPending <- 1, MaxExits <- 1, MaxResets <- 0, MaxOutages <- 1, MaxFaults <- 1,
  up <- v1, breaker <- v2, writes <- v3, restore <- v4, key <- v5, exits <- v6, resets <- v7,
  outages <- v8, faults <- v9
Mirror == INSTANCE SubscriptionSync WITH
  SyncSubs <- {"s1"}, Products <- {"pro", "team", "unmapped"}, Mapped <- {"pro", "team"},
  BillingDefault <- "free", SyncWorkers <- {"w1"}, Tolerance <- 1, Gap <- 2,
  Invoices <- FALSE, Downgrade <- FALSE, MaxStripeClock <- 4, SyncAttempts <- 2,
  MaxReplays <- 1, MaxSyncFaults <- 1,
  clock <- v1, truth <- v2, sent <- v3, done <- v4, customer <- v5, mirrored <- v6, planRow <- v7,
  worker <- v8, spent <- v9, replays <- v10, syncFaults <- v11

ASSUME /\ Quotas!QuotaAssumption /\ Webhooks!DeliveryAssumption
       /\ Acting!ImpersonationAssumption /\ Fleet!FleetAssumption /\ Mirror!SyncAssumption

Init ==
  \/ part = "quotas" /\ Quotas!QuotaInit
  \/ part = "webhooks" /\ Webhooks!DeliveryInit /\ v11 = 0
  \/ part = "acting" /\ Acting!Init /\ v9 = 0 /\ v10 = 0 /\ v11 = 0
  \/ part = "fleet" /\ Fleet!FleetInit /\ v8 = 0 /\ v9 = 0 /\ v10 = 0 /\ v11 = 0
  \/ part = "breakers" /\ Breakers!CircuitInit /\ v10 = 0 /\ v11 = 0
  \/ part = "mirror" /\ Mirror!SyncInit

Next ==
  /\ \/ part = "quotas" /\ Quotas!QuotaNext
     \/ part = "webhooks" /\ Webhooks!DeliveryNext /\ UNCHANGED v11
     \/ part = "acting" /\ Acting!Next /\ UNCHANGED after8
     \/ part = "fleet" /\ Fleet!FleetNext /\ UNCHANGED after7
     \/ part = "breakers" /\ Breakers!CircuitNext /\ UNCHANGED after9
     \/ part = "mirror" /\ Mirror!SyncNext
  /\ UNCHANGED part

\* What is owed in each component: every step below comes when it stays possible.
\* Calls and handlers go on, keys and sessions expire, messages of the bus arrive
\* and timers fire; the retry of webhooks and tenant:purge-expired are run again
\* and again (cron), and the application goes on asking a breaker.
QuotaStep(i) ==
  \/ i = 1 /\ Quotas!CallStep("c1")
  \/ i = 2 /\ Quotas!CallStep("c2")
  \/ i = 3 /\ Quotas!Hears("n1")
  \/ i = 4 /\ Quotas!Hears("n2")
  \/ i = 5 /\ Quotas!LeavesMemory("n1")
  \/ i = 6 /\ Quotas!LeavesMemory("n2")
  \/ i = 7 /\ Quotas!LeavesRedis
WebhookStep(i) ==
  \/ i = 1 /\ Webhooks!SendStep("w1")
  \/ i = 2 /\ Webhooks!SendStep("w2")
  \/ i = 3 /\ Webhooks!Lists("w1")
  \/ i = 4 /\ Webhooks!Lists("w2")
  \/ i = 5 /\ Webhooks!FallsDue("d1")
ActingStep(i) ==
  \/ i = 1 /\ Acting!CallStep("c1")
  \/ i = 2 /\ Acting!CallStep("c2")
  \/ i = 3 /\ Acting!Hears("n1")
  \/ i = 4 /\ Acting!Hears("n2")
  \/ i = 5 /\ Acting!Expires
  \/ i = 6 /\ Acting!TimeIsUp
FleetStep(i) ==
  \/ i = 1 /\ Fleet!CommandStep("r1")
  \/ i = 2 /\ Fleet!Purges("t1")
  \/ i = 3 /\ Fleet!Purges("t2")
BreakerStep(i) ==
  \/ i = 1 /\ Breakers!Works("n1")
  \/ i = 2 /\ Breakers!Works("n2")
  \/ i = 3 /\ Breakers!Call("n1")
  \/ i = 4 /\ Breakers!Call("n2")
  \/ i = 5 /\ Breakers!TimeIsUp("n1")
  \/ i = 6 /\ Breakers!TimeIsUp("n2")
MirrorStep(i) ==
  \/ i = 1 /\ Mirror!HandlerStep("w1")
  \/ i = 2 /\ \E ev \in v3 : Mirror!StartsSync("w1", ev)
\* part never changes: the fairness of the i-th steps of all components is that of
\* each of them.
Step(i) ==
  /\ \/ part = "quotas" /\ QuotaStep(i)
     \/ part = "webhooks" /\ WebhookStep(i) /\ UNCHANGED v11
     \/ part = "acting" /\ ActingStep(i) /\ UNCHANGED after8
     \/ part = "fleet" /\ FleetStep(i) /\ UNCHANGED after7
     \/ part = "breakers" /\ BreakerStep(i) /\ UNCHANGED after9
     \/ part = "mirror" /\ MirrorStep(i)
  /\ UNCHANGED part

Spec == Init /\ [][Next]_vars /\ \A i \in 1..7 : WF_vars(Step(i))
-----------------------------------------------------------------------------
\* A plan that is no longer the tenant's leaves every cache, not even when a read
\* stored it after the write had dropped the key does it stay.
OutdatedPlanLeaves ==
  \A n \in Nodes : part = "quotas" /\ Quotas!OutdatedAt(n) ~> part = "quotas" /\ ~Quotas!OutdatedAt(n)

\* A webhook delivery that is being retried comes to an end: it is delivered,
\* given up after the last attempt, or gone with its webhook.
RetriesEnd == part = "webhooks" /\ Webhooks!Retrying("d1") ~> part = "webhooks" /\ Webhooks!Settled("d1")

\* An impersonation that was revoked ends on every server, also when a first use
\* has written it back behind the revocation.
RevokedEnds == part = "acting" /\ v6 ~> part = "acting" /\ Acting!Gone

\* The storage of a tenant that is deleted goes, though a refresh that had
\* listed it creates it again.
DeletedStoreGoes ==
  \A t \in {"t1", "t2"} :
    part = "fleet" /\ Fleet!Deleted(t) ~> part = "fleet" /\ Fleet!StoreIsGone(t)

\* Once the database answers for good, no breaker stays open, whatever stale
\* state it was restored from.
ClosesAgain ==
  \A n \in Nodes : <>[](part = "breakers" /\ v1) => []<>(part = "breakers" /\ Breakers!ClosedAt(n))

\* Whatever the order, the errors, the retries and the replays, the mirror and
\* the plan come to what Stripe has, when Stripe stops changing: at the latest when
\* the events whose attempts have run out are replayed.
ComesInSync == <>[](part = "mirror" /\ Mirror!Dead = {} => Mirror!AllInSync)
=============================================================================
