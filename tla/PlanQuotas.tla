----------------------------- MODULE PlanQuotas -----------------------------
(***************************************************************************)
(* services/quota_service.ts: the plan of one tenant, the cache in front   *)
(* of it, and the counter of one of its quotas.                            *)
(*                                                                         *)
(* The row of tenant_plans is read through BentoCache (utils/cache.ts): a  *)
(* memory layer in each server, a Redis layer they share, and a bus on     *)
(* which a write in one server drops the key from the memory of the        *)
(* others. The counter of a day is a Redis key. The calls of the service   *)
(* run side by side, split at each await another call can get between.     *)
(* The host's getPlan callback is taken to be absent, and all assignments  *)
(* to have one source.                                                     *)
(***************************************************************************)
EXTENDS Integers, FiniteSets

CONSTANTS
    Nodes,        \* server processes
    Calls,        \* callers of the service, one call each at a time
    On,           \* the server of each caller
    Plans,        \* config.plans.definitions
    DefaultPlan,  \* config.plans.defaultPlan
    PlanLimit,        \* the limit each plan declares for the quota
    Unlimited,    \* the plans that declare none
    MaxUse,       \* bound: the counter
    MaxWrites,    \* bound: plan assignments and removals, and resets
    MaxFaults,    \* bound: failed calls to PostgreSQL, Redis or the cache
    Nothing       \* no row, no cached value

QuotaAssumption ==
    /\ On \in [Calls -> Nodes]
    /\ DefaultPlan \in Plans /\ Unlimited \subseteq Plans
    /\ PlanLimit \in [Plans -> Nat]
    /\ {MaxUse, MaxWrites, MaxFaults} \subseteq Nat
    /\ \A p \in Plans : PlanLimit[p] <= MaxUse
    /\ Nothing \notin Plans

VARIABLES
    row,      \* the tenant's row of tenant_plans
    mode,     \* per server: the memoised answer of resolveStorageMode
    memory,   \* per server: the key `plan' of the memory layer
    shared,   \* the key `plan' of the Redis layer
    bus,      \* servers a message of the bus has not reached yet
    call,     \* calls in progress
    counter,  \* the rolling counter of the day
    enforced, \* what consume() has granted since the last reset
    cap,      \* the largest limit it granted under
    writes,   \* writes so far
    faults    \* failures so far

plans    == <<row, mode>>
cache    == <<memory, shared, bus>>
counters == <<counter, enforced, cap>>
bounds   == <<writes, faults>>
quotaVars     == <<plans, cache, call, counters, bounds>>

Stored == [plan : Plans, expires : {"never", "later", "past"}]
Cached == Plans \cup {"null"}
NoCall   == [pc |-> "idle"]

UseSteps == {"plan", "factory", "store", "eval", "incr"}
Using   == [pc : UseSteps, arg : {Nothing}, seen : Cached \cup {Nothing}]
Writing == [pc : {"find", "save", "delete", "bust", "del"}, arg : Stored \cup {Nothing},
            seen : Stored \cup {Nothing}]

QuotaTypeOK ==
    /\ row \in Stored \cup {Nothing}
    /\ mode \in [Nodes -> {"config-only", "tenant_plans"}]
    /\ memory \in [Nodes -> Cached \cup {Nothing}]
    /\ shared \in Cached \cup {Nothing}
    /\ bus \subseteq Nodes
    /\ DOMAIN call = Calls
    /\ \A c \in Calls :
           call[c] # NoCall =>
             call[c] \in IF call[c].pc \in UseSteps THEN Using ELSE Writing
    /\ counter \in 0 .. MaxUse /\ enforced \in 0 .. MaxUse /\ cap \in 0 .. MaxUse
    /\ writes \in 0 .. MaxWrites /\ faults \in 0 .. MaxFaults

\* resolveStorageMode asks for the table once in the life of a server: an error while
\* it asks is remembered as the answer that there is none.
QuotaInit ==
    /\ row = Nothing
    /\ mode \in [Nodes -> {"config-only", "tenant_plans"}]
    /\ memory = [n \in Nodes |-> Nothing] /\ shared = Nothing /\ bus = {}
    /\ call = [c \in Calls |-> NoCall]
    /\ counter = 0 /\ enforced = 0 /\ cap = 0
    /\ writes = 0 /\ faults = 0

-----------------------------------------------------------------------------
(* Helpers *)

Fault == faults < MaxFaults /\ faults' = faults + 1 /\ UNCHANGED writes

At(c, pc) == call[c].pc = pc

Goto(c, pc) == call' = [call EXCEPT ![c] = [call[c] EXCEPT !.pc = pc]]

GotoWith(c, pc, seen) ==
    call' = [call EXCEPT ![c] = [call[c] EXCEPT !.pc = pc, !.seen = seen]]

\* The call returns, or throws to its caller.
CallEnds(c) == call' = [call EXCEPT ![c] = NoCall]

\* What the factory of getOrSet makes of the row: an expired one counts for nothing.
Assigned(r) == IF r = Nothing \/ r.expires = "past" THEN "null" ELSE r.plan

\* getPlanFor: the assigned plan, else the default one.
PlanFor(p) == IF p = "null" THEN DefaultPlan ELSE p

\* Every server but n has to hear of a write to the cache.
Publish(n) == bus' = Nodes \ {n}

-----------------------------------------------------------------------------
(* The cache *)

Hears(n) ==
    /\ n \in bus
    /\ bus' = bus \ {n}
    /\ memory' = [memory EXCEPT ![n] = Nothing]
    /\ UNCHANGED <<plans, shared, call, counters, bounds>>

\* A memory layer that keeps what it has for good (a mutant).
KeepsInMemory(n) == FALSE /\ UNCHANGED quotaVars

\* PLAN_CACHE_TTL_MS after it was set, the key is gone from either layer.
LeavesMemory(n) ==
    /\ memory[n] # Nothing
    /\ memory' = [memory EXCEPT ![n] = Nothing]
    /\ UNCHANGED <<plans, shared, bus, call, counters, bounds>>

LeavesRedis ==
    /\ shared # Nothing
    /\ shared' = Nothing
    /\ UNCHANGED <<plans, memory, bus, call, counters, bounds>>

-----------------------------------------------------------------------------
(* The calls *)

Begin(c, pc, arg) ==
    /\ call[c] = NoCall
    /\ call' = [call EXCEPT ![c] = [pc |-> pc, arg |-> arg, seen |-> Nothing]]
    /\ UNCHANGED <<plans, cache, counters, faults>>

\* enforceQuota, or another caller: consume, or track where overruns are let through.
CallsIn(c) ==
    /\ \/ Begin(c, "plan", Nothing)
       \/ Begin(c, "incr", Nothing)
    /\ UNCHANGED writes

\* assignPlan from a Stripe event or an operator, clearAssignedPlan, reset.
Writes(c) ==
    /\ writes < MaxWrites
    /\ writes' = writes + 1
    /\ \/ \E p \in Plans, e \in {"never", "later"} :
             Begin(c, "find", [plan |-> p, expires |-> e])
       \/ Begin(c, "delete", Nothing)
       \/ Begin(c, "del", Nothing)

\* A server that believes there is no table does not look for the plan.
PlanNotStored(c) ==
    /\ At(c, "plan")
    /\ mode[On[c]] = "config-only"
    /\ GotoWith(c, "eval", "null")
    /\ UNCHANGED <<plans, cache, counters, bounds>>

\* getOrSet: the memory of the server, the shared layer, or else the factory.
LooksUp(c) ==
    LET n == On[c]
        hit == IF memory[n] # Nothing THEN memory[n] ELSE shared
    IN  /\ At(c, "plan")
        /\ mode[n] = "tenant_plans"
        /\ memory' = [memory EXCEPT ![n] = hit]
        /\ IF hit = Nothing THEN Goto(c, "factory") ELSE GotoWith(c, "eval", hit)
        /\ UNCHANGED <<plans, shared, bus, counters, bounds>>

FactoryReads(c) ==
    /\ At(c, "factory")
    /\ GotoWith(c, "store", Assigned(row))
    /\ UNCHANGED <<plans, cache, counters, bounds>>

FactoryStores(c) ==
    /\ At(c, "store")
    /\ memory' = [memory EXCEPT ![On[c]] = call[c].seen]
    /\ shared' = call[c].seen
    /\ Publish(On[c])
    /\ Goto(c, "eval")
    /\ UNCHANGED <<plans, counters, bounds>>

\* An off-by-one in the script (a mutant).
FitsBefore(limit) == counter <= limit

\* QUOTA_CONSUME_LUA: the test and the increment are one command of Redis.
Fits(limit) == counter + 1 <= limit

Grants(c) ==
    LET limit == PlanLimit[PlanFor(call[c].seen)]
    IN  /\ At(c, "eval")
        /\ PlanFor(call[c].seen) \notin Unlimited
        /\ counter < MaxUse /\ Fits(limit)
        /\ counter' = counter + 1
        /\ enforced' = enforced + 1
        /\ cap' = IF limit > cap THEN limit ELSE cap
        /\ CallEnds(c)
        /\ UNCHANGED <<plans, cache, bounds>>

\* It does not fit: TenantQuotaExceeded is emitted, QuotaExceededException thrown.
Refuses(c) ==
    /\ At(c, "eval")
    /\ PlanFor(call[c].seen) \notin Unlimited
    /\ ~Fits(PlanLimit[PlanFor(call[c].seen)])
    /\ CallEnds(c)
    /\ UNCHANGED <<plans, cache, counters, bounds>>

\* A plan without the limit: consume becomes track.
NoLimit(c) ==
    /\ At(c, "eval")
    /\ PlanFor(call[c].seen) \in Unlimited
    /\ Goto(c, "incr")
    /\ UNCHANGED <<plans, cache, counters, bounds>>

\* INCRBY, then EXPIRE: whoever reads the counter reads the first.
Increments(c) ==
    /\ At(c, "incr")
    /\ counter' = IF counter < MaxUse THEN counter + 1 ELSE counter
    /\ CallEnds(c)
    /\ UNCHANGED <<plans, cache, enforced, cap, bounds>>

\* ResilienceService.run: Redis fails, and the call is let through uncounted
\* (fail-open) or answered 503 (fail-closed).
CallDegrades(c) ==
    /\ call[c].pc \in {"eval", "incr"}
    /\ Fault
    /\ CallEnds(c)
    /\ UNCHANGED <<plans, cache, counters>>

-----------------------------------------------------------------------------
(* assignPlan, clearAssignedPlan, reset *)

\* A row that is already as it should be is left alone, and so is the cache.
AssignSkips(c) ==
    /\ At(c, "find")
    /\ row = call[c].arg
    /\ CallEnds(c)
    /\ UNCHANGED <<plans, cache, counters, bounds>>

AssignFinds(c) ==
    /\ At(c, "find")
    /\ row # call[c].arg
    /\ GotoWith(c, "save", row)
    /\ UNCHANGED <<plans, cache, counters, bounds>>

\* An UPDATE of the columns that differ from the row as it was read, which finds
\* nothing when the row is gone; or an INSERT, refused beside another's row.
AssignSaves(c) ==
    LET new == call[c].arg
        read == call[c].seen
    IN  /\ At(c, "save")
        /\ row' = IF read = Nothing THEN IF row = Nothing THEN new ELSE row
                  ELSE IF row = Nothing THEN Nothing
                  ELSE [plan    |-> IF new.plan = read.plan THEN row.plan ELSE new.plan,
                        expires |-> IF new.expires = read.expires THEN row.expires
                                    ELSE new.expires]
        /\ IF read = Nothing /\ row # Nothing THEN CallEnds(c) ELSE Goto(c, "bust")
        /\ UNCHANGED <<mode, cache, counters, bounds>>

ClearDeletes(c) ==
    /\ At(c, "delete")
    /\ row' = Nothing
    /\ Goto(c, "bust")
    /\ UNCHANGED <<mode, cache, counters, bounds>>

Busts(c) ==
    /\ At(c, "bust")
    /\ memory' = [memory EXCEPT ![On[c]] = Nothing]
    /\ shared' = Nothing
    /\ Publish(On[c])
    /\ CallEnds(c)
    /\ UNCHANGED <<plans, counters, bounds>>

\* The delete fails after the row is written: a retry finds nothing to change.
BustFails(c) ==
    /\ At(c, "bust")
    /\ Fault
    /\ CallEnds(c)
    /\ UNCHANGED <<plans, cache, counters>>

\* reset(tenant, quota): the key is deleted, with whatever it holds by then.
Resets(c) ==
    /\ At(c, "del")
    /\ counter' = 0 /\ enforced' = 0 /\ cap' = 0
    /\ CallEnds(c)
    /\ UNCHANGED <<plans, cache, bounds>>

-----------------------------------------------------------------------------
PlanEnds ==
    /\ row # Nothing /\ row.expires = "later"
    /\ row' = [row EXCEPT !.expires = "past"]
    /\ UNCHANGED <<mode, cache, call, counters, bounds>>

-----------------------------------------------------------------------------
CallStep(c) ==
    \/ PlanNotStored(c) \/ LooksUp(c) \/ FactoryReads(c) \/ FactoryStores(c)
    \/ Grants(c) \/ Refuses(c) \/ NoLimit(c)
    \/ Increments(c) \/ CallDegrades(c)
    \/ AssignSkips(c) \/ AssignFinds(c) \/ AssignSaves(c) \/ ClearDeletes(c)
    \/ Busts(c) \/ BustFails(c) \/ Resets(c)

CacheStep == LeavesRedis \/ \E n \in Nodes : Hears(n) \/ LeavesMemory(n)

QuotaNext ==
    \/ \E c \in Calls : CallsIn(c) \/ Writes(c) \/ CallStep(c)
    \/ CacheStep
    \/ PlanEnds

QuotaSpec == QuotaInit /\ [][QuotaNext]_quotaVars

\* Awaits end, and keys expire.
Fairness ==
    /\ \A c \in Calls : WF_quotaVars(CallStep(c))
    /\ WF_quotaVars(LeavesRedis)
    /\ \A n \in Nodes : WF_quotaVars(Hears(n)) /\ WF_quotaVars(LeavesMemory(n))

FairSpec == QuotaSpec /\ Fairness

-----------------------------------------------------------------------------
(* Properties *)

\* However many calls of consume() run at once, on whichever servers and with
\* whatever stale limits, a day's grants never exceed the largest limit one of
\* them was granted under: the check and the increment are one step.
GrantsWithinLimit == enforced <= cap

Outdated(v) == v \notin {Nothing, Assigned(row)}
OutdatedAt(n) == Outdated(memory[n]) \/ Outdated(shared)

\* A plan that is no longer the tenant's does not stay in a cache, not even when
\* a read stored it after the write had dropped the key, or the drop failed.
OutdatedPlanLeaves ==
    \A n \in Nodes : OutdatedAt(n) ~> ~OutdatedAt(n)

=============================================================================
