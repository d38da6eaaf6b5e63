-------------------------- MODULE PlanQuotasProofs --------------------------
(***************************************************************************)
(* The types of the plan cache and its calls, and the limit of consume(),  *)
(* for every number of servers and callers and every set of plans.         *)
(***************************************************************************)
EXTENDS PlanQuotas, TLAPS

\* A call in progress, by where it stands.
CallOK(x) ==
  /\ x # NoCall => x \in IF x.pc \in UseSteps THEN Using ELSE Writing
  /\ x.pc \in {"store", "eval"} => x.seen \in Cached
  /\ x.pc \in {"find", "save"} => x.arg \in Stored

CallsOK == DOMAIN call = Calls /\ \A c \in Calls : CallOK(call[c])

DataOK ==
  /\ row \in Stored \cup {Nothing}
  /\ mode \in [Nodes -> {"config-only", "tenant_plans"}]
  /\ memory \in [Nodes -> Cached \cup {Nothing}]
  /\ shared \in Cached \cup {Nothing}
  /\ bus \subseteq Nodes

\* A grant adds one to the counter and to the grants, other steps only to the
\* counter, and a reset clears all three.
CountsOK ==
  /\ counter \in 0 .. MaxUse /\ enforced \in 0 .. MaxUse /\ cap \in 0 .. MaxUse
  /\ enforced <= counter /\ enforced <= cap

BoundsOK == writes \in 0 .. MaxWrites /\ faults \in 0 .. MaxFaults

QuotaInv == DataOK /\ CallsOK /\ CountsOK /\ BoundsOK

-----------------------------------------------------------------------------
(* The calls *)

LEMMA CallBecomes ==
  ASSUME CallsOK, NEW c \in Calls, NEW x, CallOK(x), call' = [call EXCEPT ![c] = x]
  PROVE  CallsOK'
  BY DEF CallsOK

LEMMA CallIsOver ==
  ASSUME CallsOK, NEW c \in Calls, CallEnds(c)
  PROVE  CallsOK'
  <1>1. CallOK(NoCall)
    BY DEF CallOK, NoCall
  <1> QED
    BY <1>1, CallBecomes DEF CallEnds

\* A call that is using a quota goes on with it.
LEMMA CallUses ==
  ASSUME CallsOK, NEW c \in Calls, call[c].pc \in UseSteps,
         NEW pc \in UseSteps \ {"store", "eval"}, Goto(c, pc)
  PROVE  CallsOK'
  <1>1. call[c] \in Using
    BY DEF CallsOK, CallOK, NoCall, UseSteps
  <1>2. CallOK([call[c] EXCEPT !.pc = pc])
    BY <1>1 DEF CallOK, Using, UseSteps
  <1> QED
    BY <1>2, CallBecomes DEF Goto

LEMMA CallKnows ==
  ASSUME CallsOK, NEW c \in Calls, call[c].pc \in UseSteps,
         NEW pc \in {"store", "eval"}, NEW v \in Cached, GotoWith(c, pc, v)
  PROVE  CallsOK'
  <1>1. call[c] \in Using
    BY DEF CallsOK, CallOK, NoCall, UseSteps
  <1>2. CallOK([call[c] EXCEPT !.pc = pc, !.seen = v])
    BY <1>1 DEF CallOK, Using, UseSteps
  <1> QED
    BY <1>2, CallBecomes DEF GotoWith

LEMMA CallBusts ==
  ASSUME CallsOK, NEW c \in Calls, call[c].pc \in {"save", "delete"}, Goto(c, "bust")
  PROVE  CallsOK'
  <1>1. call[c] \in Writing
    BY DEF CallsOK, CallOK, NoCall, UseSteps
  <1>2. CallOK([call[c] EXCEPT !.pc = "bust"])
    BY <1>1 DEF CallOK, Writing, UseSteps
  <1> QED
    BY <1>2, CallBecomes DEF Goto

LEMMA CallBegins ==
  ASSUME CallsOK, NEW c \in Calls, NEW pc, NEW arg, Begin(c, pc, arg),
         \/ pc \in {"plan", "incr"} /\ arg = Nothing
         \/ pc = "find" /\ arg \in Stored
         \/ pc \in {"delete", "del"} /\ arg = Nothing
  PROVE  CallsOK'
  <1>1. CallOK([pc |-> pc, arg |-> arg, seen |-> Nothing])
    BY DEF CallOK, Using, Writing, UseSteps
  <1> QED
    BY <1>1, CallBecomes DEF Begin

-----------------------------------------------------------------------------
(* The steps *)

LEMMA QuotaStarts == QuotaAssumption /\ QuotaInit => QuotaInv
  BY DEF QuotaAssumption, QuotaInit, QuotaInv, DataOK, CallsOK, CountsOK, BoundsOK,
         CallOK, NoCall

LEMMA QuotaRequests ==
  ASSUME QuotaAssumption, QuotaInv, NEW c \in Calls, CallsIn(c) \/ Writes(c)
  PROVE  QuotaInv'
  <1>1. CallsOK'
    <2>1. CASE CallsIn(c)
      BY <2>1, CallBegins DEF CallsIn, QuotaInv
    <2>2. CASE Writes(c)
      <3>1. ASSUME NEW p \in Plans, NEW e \in {"never", "later"},
                   Begin(c, "find", [plan |-> p, expires |-> e])
            PROVE  CallsOK'
        <4>1. [plan |-> p, expires |-> e] \in Stored
          BY DEF Stored
        <4> QED
          BY <3>1, <4>1, CallBegins DEF QuotaInv
      <3> QED
        BY <2>2, <3>1, CallBegins DEF Writes, QuotaInv
    <2> QED
      BY <2>1, <2>2
  <1>2. UNCHANGED <<plans, cache, counters, faults>> /\ writes' \in 0 .. MaxWrites
    BY DEF CallsIn, Writes, Begin, QuotaInv, BoundsOK, QuotaAssumption
  <1> QED
    BY <1>1, <1>2 DEF QuotaInv, DataOK, CountsOK, BoundsOK, plans, cache, counters

LEMMA QuotaReads ==
  ASSUME QuotaAssumption, QuotaInv, NEW c \in Calls,
         \/ PlanNotStored(c) \/ LooksUp(c) \/ FactoryReads(c) \/ FactoryStores(c)
  PROVE  QuotaInv'
  <1> USE DEF QuotaInv
  <1>0. On[c] \in Nodes
    BY DEF QuotaAssumption
  <1>1. CASE PlanNotStored(c)
    <2>1. CallsOK'
      BY <1>1, CallKnows DEF PlanNotStored, At, UseSteps, Cached
    <2> QED
      BY <1>1, <2>1 DEF PlanNotStored, DataOK, CountsOK, BoundsOK, plans, cache,
                        counters, bounds
  <1>2. CASE LooksUp(c)
    <2> DEFINE hit == IF memory[On[c]] # Nothing THEN memory[On[c]] ELSE shared
    <2>1. hit \in Cached \cup {Nothing}
      BY <1>0 DEF DataOK
    <2>2. CallsOK'
      <3>1. CASE hit = Nothing
        BY <1>2, <3>1, CallUses DEF LooksUp, At, UseSteps
      <3>2. CASE hit # Nothing
        <4>1. hit \in Cached /\ GotoWith(c, "eval", hit)
          BY <1>2, <2>1, <3>2 DEF LooksUp
        <4> QED
          BY <1>2, <4>1, CallKnows DEF LooksUp, At, UseSteps
      <3> QED
        BY <3>1, <3>2
    <2>3. memory' = [memory EXCEPT ![On[c]] = hit]
      BY <1>2 DEF LooksUp
    <2> QED
      BY <1>2, <2>1, <2>2, <2>3 DEF LooksUp, DataOK, CountsOK, BoundsOK, plans,
                                    counters, bounds
  <1>3. CASE FactoryReads(c)
    <2>1. Assigned(row) \in Cached
      BY DEF Assigned, DataOK, Stored, Cached
    <2>2. CallsOK'
      BY <1>3, <2>1, CallKnows DEF FactoryReads, At, UseSteps
    <2> QED
      BY <1>3, <2>2 DEF FactoryReads, DataOK, CountsOK, BoundsOK, plans, cache,
                        counters, bounds
  <1>4. CASE FactoryStores(c)
    <2>1. call[c] \in Using /\ call[c].seen \in Cached
      BY <1>4 DEF FactoryStores, At, CallsOK, CallOK, NoCall, UseSteps
    <2>2. CallOK([call[c] EXCEPT !.pc = "eval"])
      BY <2>1 DEF CallOK, Using, UseSteps
    <2>3. CallsOK'
      BY <1>4, <2>2, CallBecomes DEF FactoryStores, Goto
    <2> QED
      BY <1>4, <2>1, <2>3 DEF FactoryStores, Publish, DataOK, CountsOK, BoundsOK,
                              plans, counters, bounds
  <1> QED
    BY <1>1, <1>2, <1>3, <1>4

\* The limit a call is held to.
LEMMA LimitIsNat ==
  ASSUME QuotaAssumption, QuotaInv, NEW c \in Calls, At(c, "eval")
  PROVE  PlanLimit[PlanFor(call[c].seen)] \in 0 .. MaxUse
  <1>1. PlanFor(call[c].seen) \in Plans
    BY DEF QuotaInv, CallsOK, CallOK, At, PlanFor, Cached, QuotaAssumption
  <1> QED
    BY <1>1 DEF QuotaAssumption

LEMMA QuotaCounts ==
  ASSUME QuotaAssumption, QuotaInv, NEW c \in Calls,
         \/ Grants(c) \/ Refuses(c) \/ NoLimit(c) \/ Increments(c) \/ CallDegrades(c)
         \/ Resets(c)
  PROVE  QuotaInv'
  <1> USE DEF QuotaInv
  <1>1. CASE Grants(c)
    <2> DEFINE limit == PlanLimit[PlanFor(call[c].seen)]
    <2>1. limit \in 0 .. MaxUse
      BY <1>1, LimitIsNat DEF Grants
    <2>2. /\ counter < MaxUse /\ counter + 1 <= limit
          /\ counter' = counter + 1 /\ enforced' = enforced + 1
          /\ cap' = IF limit > cap THEN limit ELSE cap
      BY <1>1 DEF Grants, Fits
    <2> HIDE DEF limit
    <2>3. CountsOK'
      BY <2>1, <2>2 DEF CountsOK, QuotaAssumption
    <2>4. CallsOK'
      BY <1>1, CallIsOver DEF Grants
    <2> QED
      BY <1>1, <2>3, <2>4 DEF Grants, DataOK, BoundsOK, plans, cache, bounds
  <1>2. CASE Refuses(c)
    <2>1. CallsOK'
      BY <1>2, CallIsOver DEF Refuses
    <2> QED
      BY <1>2, <2>1 DEF Refuses, DataOK, CountsOK, BoundsOK, plans, cache, counters, bounds
  <1>3. CASE NoLimit(c)
    <2>1. CallsOK'
      BY <1>3, CallUses DEF NoLimit, At, UseSteps
    <2> QED
      BY <1>3, <2>1 DEF NoLimit, DataOK, CountsOK, BoundsOK, plans, cache, counters, bounds
  <1>4. CASE Increments(c)
    <2>1. CallsOK'
      BY <1>4, CallIsOver DEF Increments
    <2>2. CountsOK'
      BY <1>4 DEF Increments, CountsOK, QuotaAssumption
    <2> QED
      BY <1>4, <2>1, <2>2 DEF Increments, DataOK, BoundsOK, plans, cache, bounds
  <1>5. CASE CallDegrades(c)
    <2>1. CallsOK'
      BY <1>5, CallIsOver DEF CallDegrades
    <2> QED
      BY <1>5, <2>1 DEF CallDegrades, Fault, DataOK, CountsOK, BoundsOK, plans, cache,
                        counters, QuotaAssumption
  <1>6. CASE Resets(c)
    <2>1. CallsOK'
      BY <1>6, CallIsOver DEF Resets
    <2> QED
      BY <1>6, <2>1 DEF Resets, DataOK, CountsOK, BoundsOK, plans, cache, bounds,
                        QuotaAssumption
  <1> QED
    BY <1>1, <1>2, <1>3, <1>4, <1>5, <1>6

LEMMA QuotaWrites ==
  ASSUME QuotaAssumption, QuotaInv, NEW c \in Calls,
         \/ AssignSkips(c) \/ AssignFinds(c) \/ AssignSaves(c) \/ ClearDeletes(c)
         \/ Busts(c) \/ BustFails(c)
  PROVE  QuotaInv'
  <1> USE DEF QuotaInv
  <1>1. CASE AssignSkips(c)
    <2>1. CallsOK'
      BY <1>1, CallIsOver DEF AssignSkips
    <2> QED
      BY <1>1, <2>1 DEF AssignSkips, DataOK, CountsOK, BoundsOK, plans, cache,
                        counters, bounds
  <1>2. CASE AssignFinds(c)
    <2>1. call[c] \in Writing /\ call[c].arg \in Stored
      BY <1>2 DEF AssignFinds, At, CallsOK, CallOK, NoCall, UseSteps
    <2>2. CallOK([call[c] EXCEPT !.pc = "save", !.seen = row])
      BY <2>1 DEF CallOK, Writing, UseSteps, DataOK
    <2>3. CallsOK'
      BY <1>2, <2>2, CallBecomes DEF AssignFinds, GotoWith
    <2> QED
      BY <1>2, <2>3 DEF AssignFinds, DataOK, CountsOK, BoundsOK, plans, cache,
                        counters, bounds
  <1>3. CASE AssignSaves(c)
    <2>1. call[c].arg \in Stored /\ call[c].pc = "save"
      BY <1>3 DEF AssignSaves, At, CallsOK, CallOK
    <2>2. CallsOK'
      BY <1>3, <2>1, CallIsOver, CallBusts DEF AssignSaves
    <2>3. row' \in Stored \cup {Nothing}
      <3>1. CASE row = Nothing
        BY <1>3, <2>1, <3>1 DEF AssignSaves
      <3>2. CASE row # Nothing
        <4>1. row \in Stored
          BY <3>2 DEF DataOK
        <4> QED
          BY <1>3, <2>1, <3>2, <4>1 DEF AssignSaves, Stored
      <3> QED
        BY <3>1, <3>2
    <2> QED
      BY <1>3, <2>2, <2>3 DEF AssignSaves, DataOK, CountsOK, BoundsOK, cache,
                              counters, bounds
  <1>4. CASE ClearDeletes(c)
    <2>1. CallsOK'
      BY <1>4, CallBusts DEF ClearDeletes, At
    <2> QED
      BY <1>4, <2>1 DEF ClearDeletes, DataOK, CountsOK, BoundsOK, cache, counters, bounds
  <1>5. CASE Busts(c)
    <2>1. CallsOK'
      BY <1>5, CallIsOver DEF Busts
    <2> QED
      BY <1>5, <2>1 DEF Busts, Publish, DataOK, CountsOK, BoundsOK, plans, counters, bounds
  <1>6. CASE BustFails(c)
    <2>1. CallsOK'
      BY <1>6, CallIsOver DEF BustFails
    <2> QED
      BY <1>6, <2>1 DEF BustFails, Fault, DataOK, CountsOK, BoundsOK, plans, cache,
                        counters, QuotaAssumption
  <1> QED
    BY <1>1, <1>2, <1>3, <1>4, <1>5, <1>6

LEMMA QuotaSurroundings ==
  ASSUME QuotaInv, CacheStep \/ PlanEnds
  PROVE  QuotaInv'
  <1>1. CASE CacheStep
    BY <1>1 DEF CacheStep, LeavesRedis, Hears, LeavesMemory, QuotaInv, DataOK, CallsOK,
                CountsOK, BoundsOK, plans, counters, bounds
  <1>2. CASE PlanEnds
    BY <1>2 DEF PlanEnds, QuotaInv, DataOK, CallsOK, CountsOK, BoundsOK, Stored, cache,
                counters, bounds
  <1> QED
    BY <1>1, <1>2

LEMMA QuotaStep == QuotaAssumption /\ QuotaInv /\ [QuotaNext]_quotaVars => QuotaInv'
  <1> SUFFICES ASSUME QuotaAssumption, QuotaInv, [QuotaNext]_quotaVars PROVE QuotaInv'
    OBVIOUS
  <1>1. CASE UNCHANGED quotaVars
    BY <1>1 DEF quotaVars, plans, cache, counters, bounds, QuotaInv, DataOK, CallsOK,
                CountsOK, BoundsOK
  <1>2. ASSUME NEW c \in Calls, CallStep(c) PROVE QuotaInv'
    BY <1>2, QuotaReads, QuotaCounts, QuotaWrites DEF CallStep
  <1> QED
    BY <1>1, <1>2, QuotaRequests, QuotaSurroundings DEF QuotaNext

\* The row, the two layers of the cache, the calls and the counter keep their
\* types, whatever calls and failures interleave.
THEOREM QuotaTypes ==
  ASSUME QuotaAssumption
  PROVE  QuotaSpec => []QuotaTypeOK
  <1>1. QuotaInv => QuotaTypeOK
    BY DEF QuotaInv, DataOK, CallsOK, CountsOK, BoundsOK, CallOK, QuotaTypeOK
  <1>2. QuotaInit => QuotaInv
    BY QuotaStarts
  <1>3. QuotaInv /\ [QuotaNext]_quotaVars => QuotaInv'
    BY QuotaStep
  <1> QED
    BY <1>1, <1>2, <1>3, PTL DEF QuotaSpec

\* A day's grants never exceed the largest limit one of them was given under,
\* however many callers consume at once and however stale the plan they saw.
THEOREM GrantsStayWithinLimit ==
  ASSUME QuotaAssumption
  PROVE  QuotaSpec => []GrantsWithinLimit
  <1>1. QuotaInv => GrantsWithinLimit
    BY DEF QuotaInv, CountsOK, GrantsWithinLimit
  <1>2. QuotaInit => QuotaInv
    BY QuotaStarts
  <1>3. QuotaInv /\ [QuotaNext]_quotaVars => QuotaInv'
    BY QuotaStep
  <1> QED
    BY <1>1, <1>2, <1>3, PTL DEF QuotaSpec

=============================================================================
