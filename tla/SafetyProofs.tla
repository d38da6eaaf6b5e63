---------------------------- MODULE SafetyProofs -----------------------------
(***************************************************************************)
(* The type invariants of the components, each for every value of its      *)
(* constants, and what MCSafety checks of the components side by side.     *)
(***************************************************************************)
EXTENDS MCSafety, ComponentProofs, PlanQuotasProofs, WebhookDeliveryProofs, RequestPathProofs

(***************************************************************************)
(*                     Stripe's customers and the sync                     *)
(***************************************************************************)

\* What a sync's repair does not depend on, and the rows of the mirror.
NoneOrCustomer == Customers \cup {0}
CallSteps == {"idle", "create", "insert", "reread", "session", "end"}
Call == [pc : CallSteps, of : NoneOrCustomer]

ReconcileRest ==
  /\ policy \in Policies
  /\ payer \in [Subs -> NoneOrCustomer]
  /\ customers \in NoneOrCustomer /\ keyed \in NoneOrCustomer
  /\ mapped \in NoneOrCustomer /\ retired \subseteq Customers
  /\ mirror \in [Subs -> MirrorRow \cup {NoMirror}]
  /\ caller \in [Callers -> Call]
  /\ fill \in {"off", "assign", "end"}
  /\ leaver \in {Quiet} \cup [pc : {"cancel", "unmap", "ended"}, left : SUBSET Subs]
  /\ billingFaults \in 0 .. MaxBillingFaults

LEMMA ReconcileRestStep ==
  ASSUME ReconcileAssumption, RepairInv, ReconcileRest, [ReconcileNext]_reconcileVars
  PROVE  ReconcileRest'
  <1>0. MaxClock \in Nat /\ MaxBillingFaults \in Nat
    BY DEF ReconcileAssumption
  <1>1. ASSUME BillingFault \/ UNCHANGED billingFaults PROVE (billingFaults \in 0 .. MaxBillingFaults)'
    BY <1>0, <1>1 DEF BillingFault, ReconcileRest
  <1>2. ASSUME NEW c \in Callers, NEW pc \in CallSteps, NEW of \in NoneOrCustomer, Become(c, pc, of)
        PROVE  (caller \in [Callers -> Call])'
    BY <1>2 DEF Become, ReconcileRest, Call
  <1>3. ASSUME NEW s \in Subs, NEW st \in SubStatus, NEW at \in 0 .. MaxClock, SavesSub(s, st, at)
        PROVE  (mirror \in [Subs -> MirrorRow \cup {NoMirror}])'
    BY <1>3 DEF SavesSub, MirrorRow, ReconcileRest
  <1>4. stripeTime \in 0 .. MaxClock /\ mirror \in [Subs -> MirrorRow \cup {NoMirror}]
    BY DEF RepairInv, RepairTypes, ReconcileRest
  <1>17. ASSUME NEW c \in Callers PROVE caller[c].of \in NoneOrCustomer
    BY DEF ReconcileRest, Call
  <1>5. ASSUME NEW c \in Callers,
               \/ Finds(c) \/ CreatesCustomer(c) \/ InsertsCustomer(c) \/ RereadsCustomer(c)
               \/ OpensSession(c) \/ MapsCheckout(c)
        PROVE  ReconcileRest'
    <2>1. UNCHANGED <<policy, payer, retired, mirror, fill, leaver>>
      BY <1>5 DEF Finds, CreatesCustomer, InsertsCustomer, RereadsCustomer, OpensSession, MapsCheckout,
                  stripe, tables, procs
    <2>2. BillingFault \/ UNCHANGED billingFaults
      BY <1>5 DEF Finds, CreatesCustomer, InsertsCustomer, RereadsCustomer, OpensSession, MapsCheckout
    <2>3. customers' \in NoneOrCustomer /\ keyed' \in NoneOrCustomer
      <3>1. CASE CreatesCustomer(c)
        BY <3>1 DEF CreatesCustomer, ReconcileRest, NoneOrCustomer
      <3>2. CASE ~CreatesCustomer(c)
        <4>1. UNCHANGED <<customers, keyed>>
          BY <1>5, <3>2 DEF Finds, InsertsCustomer, RereadsCustomer, OpensSession, MapsCheckout, stripe
        <4> QED
          BY <4>1 DEF ReconcileRest
      <3> QED
        BY <3>1, <3>2
    <2>4. (caller \in [Callers -> Call])'
      <3>1. CASE CreatesCustomer(c)
        <4>1. PICK id \in NoneOrCustomer : Become(c, "insert", id) \/ Become(c, "idle", 0)
          BY <3>1 DEF CreatesCustomer, NoneOrCustomer
        <4> QED
          BY <1>2, <4>1 DEF CallSteps, NoneOrCustomer
      <3>2. CASE MapsCheckout(c)
        BY <3>2 DEF MapsCheckout, procs, ReconcileRest
      <3>3. CASE Finds(c) \/ InsertsCustomer(c) \/ RereadsCustomer(c) \/ OpensSession(c)
        <4>1. PICK pc \in CallSteps, of \in NoneOrCustomer : Become(c, pc, of)
          BY <3>3, <1>17 DEF Finds, InsertsCustomer, RereadsCustomer, OpensSession, CallSteps, NoneOrCustomer, ReconcileRest
        <4> QED
          BY <1>2, <4>1
      <3> QED
        BY <1>5, <3>1, <3>2, <3>3
    <2>5. mapped' \in NoneOrCustomer
      <3>1. mapped' \in {mapped, caller[c].of}
        BY <1>5 DEF Finds, CreatesCustomer, InsertsCustomer, RereadsCustomer, OpensSession, MapsCheckout, tables
      <3> QED
        BY <1>17, <3>1 DEF ReconcileRest
    <2> QED
      BY <2>1, <2>2, <2>3, <2>4, <2>5, <1>1 DEF ReconcileRest
  <1>18. CASE KeyForgotten
    BY <1>18 DEF KeyForgotten, tables, procs, ReconcileRest, NoneOrCustomer
  <1>6. ASSUME NEW s \in Subs, Ceases(s) \/ (\E c \in Callers : ChecksOut(s, c))
        PROVE  ReconcileRest'
    <2>1. CASE Ceases(s)
      BY <2>1 DEF Ceases, tables, procs, ReconcileRest
    <2>2. ASSUME NEW c \in Callers, ChecksOut(s, c) PROVE ReconcileRest'
      BY <1>17, <2>2 DEF ChecksOut, tables, procs, ReconcileRest
    <2> QED
      BY <1>6, <2>1, <2>2
  <1>7. ASSUME NEW s \in Subs, FindsLocal(s) PROVE ReconcileRest'
    BY <1>7 DEF FindsLocal, stripe, tables, ReconcileRest
  <1>8. ASSUME NEW s \in Subs, Cancels(s) PROVE ReconcileRest'
    <2>1. UNCHANGED <<policy, payer, customers, keyed, mapped, retired, caller, fill>>
      BY <1>8 DEF Cancels
    <2>2. BillingFault \/ UNCHANGED billingFaults
      BY <1>8 DEF Cancels
    <2>3. (leaver \in {Quiet} \cup [pc : {"cancel", "unmap", "ended"}, left : SUBSET Subs])'
      BY <1>8 DEF Cancels, ReconcileRest, Quiet
    <2>4. (mirror \in [Subs -> MirrorRow \cup {NoMirror}])'
      <3>1. \/ mirror' = mirror
            \/ mirror' = [mirror EXCEPT ![s] = [mirror[s] EXCEPT !.status = "canceled"]]
        BY <1>8 DEF Cancels
      <3>2. [mirror[s] EXCEPT !.status = "canceled"] \in MirrorRow
        <4>1. mirror[s] \in Rowlike
          BY DEF RepairInv, RepairTypes
        <4> QED
          BY <4>1 DEF Rowlike, MirrorRow, SubStatus
      <3> QED
        BY <3>1, <3>2, <1>4
    <2> QED
      BY <2>1, <2>2, <2>3, <2>4, <1>1 DEF ReconcileRest
  <1>9. ASSUME NEW e \in events, Handles(e) PROVE ReconcileRest'
    <2>1. UNCHANGED <<policy, payer, customers, keyed, mapped, retired, caller, fill, leaver, billingFaults>>
      BY <1>9 DEF Handles, stripe, procs
    <2>2. e.sub \in Subs /\ e.status \in SubStatus /\ e.at \in 0 .. MaxClock
      BY <1>0 DEF RepairInv, RepairTypes, Event
    <2>3. SavesSub(e.sub, e.status, e.at) \/ mirror' = mirror
      BY <1>9 DEF Handles
    <2> QED
      BY <2>1, <2>2, <2>3, <1>3 DEF ReconcileRest
  <1>10. CASE SyncLists \/ ListEnds \/ Orphans
    BY <1>10 DEF SyncLists, ListEnds, Orphans, stripe, tables, ReconcileRest
  <1>11. CASE Repairs
    <2>1. UNCHANGED <<policy, payer, customers, keyed, mapped, retired, caller, fill, leaver>> /\ sync.pc = "write"
      BY <1>11 DEF Repairs, stripe
    <2>2. sync # Quiet /\ sync.sub \in Subs /\ sync.seen[sync.sub] \in SubStatus
      BY <2>1 DEF RepairInv, RepairTypes, SyncShape, SyncKeepsUp, Quiet
    <2>3. BillingFault \/ UNCHANGED billingFaults
      BY <1>11 DEF Repairs
    <2>4. SavesSub(sync.sub, sync.seen[sync.sub], stripeTime) \/ mirror' = mirror
      BY <1>11 DEF Repairs, Stamp
    <2>5. (mirror \in [Subs -> MirrorRow \cup {NoMirror}])'
      BY <2>2, <2>4, <1>3, <1>4
    <2> QED
      BY <2>1, <2>3, <2>5, <1>1 DEF ReconcileRest
  <1>12. ASSUME NEW force \in BOOLEAN, FindsPlan(force) PROVE ReconcileRest'
    BY <1>12 DEF FindsPlan, stripe, tables, ReconcileRest
  <1>13. CASE AssignsDefault
    BY <1>13 DEF AssignsDefault, stripe, ReconcileRest
  <1>14. CASE Leaves
    <2>1. UNCHANGED <<policy, payer, customers, keyed, mapped, retired, mirror, caller, fill, billingFaults>>
      BY <1>14 DEF Leaves, stripe, tables
    <2>2. (leaver \in {Quiet} \cup [pc : {"cancel", "unmap", "ended"}, left : SUBSET Subs])'
      BY <1>14 DEF Leaves
    <2> QED
      BY <2>1, <2>2 DEF ReconcileRest
  <1>15. CASE Unmaps
    <2>1. UNCHANGED <<policy, payer, customers, keyed, caller, fill>>
      BY <1>15 DEF Unmaps, stripe
    <2>2. BillingFault \/ UNCHANGED billingFaults
      BY <1>15 DEF Unmaps
    <2>3. (leaver \in {Quiet} \cup [pc : {"cancel", "unmap", "ended"}, left : SUBSET Subs])'
      BY <1>15 DEF Unmaps, ReconcileRest, Quiet
    <2>4. mapped' \in NoneOrCustomer /\ retired' \subseteq Customers
          /\ (mirror' = mirror \/ mirror' = [s \in Subs |-> [mirror[s] EXCEPT !.owned = FALSE]])
      BY <1>15 DEF Unmaps, ReconcileRest, NoneOrCustomer
    <2>5. ASSUME NEW s \in Subs PROVE [mirror[s] EXCEPT !.owned = FALSE] \in MirrorRow \cup {NoMirror}
      <3>1. CASE mirror[s] \in MirrorRow
        BY <3>1 DEF MirrorRow
      <3>2. CASE mirror[s] = NoMirror
        <4>1. PICK r : r = [mirror[s] EXCEPT !.owned = FALSE]
          OBVIOUS
        <4>2. mirror[s] \in Rowlike
          BY DEF RepairInv, RepairTypes
        <4>3. r \in Rowlike /\ r.status = mirror[s].status /\ r.at = mirror[s].at /\ r.owned = FALSE
          BY <4>1, <4>2 DEF Rowlike
        <4>4. mirror[s].status = "none" /\ mirror[s].at = 0
          BY <3>2 DEF NoMirror
        <4>5. r = NoMirror
          BY <4>3, <4>4 DEF Rowlike, NoMirror
        <4> QED
          BY <4>1, <4>5
      <3> QED
        BY <3>1, <3>2, <1>4
    <2>6. (mirror \in [Subs -> MirrorRow \cup {NoMirror}])'
      BY <2>4, <2>5, <1>4
    <2> QED
      BY <2>1, <2>2, <2>3, <2>4, <2>6, <1>1 DEF ReconcileRest
  <1>16. CASE UNCHANGED reconcileVars
    BY <1>16 DEF reconcileVars, stripe, tables, procs, ReconcileRest
  <1> QED
    BY <1>5, <1>6, <1>7, <1>8, <1>9, <1>10, <1>11, <1>12, <1>13, <1>14, <1>15, <1>16, <1>18 DEF ReconcileNext

\* The type invariant of the billing commands.
THEOREM ReconcileTypes == ASSUME ReconcileAssumption PROVE ReconcileSpec => []ReconcileTypeOK
  <1>1. ReconcileInit => RepairInv /\ ReconcileRest
    <2>1. ReconcileInit => ReconcileRest
      <3> SUFFICES ASSUME ReconcileInit PROVE ReconcileRest
        OBVIOUS
      <3>1. MaxBillingFaults \in Nat
        BY DEF ReconcileAssumption
      <3>2. 0 \in 0 .. MaxBillingFaults
        BY <3>1
      <3>3. mirror \in [Subs -> MirrorRow \cup {NoMirror}]
        BY DEF ReconcileInit
      <3>4. caller \in [Callers -> Call]
        BY DEF ReconcileInit, Call, CallSteps, NoneOrCustomer
      <3> QED
        BY <3>2, <3>3, <3>4 DEF ReconcileInit, ReconcileRest, NoneOrCustomer
    <2> QED
      BY <2>1, RepairStarts
  <1>2. RepairInv /\ ReconcileRest /\ [ReconcileNext]_reconcileVars => (RepairInv /\ ReconcileRest)'
    BY RepairStep, ReconcileRestStep
  <1>3. RepairInv /\ ReconcileRest => ReconcileTypeOK
    BY DEF RepairInv, RepairTypes, SyncShape, ReconcileRest, ReconcileTypeOK, NoneOrCustomer, CallSteps, Call
  <1> QED
    BY <1>1, <1>2, <1>3, PTL DEF ReconcileSpec

(***************************************************************************)
(*                              Tenancy scopes                             *)
(***************************************************************************)

\* How far a frame has come: never past the bootstrappers there are.
FrameBounded(f) ==
  f.at \in 0 .. Cardinality(Bootstrappers) + 1 /\ f.done \in 0 .. Cardinality(Bootstrappers)

FramesBounded ==
  \A t \in Tasks : /\ Len(stack[t]) <= MaxDepth
                   /\ \A i \in 1 .. Len(stack[t]) : FrameBounded(stack[t][i])

Write == [owner : Owners \cup {NoScope}, by : ScopeTenants \cup {NoScope},
          bypass : BOOLEAN, named : BOOLEAN]

ScopeRest ==
  /\ singletons \in BOOLEAN
  /\ owner \in [Rows -> Owners \cup {NoScope, "gone"}]
  /\ held \in [Tasks -> Held]
  /\ wrote \in Write
  /\ changes \in 0 .. MaxChanges

\* No registry holds more bootstrappers than there are.
LEMMA OrderIsShort ==
  ASSUME ScopeAssumption, FramesInv
  PROVE  /\ Len(order) \in Nat /\ Cardinality(Bootstrappers) \in Nat
         /\ Len(order) <= Cardinality(Bootstrappers)
  <1>1. IsFiniteSet(Bootstrappers)
    BY DEF ScopeAssumption
  <1>2. PICK n \in Nat : n = Len(order) /\ order \in [1 .. n -> Bootstrappers]
    BY DEF FramesInv
  <1>3. order \in Injection(1 .. n, Bootstrappers)
    BY <1>2 DEF FramesInv, Injection
  <1>4. Cardinality(1 .. n) <= Cardinality(Bootstrappers)
    BY <1>1, <1>3, FS_Injection
  <1>5. Cardinality(1 .. n) = n
    <2>1. PICK c \in Int : c = 1
      OBVIOUS
    <2>2. n \in Int
      BY <1>2
    <2>3. Cardinality(c .. n) = IF c > n THEN 0 ELSE n - c + 1
      BY <2>2, FS_Interval
    <2> QED
      BY <1>2, <2>1, <2>3
  <1>6. Cardinality(Bootstrappers) \in Nat
    BY <1>1, FS_CardinalityType
  <1> QED
    BY <1>2, <1>4, <1>5, <1>6

LEMMA BoundsReplaced ==
  ASSUME FramesInv, FramesBounded, NEW t \in Tasks, NEW f, stack[t] # << >>, SetTop(t, f), FrameBounded(f)
  PROVE  FramesBounded'
  <1>1. stack[t] \in Seq(AnyFrame) /\ Len(stack[t]) \in Nat \ {0}
    BY DEF FramesInv
  <1>2. stack'[t] = Append(Front(stack[t]), f) /\ \A u \in Tasks : u # t => stack'[u] = stack[u]
    BY DEF FramesInv, SetTop
  <1>3. /\ Front(stack[t]) \in Seq(AnyFrame) /\ Len(Front(stack[t])) = Len(stack[t]) - 1
        /\ \A i \in 1 .. Len(stack[t]) - 1 : Front(stack[t])[i] = stack[t][i]
    BY <1>1 DEF Front
  <1>4. /\ Len(stack'[t]) = Len(stack[t]) /\ stack'[t][Len(stack[t])] = f
        /\ \A i \in 1 .. Len(stack[t]) - 1 : stack'[t][i] = stack[t][i]
    BY <1>1, <1>2, <1>3
  <1>5. ASSUME NEW i \in 1 .. Len(stack'[t]) PROVE FrameBounded(stack'[t][i])
    BY <1>1, <1>4, <1>5 DEF FramesBounded
  <1> QED
    BY <1>2, <1>4, <1>5 DEF FramesBounded, FrameBounded

LEMMA BoundsPushed ==
  ASSUME ScopeAssumption, FramesInv, FramesBounded, NEW t \in Tasks, NEW kind, NEW tenant, NEW phase,
         Push(t, NewFrame(kind, tenant, phase)), Len(stack[t]) < MaxDepth
  PROVE  FramesBounded'
  <1>0. Cardinality(Bootstrappers) \in Nat /\ MaxDepth \in Nat
    BY OrderIsShort DEF ScopeAssumption
  <1>1. stack[t] \in Seq(AnyFrame) /\ Len(stack[t]) \in Nat
    BY DEF FramesInv
  <1>2. PICK f : f = NewFrame(kind, tenant, phase)
    OBVIOUS
  <1>3. stack'[t] = Append(stack[t], f) /\ \A u \in Tasks : u # t => stack'[u] = stack[u]
    BY <1>2 DEF FramesInv, Push
  <1>4. FrameBounded(f)
    BY <1>0, <1>2 DEF NewFrame, FrameBounded
  <1>5. /\ Len(stack'[t]) = Len(stack[t]) + 1 /\ stack'[t][Len(stack[t]) + 1] = f
        /\ \A i \in 1 .. Len(stack[t]) : stack'[t][i] = stack[t][i]
    BY <1>1, <1>3
  <1>6. ASSUME NEW i \in 1 .. Len(stack'[t]) PROVE FrameBounded(stack'[t][i])
    BY <1>1, <1>4, <1>5, <1>6 DEF FramesBounded
  <1>7. Len(stack'[t]) <= MaxDepth
    BY <1>0, <1>1, <1>5
  <1> QED
    BY <1>3, <1>6, <1>7 DEF FramesBounded, FrameBounded

LEMMA BoundsPopped ==
  ASSUME FramesInv, FramesBounded, ScopeAssumption, NEW t \in Tasks, stack[t] # << >>, Pop(t)
  PROVE  FramesBounded'
  <1>0. MaxDepth \in Nat
    BY DEF ScopeAssumption
  <1>1. stack[t] \in Seq(AnyFrame) /\ Len(stack[t]) \in Nat \ {0}
    BY DEF FramesInv
  <1>2. stack'[t] = Front(stack[t]) /\ \A u \in Tasks : u # t => stack'[u] = stack[u]
    BY DEF FramesInv, Pop
  <1>3. /\ Len(stack'[t]) = Len(stack[t]) - 1
        /\ \A i \in 1 .. Len(stack[t]) - 1 : stack'[t][i] = stack[t][i]
    BY <1>1, <1>2 DEF Front
  <1>4. Len(stack'[t]) <= MaxDepth
    BY <1>0, <1>1, <1>3 DEF FramesBounded
  <1>5. \A i \in 1 .. Len(stack'[t]) : FrameBounded(stack'[t][i])
    BY <1>1, <1>3 DEF FramesBounded
  <1> QED
    BY <1>2, <1>4, <1>5 DEF FramesBounded, FrameBounded

\* What a scope does to its frame keeps it within the bounds.
LEMMA FrameStaysBounded ==
  ASSUME ScopeAssumption, FramesInv, NEW f, FrameOK(f), FrameBounded(f)
  PROVE  /\ f.kind = "run" => FrameBounded(Unwound(f))
         /\ FrameBounded([f EXCEPT !.phase = "body"])
         /\ f.phase = "enter" /\ f.at <= Len(order) =>
              FrameBounded([f EXCEPT !.entered = Append(f.entered, order[f.at]),
                                     !.done = f.done + 1, !.at = f.at + 1])
         /\ \A l : f.at > 0 => FrameBounded([f EXCEPT !.at = f.at - 1, !.left = l])
  <1>1. PICK n \in Nat : n = Cardinality(Bootstrappers) /\ Len(order) \in 0 .. n
    BY OrderIsShort
  <1>2. f \in AnyFrame /\ f.at \in 0 .. n + 1 /\ f.done \in 0 .. n
        /\ (f.phase = "enter" => f.at = f.done + 1)
    BY <1>1 DEF FrameOK, FrameBounded
  <1>3. \A g : g.at \in 0 .. n + 1 /\ g.done \in 0 .. n => FrameBounded(g)
    BY <1>1 DEF FrameBounded
  <1>4. FrameBounded(Unwound(f))
    <2>1. Unwound(f).at \in 0 .. n /\ Unwound(f).done = f.done
      BY <1>1, <1>2 DEF Unwound, AnyFrame
    <2> QED
      BY <1>1, <1>2, <1>3, <2>1
  <1>5. FrameBounded([f EXCEPT !.phase = "body"])
    <2>1. [f EXCEPT !.phase = "body"].at = f.at /\ [f EXCEPT !.phase = "body"].done = f.done
      BY <1>2 DEF AnyFrame
    <2> QED
      BY <1>2, <1>3, <2>1
  <1>6. ASSUME f.phase = "enter", f.at <= Len(order)
        PROVE  FrameBounded([f EXCEPT !.entered = Append(f.entered, order[f.at]),
                                      !.done = f.done + 1, !.at = f.at + 1])
    <2>1. PICK g : g = [f EXCEPT !.entered = Append(f.entered, order[f.at]),
                                 !.done = f.done + 1, !.at = f.at + 1]
      OBVIOUS
    <2>2. g.at = f.at + 1 /\ g.done = f.done + 1
      BY <1>2, <2>1 DEF AnyFrame
    <2>3. g.at \in 0 .. n + 1 /\ g.done \in 0 .. n
      BY <1>1, <1>2, <1>6, <2>2
    <2> QED
      BY <1>3, <2>1, <2>3
  <1>7. ASSUME NEW l, f.at > 0 PROVE FrameBounded([f EXCEPT !.at = f.at - 1, !.left = l])
    <2>1. PICK g : g = [f EXCEPT !.at = f.at - 1, !.left = l]
      OBVIOUS
    <2>2. g.at = f.at - 1 /\ g.done = f.done
      BY <1>2, <2>1 DEF AnyFrame
    <2>3. g.at \in 0 .. n + 1 /\ g.done \in 0 .. n
      BY <1>1, <1>2, <1>7, <2>2
    <2> QED
      BY <1>3, <2>1, <2>3
  <1> QED
    BY <1>4, <1>5, <1>6, <1>7

LEMMA BoundsStep ==
  ASSUME ScopeAssumption, FramesInv, FramesBounded, [ScopeNext]_scopeVars
  PROVE  FramesBounded'
  <1>1. ASSUME NEW t \in Tasks, NEW tenant \in ScopeTenants, RunIn(t, tenant) PROVE FramesBounded'
    BY <1>1, BoundsPushed DEF RunIn
  <1>2. ASSUME NEW t \in Tasks, NEW tenant \in ScopeTenants, Request(t, tenant) PROVE FramesBounded'
    <2>1. Len(stack[t]) < MaxDepth
      BY <1>2 DEF Request, ScopeAssumption
    <2> QED
      BY <1>2, <2>1, BoundsPushed DEF Request
  <1>3. ASSUME NEW t \in Tasks, Unscoped(t) PROVE FramesBounded'
    BY <1>3, BoundsPushed DEF Unscoped
  <1>4. ASSUME NEW t \in Tasks, ScopeStep(t) PROVE FramesBounded'
    <2>1. stack[t] # << >>
      BY <1>4 DEF ScopeStep, Enter, EnterFails, AllEntered, Entering, BodyEnds, Leave, AllLeft
    <2>2. PICK f : f = Top(t) /\ FrameOK(f) /\ FrameBounded(f)
      <3>1. Len(stack[t]) \in Nat \ {0}
        BY <2>1 DEF FramesInv
      <3>2. FrameBounded(Top(t))
        BY <3>1 DEF FramesBounded, Top, Last
      <3> QED
        BY <2>1, <3>2, TopIsOK
    <2>3. CASE Enter(t)
      <3>1. PICK g : g = [f EXCEPT !.entered = Append(f.entered, order[f.at]),
                                   !.done = f.done + 1, !.at = f.at + 1]
        OBVIOUS
      <3>2. SetTop(t, g) /\ f.phase = "enter" /\ f.at <= Len(order)
        BY <2>2, <2>3, <3>1 DEF Enter, Entering
      <3>3. FrameBounded(g)
        BY <2>2, <3>1, <3>2, FrameStaysBounded
      <3> QED
        BY <2>1, <3>2, <3>3, BoundsReplaced
    <2>4. CASE EnterFails(t)
      <3>1. SetTop(t, Unwound(f)) /\ f.phase = "enter" /\ f.kind = "run"
        BY <2>2, <2>4 DEF EnterFails, Entering, FrameOK
      <3> QED
        BY <2>1, <2>2, <3>1, FrameStaysBounded, BoundsReplaced
    <2>5. CASE AllEntered(t)
      <3>1. PICK g : g = [f EXCEPT !.phase = "body"]
        OBVIOUS
      <3>2. SetTop(t, g) /\ FrameBounded(g)
        BY <2>2, <2>5, <3>1, FrameStaysBounded DEF AllEntered
      <3> QED
        BY <2>1, <3>2, BoundsReplaced
    <2>6. CASE BodyEnds(t)
      <3>1. CASE f.kind = "run"
        <4>1. SetTop(t, Unwound(f)) /\ FrameBounded(Unwound(f))
          BY <2>2, <2>6, <3>1, FrameStaysBounded DEF BodyEnds
        <4> QED
          BY <2>1, <4>1, BoundsReplaced
      <3>2. CASE f.kind # "run"
        BY <2>1, <2>2, <2>6, <3>2, BoundsPopped DEF BodyEnds
      <3> QED
        BY <3>1, <3>2
    <2>7. CASE Leave(t)
      <3>1. PICK l : l = IF f.at \in DOMAIN order /\ order[f.at] \in Leavers
                         THEN Append(f.left, order[f.at]) ELSE f.left
        OBVIOUS
      <3>2. PICK g : g = [f EXCEPT !.at = f.at - 1, !.left = l]
        OBVIOUS
      <3>3. SetTop(t, g) /\ f.at > 0
        BY <2>2, <2>7, <3>1, <3>2 DEF Leave, LeavePosition
      <3>4. FrameBounded(g)
        BY <2>2, <3>2, <3>3, FrameStaysBounded
      <3> QED
        BY <2>1, <3>3, <3>4, BoundsReplaced
    <2>8. CASE AllLeft(t)
      BY <2>1, <2>8, BoundsPopped DEF AllLeft
    <2> QED
      BY <1>4, <2>3, <2>4, <2>5, <2>6, <2>7, <2>8 DEF ScopeStep
  <1>5. ASSUME stack' = stack PROVE FramesBounded'
    BY <1>5 DEF FramesBounded, FrameBounded
  <1>6. ASSUME NEW b \in Bootstrappers, Unregister(b) PROVE FramesBounded'
    <2>1. ASSUME NEW t \in Tasks
          PROVE  /\ Len(stack'[t]) <= MaxDepth
                 /\ \A i \in 1 .. Len(stack'[t]) : FrameBounded(stack'[t][i])
      <3>1. stack[t] \in Seq(AnyFrame) /\ Len(stack[t]) \in Nat
        BY DEF FramesInv
      <3>2. stack'[t] = [j \in 1 .. Len(stack[t]) |-> [stack[t][j] EXCEPT !.changed = TRUE]]
        BY <1>6, <3>1 DEF Unregister
      <3>3. ASSUME NEW j \in 1 .. Len(stack[t]) PROVE FrameBounded([stack[t][j] EXCEPT !.changed = TRUE])
        <4>1. PICK f : f = stack[t][j] /\ f \in AnyFrame /\ FrameBounded(f)
          BY <3>1, <3>3 DEF FramesBounded
        <4>2. PICK g : g = [f EXCEPT !.changed = TRUE]
          OBVIOUS
        <4>3. g.at = f.at /\ g.done = f.done
          BY <4>1, <4>2 DEF AnyFrame
        <4> QED
          BY <4>1, <4>2, <4>3 DEF FrameBounded
      <3>4. Len(stack'[t]) = Len(stack[t])
        <4>1. \A j \in 1 .. Len(stack[t]) : [stack[t][j] EXCEPT !.changed = TRUE] \in AnyFrame
          <5>1. ASSUME NEW j \in 1 .. Len(stack[t]) PROVE [stack[t][j] EXCEPT !.changed = TRUE] \in AnyFrame
            <6>1. PICK f : f = stack[t][j] /\ f \in AnyFrame
              BY <3>1, <5>1
            <6>2. [f EXCEPT !.changed = TRUE] \in AnyFrame
              BY <6>1 DEF AnyFrame
            <6> QED
              BY <6>1, <6>2
          <5> QED
            BY <5>1
        <4>2. stack'[t] \in [1 .. Len(stack[t]) -> AnyFrame]
          BY <3>2, <4>1
        <4> QED
          BY <3>1, <4>2
      <3> QED
        BY <3>1, <3>2, <3>3, <3>4 DEF FramesBounded
    <2> QED
      BY <2>1 DEF FramesBounded, FrameBounded
  <1>7. CASE UNCHANGED scopeVars
    BY <1>5, <1>7 DEF scopeVars
  <1>8. ASSUME NEW b \in Bootstrappers, RegisterBootstrapper(b) PROVE FramesBounded'
    BY <1>5, <1>8 DEF RegisterBootstrapper
  <1>9. ASSUME NEW t \in Tasks, RowStep(t) PROVE FramesBounded'
    BY <1>5, <1>9 DEF RowStep, CreateRow, Fetch, QueryWrites, NamesTenant, SaveInstance, Querying
  <1>10. CASE \E b \in Bootstrappers : RegisterBootstrapper(b) \/ Unregister(b)
    BY <1>6, <1>8, <1>10
  <1>11. CASE \E t \in Tasks : \/ \E tenant \in ScopeTenants : RunIn(t, tenant) \/ Request(t, tenant)
                              \/ Unscoped(t) \/ ScopeStep(t) \/ RowStep(t)
    BY <1>1, <1>2, <1>3, <1>4, <1>9, <1>11
  <1> QED
    BY <1>7, <1>10, <1>11 DEF ScopeNext

LEMMA ScopeRestStep ==
  ASSUME ScopeAssumption, FramesInv, RowInv, ScopeRest, [ScopeNext]_scopeVars
  PROVE  ScopeRest'
  <1>0. MaxChanges \in Nat /\ "gone" \notin ScopeTenants \cup {NoScope} /\ Nobody \in Held
    BY DEF ScopeAssumption, Nobody, Held
  <1>1. ASSUME NEW t \in Tasks, NEW o \in Owners \cup {NoScope}, NEW n \in BOOLEAN, RowWrite(t, o, n)
        PROVE  wrote' \in Write
    <2>1. PICK b \in BOOLEAN : b = (Scope(t) = NoScope)
      OBVIOUS
    <2>2. wrote' = [owner |-> o, by |-> CurrentId(t), bypass |-> b, named |-> n]
      BY <1>1, <2>1 DEF RowWrite
    <2> QED
      BY <2>2, CurrentIsATenant DEF Write
  <1>2. ASSUME NEW t \in Tasks, NEW r \in Rows, NEW o \in Owners \cup {"gone"}, NEW h \in Held,
               RowBecomes(t, r, o, h)
        PROVE  owner' \in [Rows -> Owners \cup {NoScope, "gone"}] /\ held' \in [Tasks -> Held]
    <2>1. ASSUME NEW k \in Tasks PROVE [held[k] EXCEPT !.as = "stale"] \in Held
      BY DEF ScopeRest, Held
    <2> QED
      BY <1>2, <2>1 DEF RowBecomes, ScopeRest
  <1>3. ASSUME NEW r \in Rows, NEW o \in Owners \cup {"unset"} PROVE Instance(r, o) \in Held
    BY <1>3 DEF Instance, Held
  <1>4. ASSUME NEW t \in Tasks, NEW r \in Rows, CreateRow(t, r) PROVE ScopeRest'
    <2>1. PICK o \in Owners, i \in Owners \cup {"unset"}, n \in BOOLEAN :
            RowBecomes(t, r, o, Instance(r, i)) /\ RowWrite(t, o, n)
      <3>1. Scope(t) \in ScopeTenants \cup {NoScope}
        BY CurrentIsATenant
      <3> QED
        BY <1>4, <3>1 DEF CreateRow, Owners
    <2> QED
      BY <1>1, <1>2, <1>3, <1>4, <2>1 DEF CreateRow, Querying, ScopeRest
  <1>5. ASSUME NEW t \in Tasks, NEW r \in Rows, Fetch(t, r) PROVE ScopeRest'
    <2>1. PICK o \in Owners \cup {"unset"} : held' = [held EXCEPT ![t] = Instance(r, o)]
      BY <1>5 DEF Fetch, Visible
    <2>2. held' \in [Tasks -> Held]
      BY <1>3, <2>1 DEF ScopeRest
    <2> QED
      BY <1>5, <2>2 DEF Fetch, Querying, ScopeRest
  <1>13. ASSUME NEW t \in Tasks, NEW r \in Rows, QueryWrites(t, r) PROVE ScopeRest'
    <2>1. PICK o \in Owners \cup {"gone"}, h \in Held : RowBecomes(t, r, o, h)
      <3>1. held[t] \in Held /\ [held[t] EXCEPT !.as = "stale"] \in Held
        BY DEF ScopeRest, Held
      <3> QED
        BY <1>13, <3>1 DEF QueryWrites
    <2>2. owner[r] \in Owners /\ RowWrite(t, owner[r], FALSE)
      BY <1>13 DEF QueryWrites, Visible
    <2> QED
      BY <1>1, <1>2, <1>13, <2>1, <2>2 DEF QueryWrites, Querying, ScopeRest
  <1>14. ASSUME NEW t \in Tasks, SaveInstance(t) PROVE ScopeRest'
    <2>1. PICK h : h = held[t]
      OBVIOUS
    <2>2. h \in Held /\ owner[h.row] \in Owners /\ h # Nobody
      BY <1>14, <2>1 DEF SaveInstance, ScopeRest
    <2>3. h.row \in Rows /\ (h.as = "named" => h.owner \in Owners)
      BY <2>1, <2>2 DEF RowInv, HoldsTheOwner, Held
    <2>4. RowWrite(t, owner[h.row], h.as # "read")
      BY <1>14, <2>1 DEF SaveInstance
    <2>5. wrote' \in Write
      <3>1. PICK n \in BOOLEAN : n = (h.as # "read")
        OBVIOUS
      <3>2. RowWrite(t, owner[h.row], n)
        BY <2>4, <3>1
      <3> QED
        BY <1>1, <2>2, <3>2
    <2>6. owner' \in [Rows -> Owners \cup {NoScope, "gone"}] /\ held' \in [Tasks -> Held]
      <3>1. CASE RowBecomes(t, h.row, "gone", h)
        BY <1>2, <2>2, <2>3, <3>1
      <3>2. CASE h.as = "named" /\ RowBecomes(t, h.row, h.owner, Instance(h.row, h.owner))
        BY <1>2, <1>3, <2>3, <3>2
      <3>3. CASE UNCHANGED <<owner, held>>
        BY <3>3 DEF ScopeRest
      <3> QED
        BY <1>14, <2>1, <3>1, <3>2, <3>3 DEF SaveInstance
    <2> QED
      BY <1>14, <2>5, <2>6 DEF SaveInstance, Querying, ScopeRest
  <1>15. ASSUME NEW t \in Tasks, NEW o \in Owners, NamesTenant(t, o) PROVE ScopeRest'
    <2>1. [held[t] EXCEPT !.owner = o, !.as = "named"] \in Held
      BY DEF ScopeRest, Held
    <2>2. held' = [held EXCEPT ![t] = [held[t] EXCEPT !.owner = o, !.as = "named"]]
      BY <1>15 DEF NamesTenant, ScopeRest
    <2>3. held' \in [Tasks -> Held]
      BY <2>1, <2>2 DEF ScopeRest
    <2> QED
      BY <1>15, <2>3 DEF NamesTenant, ScopeRest
  <1>16. ASSUME NEW t \in Tasks, RowStep(t) PROVE ScopeRest'
    BY <1>4, <1>5, <1>13, <1>14, <1>15, <1>16 DEF RowStep
  <1>6. ASSUME UNCHANGED <<owner, wrote, changes>>, singletons' = singletons \/ singletons' = TRUE,
               NEW t \in Tasks, held' = held \/ held' = [held EXCEPT ![t] = Nobody]
        PROVE  ScopeRest'
    <2>1. held' \in [Tasks -> Held]
      BY <1>0, <1>6 DEF ScopeRest
    <2>2. singletons' \in BOOLEAN
      BY <1>6 DEF ScopeRest
    <2> QED
      BY <1>6, <2>1, <2>2 DEF ScopeRest
  <1>7. ASSUME NEW t \in Tasks, ScopeStep(t) PROVE ScopeRest'
    <2>1. /\ UNCHANGED <<owner, wrote, changes, singletons>>
          /\ held' = held \/ held' = [held EXCEPT ![t] = Nobody]
      BY <1>7 DEF ScopeStep, Enter, EnterFails, AllEntered, BodyEnds, Leave, AllLeft
    <2> QED
      BY <1>6, <2>1
  <1>8. ASSUME NEW t \in Tasks,
               Unscoped(t) \/ \E tenant \in ScopeTenants : RunIn(t, tenant) \/ Request(t, tenant)
        PROVE  ScopeRest'
    <2>1. UNCHANGED <<owner, wrote, held, changes>> /\ (singletons' = singletons \/ singletons' = TRUE)
      BY <1>8 DEF Unscoped, RunIn, Request
    <2> QED
      BY <1>6, <2>1
  <1>9. ASSUME NEW b \in Bootstrappers, RegisterBootstrapper(b) \/ Unregister(b) PROVE ScopeRest'
    <2>1. UNCHANGED <<owner, wrote, held, singletons>> /\ changes < MaxChanges /\ changes' = changes + 1
      BY <1>9 DEF RegisterBootstrapper, Unregister
    <2>2. changes' \in 0 .. MaxChanges
      BY <1>0, <2>1 DEF ScopeRest
    <2> QED
      BY <2>1, <2>2 DEF ScopeRest
  <1>10. CASE UNCHANGED scopeVars
    BY <1>10 DEF scopeVars, ScopeRest
  <1>11. CASE \E b \in Bootstrappers : RegisterBootstrapper(b) \/ Unregister(b)
    BY <1>9, <1>11
  <1>12. CASE \E t \in Tasks : \/ \E tenant \in ScopeTenants : RunIn(t, tenant) \/ Request(t, tenant)
                               \/ Unscoped(t) \/ ScopeStep(t) \/ RowStep(t)
    BY <1>7, <1>8, <1>12, <1>16
  <1> QED
    BY <1>10, <1>11, <1>12 DEF ScopeNext

\* The registry, the frames of every task, the rows and what was written are of their
\* types: no frame is ever past the bootstrappers there are (bootstrapper_registry.ts).
THEOREM ScopeTypes ==
  ASSUME ScopeAssumption PROVE ScopeSpec => []ScopeTypeOK
  <1>1. ScopeInit => FramesInv /\ RowInv /\ FramesBounded /\ ScopeRest
    <2> SUFFICES ASSUME ScopeInit PROVE FramesInv /\ RowInv /\ FramesBounded /\ ScopeRest
      OBVIOUS
    <2>1. FramesInv /\ RowInv
      BY FramesStart, RowsStart
    <2>2. FramesBounded
      BY DEF ScopeInit, FramesBounded, ScopeAssumption
    <2>3. ScopeRest
      <3>1. singletons \in BOOLEAN /\ owner \in [Rows -> Owners \cup {NoScope, "gone"}]
        BY DEF ScopeInit
      <3>4. changes \in 0 .. MaxChanges
        BY DEF ScopeInit, ScopeAssumption
      <3>2. held \in [Tasks -> Held]
        BY DEF ScopeInit, Held, Nobody
      <3>3. wrote \in Write
        BY DEF ScopeInit, NoWrite, Write
      <3> QED
        BY <3>1, <3>2, <3>3, <3>4 DEF ScopeRest
    <2> QED
      BY <2>1, <2>2, <2>3
  <1>2. FramesInv /\ RowInv /\ FramesBounded /\ ScopeRest /\ [ScopeNext]_scopeVars
          => (FramesInv /\ RowInv /\ FramesBounded /\ ScopeRest)'
    BY FramesStep, RowsStep, BoundsStep, ScopeRestStep
  <1>3. FramesInv /\ FramesBounded /\ ScopeRest => ScopeTypeOK
    <2> SUFFICES ASSUME FramesInv, FramesBounded, ScopeRest PROVE ScopeTypeOK
      OBVIOUS
    <2>1. ASSUME NEW t \in Tasks PROVE stack[t] \in Seq(Frame) /\ Len(stack[t]) <= MaxDepth
      <3>1. stack[t] \in Seq(AnyFrame) /\ Len(stack[t]) <= MaxDepth
        BY DEF FramesInv, FramesBounded
      <3>2. ASSUME NEW i \in 1 .. Len(stack[t]) PROVE stack[t][i] \in Frame
        <4>1. stack[t][i] \in AnyFrame /\ FrameBounded(stack[t][i])
          BY <3>1, <3>2 DEF FramesBounded
        <4> QED
          BY <4>1 DEF FrameBounded, AnyFrame, Frame
      <3>3. Len(stack[t]) \in Nat /\ stack[t] = [i \in 1 .. Len(stack[t]) |-> stack[t][i]]
        BY <3>1
      <3>4. stack[t] \in [1 .. Len(stack[t]) -> Frame]
        BY <3>2, <3>3
      <3> QED
        BY <3>1, <3>3, <3>4
    <2> QED
      BY <2>1 DEF ScopeTypeOK, ScopeRest, FramesInv, Write
  <1> QED
    BY <1>1, <1>2, <1>3, PTL DEF ScopeSpec

(***************************************************************************)
(*                          The boots of a process                         *)
(***************************************************************************)

DriversThereAre == DriverNames \cup HostDrivers

BootRest ==
  /\ process \in {"down", "registered", "booted", "up", "refused"} /\ boots \in 0 .. MaxBoots
  /\ {config, current} \subseteq MultitenancyConfig \cup {Unset}
  /\ process = "registered" => config \in MultitenancyConfig
  /\ drivers \in [names : SUBSET DriversThereAre, active : DriversThereAre \cup {Unset}]
  /\ helpers \subseteq Optional \cup {"cache"} /\ wired \subseteq {"destroy", "usage", "quota_mail"}
  /\ scope \in BootTenants \cup {Unset} /\ slotWrites \in 0 .. MaxSlotWrites

LEMMA BootRestKeptByLife ==
  ASSUME BootAssumption, BootRest,
         \/ Register \/ RefusesShape \/ Boot \/ Start \/ Shutdown
         \/ \E n \in HostDrivers : HostRegisters(n)
  PROVE  BootRest'
  <1>0. MaxBoots \in Nat
    BY DEF BootAssumption
  <1>1. CASE Register
    <2>1. drivers' \in [names : SUBSET DriversThereAre, active : DriversThereAre \cup {Unset}]
      BY <1>1 DEF Register
    <2>2. boots' \in 0 .. MaxBoots
      BY <1>0, <1>1 DEF Register, BootRest
    <2> QED
      BY <1>1, <2>1, <2>2 DEF Register, Caches, Helping, BootRest
  <1>2. ASSUME NEW n \in HostDrivers, HostRegisters(n) PROVE BootRest'
    <2>1. drivers' \in [names : SUBSET DriversThereAre, active : DriversThereAre \cup {Unset}]
      BY <1>2 DEF HostRegisters, AddDriver, BootRest, DriversThereAre
    <2> QED
      BY <1>2, <2>1 DEF HostRegisters, Caches, Helping, BootRest
  <1>3. CASE RefusesShape
    BY <1>3 DEF RefusesShape, Caches, Helping, BootRest
  <1>4. CASE Boot
    <2>1. config \in MultitenancyConfig /\ config.driver \in DriversThereAre
      BY <1>4 DEF Boot, BootRest, MultitenancyConfig, DriversThereAre
    <2>2. drivers' \in [names : SUBSET DriversThereAre, active : DriversThereAre \cup {Unset}]
      BY <1>4, <2>1 DEF Boot, AddDriver, BootRest
    <2>3. process' \in {"refused", "booted"} /\ helpers' \subseteq Optional \cup {"cache"}
      BY <1>4 DEF Boot, RegisterOptional
    <2> QED
      BY <1>4, <2>1, <2>2, <2>3 DEF Boot, Caches, Helping, BootRest
  <1>5. CASE Start
    BY <1>5 DEF Start, Listeners, Caches, Helping, BootRest
  <1>6. CASE Shutdown
    BY <1>6 DEF Shutdown, BootRest
  <1> QED
    BY <1>1, <1>2, <1>3, <1>4, <1>5, <1>6

LEMMA BootRestKeptByServing ==
  ASSUME BootAssumption, BootRest,
         \/ GetActiveDriver \/ ResolvesRequest \/ EndScope \/ UseHandle
         \/ \E t \in BootTenants : RunScope(t)
         \/ \E k \in Optional : OpenHandle(k)
         \/ \E k \in Optional \cup {"cache"} : UseScope(k)
  PROVE  BootRest'
  <1>0. MaxSlotWrites \in Nat
    BY DEF BootAssumption
  <1>1. CASE GetActiveDriver
    BY <1>1 DEF GetActiveDriver, Helping, BootRest
  <1>7. CASE ResolvesRequest
    BY <1>7 DEF ResolvesRequest, Helping, BootRest
  <1>2. CASE EndScope
    BY <1>2 DEF EndScope, Caches, BootRest
  <1>3. ASSUME NEW t \in BootTenants, RunScope(t) PROVE BootRest'
    BY <1>3 DEF RunScope, BootRest
  <1>4. ASSUME NEW k \in Optional, OpenHandle(k) PROVE BootRest'
    BY <1>4 DEF OpenHandle, Caches, BootRest
  <1>5. CASE UseHandle
    BY <1>0, <1>5 DEF UseHandle, Caches, BootRest
  <1>6. ASSUME NEW k \in Optional \cup {"cache"}, UseScope(k) PROVE BootRest'
    BY <1>0, <1>6 DEF UseScope, Caches, BootRest
  <1> QED
    BY <1>1, <1>2, <1>3, <1>4, <1>5, <1>6, <1>7

\* The state of a process that boots, serves and shuts down is of its types: the caches
\* name only containers it has booted, the registry only drivers there are.
THEOREM BootTypes ==
  ASSUME BootAssumption PROVE BootSpec => []BootTypeOK
  <1>1. BootInit => BootInv /\ BootRest
    <2> SUFFICES ASSUME BootInit PROVE BootInv /\ BootRest
      OBVIOUS
    <2>1. drivers \in [names : SUBSET DriversThereAre, active : DriversThereAre \cup {Unset}]
      BY DEF BootInit
    <2> QED
      BY <2>1, BootStarts DEF BootInit, BootRest, BootAssumption
  <1>2. BootInv /\ BootRest /\ [BootNext]_boot => BootInv' /\ BootRest'
    <2> SUFFICES ASSUME BootInv, BootRest, [BootNext]_boot PROVE BootInv' /\ BootRest'
      OBVIOUS
    <2>1. BootInv'
      BY BootStep
    <2>2. ASSUME UNCHANGED boot PROVE BootRest'
      BY <2>2 DEF boot, BootRest
    <2>3. ASSUME BootNext PROVE BootRest'
      <3>1. \/ \/ Register \/ RefusesShape \/ Boot \/ Start \/ Shutdown
               \/ \E n \in HostDrivers : HostRegisters(n)
            \/ \/ GetActiveDriver \/ ResolvesRequest \/ EndScope \/ UseHandle
               \/ \E t \in BootTenants : RunScope(t)
               \/ \E k \in Optional : OpenHandle(k)
               \/ \E k \in Optional \cup {"cache"} : UseScope(k)
        BY <2>3, Zenon DEF BootNext
      <3> QED
        BY <3>1, BootRestKeptByLife, BootRestKeptByServing
    <2> QED
      BY <2>1, <2>2, <2>3
  <1>3. BootInv /\ BootRest => BootTypeOK
    <2> SUFFICES ASSUME BootInv, BootRest PROVE BootTypeOK
      OBVIOUS
    <2>1. /\ {driverOf, logOf, resolverOf, asked} \subseteq 0 .. MaxBoots
          /\ used \subseteq 0 .. MaxBoots /\ resolved \subseteq 1 .. MaxBoots
      BY DEF BootInv, CachesOK, BootRest, BootAssumption
    <2> QED
      BY <2>1 DEF BootTypeOK, BootRest, DriversThereAre
  <1> QED
    BY <1>1, <1>2, <1>3, PTL DEF BootSpec

(***************************************************************************)
(*                         The commands on a fleet                         *)
(***************************************************************************)

FleetRest ==
  /\ fleetStatus \in [FleetTenants -> {"active", "suspended", "deleted"}]
  /\ store \in [FleetTenants -> Stores]
  /\ fleetFaults \in 0 .. MaxFleetFaults /\ deletes \in 0 .. MaxDeletes

\* Steps that leave every tenant its status: what they write is a stage of a store.
LEMMA FleetRestKeptByCommands ==
  ASSUME FleetAssumption, FleetInv, FleetRest, NEW r \in Runs, CommandStep(r)
  PROVE  FleetRest'
  <1>0. MaxFleetFaults \in Nat
    BY DEF FleetAssumption
  <1>1. ASSUME FleetFault PROVE fleetFaults' \in 0 .. MaxFleetFaults
    BY <1>0, <1>1 DEF FleetFault, FleetRest
  <1>2. ASSUME NEW t, NEW s \in Stores, store' = [store EXCEPT ![t] = s]
        PROVE  store' \in [FleetTenants -> Stores]
    BY <1>2 DEF FleetRest
  <1>3. ASSUME Migrates(r) \/ MigrateFails(r) PROVE store' \in [FleetTenants -> Stores]
    <2>1. run[r].at \in FleetTenants
      <3>1. run[r].pc = "migrate"
        BY <1>3 DEF Migrates, MigrateFails
      <3>2. ReportOK(run[r], worked[r], told[r]) /\ AtTenant(run[r])
        BY <3>1, OnIsCommand DEF Steps, AtTenant
      <3> QED
        BY <3>2, AtIsListed
    <2>2. store[run[r].at] \in Stores
      BY <2>1 DEF FleetRest
    <2>3. Migrated(r, store[run[r].at]) \subseteq Stores /\ Stopped(r, store[run[r].at]) \subseteq Stores
      BY <2>2 DEF Migrated, Stopped, Stores
    <2>4. store' = store \/ \E s \in Stores : store' = [store EXCEPT ![run[r].at] = s]
      BY <1>3, <2>3 DEF Migrates, MigrateFails
    <2> QED
      BY <1>2, <2>4 DEF FleetRest
  <1>4. ASSUME Drops(r) \/ Creates(r) PROVE store' \in [FleetTenants -> Stores]
    <2>1. store' = store \/ \E s \in Stores : store' = [store EXCEPT ![run[r].at] = s]
      BY <1>4 DEF Drops, Creates, Stores
    <2> QED
      BY <1>2, <2>1 DEF FleetRest
  <1>5. UNCHANGED <<fleetStatus, deletes>>
    BY DEF CommandStep, CommandEnds, Takes, Breaks, Drops, Creates, OpensConnection, Before,
           Migrates, MigrateFails, Tells, Seeds, Execs
  <1>6. fleetFaults' = fleetFaults \/ FleetFault
    BY DEF CommandStep, CommandEnds, Takes, Breaks, Drops, Creates, OpensConnection, Before,
           Migrates, MigrateFails, Tells, Seeds, Execs
  <1>7. store' = store \/ Migrates(r) \/ MigrateFails(r) \/ Drops(r) \/ Creates(r)
    BY DEF CommandStep, CommandEnds, Takes, Breaks, OpensConnection, Before, Tells, Seeds, Execs
  <1>8. store' \in [FleetTenants -> Stores]
    BY <1>3, <1>4, <1>7 DEF FleetRest
  <1>9. fleetFaults' \in 0 .. MaxFleetFaults
    BY <1>1, <1>6 DEF FleetRest
  <1> QED
    BY <1>5, <1>8, <1>9 DEF FleetRest

\* The tenants' statuses, their stores and the commands are of their types.
THEOREM FleetTypes ==
  ASSUME FleetAssumption PROVE FleetSpec => []FleetTypeOK
  <1>0. MaxDeletes \in Nat /\ MaxFleetFaults \in Nat
    BY DEF FleetAssumption
  <1>1. FleetInit => FleetInv /\ FleetRest
    <2> SUFFICES ASSUME FleetInit PROVE FleetInv /\ FleetRest
      OBVIOUS
    <2>1. FleetInv
      BY DEF FleetInit, FleetInv
    <2>2. FleetRest
      BY <1>0 DEF FleetInit, FleetRest, Stores
    <2> QED
      BY <2>1, <2>2
  <1>2. FleetInv /\ FleetRest /\ [FleetNext]_fleetVars => FleetInv' /\ FleetRest'
    <2> SUFFICES ASSUME FleetInv, FleetRest, [FleetNext]_fleetVars PROVE FleetInv' /\ FleetRest'
      OBVIOUS
    <2>1. FleetInv'
      BY FleetStep
    <2>2. ASSUME NEW r \in Runs, CommandStep(r) PROVE FleetRest'
      BY <2>2, FleetRestKeptByCommands
    <2>3. ASSUME NEW r \in Runs, NEW kind \in Kinds, NEW f \in Flags, Starts(r, kind, f) PROVE FleetRest'
      BY <2>3 DEF Starts, FleetRest
    <2>4. ASSUME NEW t \in FleetTenants, Destroy(t) \/ Purges(t) PROVE FleetRest'
      <3>1. /\ fleetStatus' = fleetStatus \/ fleetStatus' = [fleetStatus EXCEPT ![t] = "deleted"]
            /\ store' = [store EXCEPT ![t] = "none"] /\ fleetFaults' = fleetFaults
            /\ deletes' = deletes \/ (deletes < MaxDeletes /\ deletes' = deletes + 1)
        BY <2>4 DEF Destroy, Purges
      <3>2. store' \in [FleetTenants -> Stores]
        BY <3>1 DEF FleetRest, Stores
      <3>3. deletes' \in 0 .. MaxDeletes
        BY <1>0, <3>1 DEF FleetRest
      <3>4. fleetStatus' \in [FleetTenants -> {"active", "suspended", "deleted"}]
        BY <3>1 DEF FleetRest
      <3> QED
        BY <3>1, <3>2, <3>3, <3>4 DEF FleetRest
    <2>5. ASSUME UNCHANGED fleetVars PROVE FleetRest'
      BY <2>5 DEF fleetVars, FleetRest
    <2>6. FleetRest'
      BY <2>2, <2>3, <2>4, <2>5 DEF FleetNext
    <2> QED
      BY <2>1, <2>6
  <1>3. FleetInv /\ FleetRest => FleetTypeOK
    BY DEF FleetInv, FleetRest, FleetTypeOK
  <1> QED
    BY <1>1, <1>2, <1>3, PTL DEF FleetSpec

(***************************************************************************)
(*                              The rate limit                             *)
(***************************************************************************)

\* A score is that of a request which has read the clock; there are no more scores than
\* requests.
RateRest ==
  /\ hitFaults \in 0 .. MaxHitFaults /\ expiry <= MaxTime + Window + 1
  /\ \A r \in Requests : hit[r].pc = "idle" <=> hit[r].at = 0
  /\ \A s \in entries : s # 0 /\ \E r \in Requests : hit[r].at = s
  /\ \A r \in Requests : hit[r].count <= Cardinality(Requests)

LEMMA FewScores ==
  ASSUME RateAssumption, LimiterTypes, RateRest
  PROVE  Cardinality(Live) \in Nat /\ Cardinality(Requests) \in Nat /\ Cardinality(Live) <= Cardinality(Requests)
  <1> DEFINE Scores == {hit[r].at : r \in Requests}
  <1>1. IsFiniteSet(Requests)
    BY DEF RateAssumption
  <1>2. IsFiniteSet(Scores) /\ Cardinality(Scores) <= Cardinality(Requests)
    <2>1. PICK f : f = [r \in Requests |-> hit[r].at]
      OBVIOUS
    <2>2. f \in Surjection(Requests, Scores)
      BY <2>1 DEF Surjection
    <2> HIDE DEF Scores
    <2> QED
      BY <1>1, <2>2, FS_Surjection
  <1>3. Live \subseteq Scores
    BY DEF Live, RateRest
  <1> HIDE DEF Scores
  <1>4. IsFiniteSet(Live) /\ Cardinality(Live) <= Cardinality(Scores)
    BY <1>2, <1>3, FS_Subset
  <1>5. Cardinality(Live) \in Nat /\ Cardinality(Scores) \in Nat /\ Cardinality(Requests) \in Nat
    BY <1>1, <1>2, <1>4, FS_CardinalityType
  <1> QED
    BY <1>2, <1>4, <1>5

\* What a request's answer or command does to it.
LEMMA RateRestKept ==
  ASSUME RateAssumption, LimiterInv, RateRest, NEW r \in Requests,
         hit' \in [Requests -> HitRecord], \A q \in Requests \ {r} : hit'[q] = hit[q],
         hit'[r].at = hit[r].at, hit[r].pc # "idle", hit'[r].pc # "idle",
         hit'[r].count <= Cardinality(Requests),
         hitFaults' \in 0 .. MaxHitFaults, expiry' <= MaxTime + Window + 1,
         entries' \subseteq entries \cup {hit[r].at}
  PROVE  RateRest'
  <1>1. \A q \in Requests : hit'[q].at = hit[q].at
    OBVIOUS
  <1>2. \A q \in Requests : hit'[q].pc = "idle" <=> hit'[q].at = 0
    BY <1>1 DEF RateRest
  <1>3. \A s \in entries' : s # 0 /\ \E q \in Requests : hit'[q].at = s
    BY <1>1 DEF RateRest
  <1>4. \A q \in Requests : hit'[q].count <= Cardinality(Requests)
    BY DEF RateRest
  <1> QED
    BY <1>2, <1>3, <1>4 DEF RateRest

LEMMA RateRestStep ==
  ASSUME RateAssumption, LimiterInv, RateRest, [RateNext]_limiter
  PROVE  RateRest'
  <1>0. /\ MaxTime \in Nat \ {0} /\ Window \in Nat \ {0} /\ MaxHitFaults \in Nat
        /\ now \in 1 .. MaxTime /\ expiry \in Nat /\ hit \in [Requests -> HitRecord] /\ LimiterTypes
    BY DEF RateAssumption, LimiterInv, LimiterTypes
  <1>1. Cardinality(Live) \in Nat /\ Cardinality(Requests) \in Nat /\ Cardinality(Live) <= Cardinality(Requests)
    BY <1>0, FewScores
  <1>2. ASSUME NEW r \in Requests, NEW command \in Pipeline, NEW next \in {"add", "card", "expire", "decide"},
               NEW count \in Nat, Executes(r, command, next, count)
        PROVE  /\ hit' \in [Requests -> HitRecord] /\ \A q \in Requests \ {r} : hit'[q] = hit[q]
               /\ hit'[r].at = hit[r].at /\ hit[r].pc # "idle" /\ hit'[r].pc # "idle" /\ hit'[r].count = count
    BY <1>2, HitExecutes DEF Pipeline
  <1>3. Live \subseteq entries
    BY DEF Live
  <1>4. ASSUME NEW r \in Requests, Trims(r) PROVE RateRest'
    <2>1. Executes(r, "trim", "add", 0) /\ UNCHANGED <<hitFaults, expiry>> /\ entries' \subseteq entries
      BY <1>3, <1>4 DEF Trims
    <2>2. /\ hit' \in [Requests -> HitRecord] /\ \A q \in Requests \ {r} : hit'[q] = hit[q]
          /\ hit'[r].at = hit[r].at /\ hit[r].pc # "idle" /\ hit'[r].pc # "idle" /\ hit'[r].count = 0
      BY <1>2, <2>1 DEF Pipeline
    <2> QED
      BY <1>1, <2>1, <2>2, RateRestKept DEF RateRest
  <1>5. ASSUME NEW r \in Requests, Adds(r) PROVE RateRest'
    <2>1. Executes(r, "add", "card", 0) /\ UNCHANGED hitFaults /\ entries' \subseteq entries \cup {hit[r].at}
      BY <1>3, <1>5 DEF Adds
    <2>2. /\ hit' \in [Requests -> HitRecord] /\ \A q \in Requests \ {r} : hit'[q] = hit[q]
          /\ hit'[r].at = hit[r].at /\ hit[r].pc # "idle" /\ hit'[r].pc # "idle" /\ hit'[r].count = 0
      BY <1>2, <2>1 DEF Pipeline
    <2>3. expiry' <= MaxTime + Window + 1
      BY <1>0, <1>5 DEF Adds, RateRest
    <2> QED
      BY <1>1, <2>1, <2>2, <2>3, RateRestKept DEF RateRest
  <1>6. ASSUME NEW r \in Requests, Counts(r) PROVE RateRest'
    <2>1. Executes(r, "card", "expire", Cardinality(Live)) /\ UNCHANGED <<hitFaults, expiry, entries>>
      BY <1>6 DEF Counts
    <2>2. /\ hit' \in [Requests -> HitRecord] /\ \A q \in Requests \ {r} : hit'[q] = hit[q]
          /\ hit'[r].at = hit[r].at /\ hit[r].pc # "idle" /\ hit'[r].pc # "idle"
          /\ hit'[r].count = Cardinality(Live)
      BY <1>1, <1>2, <2>1 DEF Pipeline
    <2> QED
      BY <1>1, <2>1, <2>2, RateRestKept DEF RateRest
  <1>7. ASSUME NEW r \in Requests, Expires(r) PROVE RateRest'
    <2>1. Executes(r, "expire", "decide", hit[r].count) /\ UNCHANGED hitFaults /\ entries' \subseteq entries
      BY <1>3, <1>7 DEF Expires
    <2>2. hit[r].count \in Nat
      BY <1>0 DEF HitRecord
    <2>3. /\ hit' \in [Requests -> HitRecord] /\ \A q \in Requests \ {r} : hit'[q] = hit[q]
          /\ hit'[r].at = hit[r].at /\ hit[r].pc # "idle" /\ hit'[r].pc # "idle"
          /\ hit'[r].count = hit[r].count
      BY <1>2, <2>1, <2>2 DEF Pipeline
    <2>4. expiry' <= MaxTime + Window + 1
      BY <1>0, <1>7 DEF Expires, RateRest
    <2> QED
      BY <1>1, <2>1, <2>3, <2>4, RateRestKept DEF RateRest
  <1>8. ASSUME NEW r \in Requests, Refused(r) \/ Disconnected(r) \/ Decides(r) PROVE RateRest'
    <2>1. PICK pc \in {"add", "card", "expire", "decide", "admitted", "passed", "refused", "unavailable"} :
            hit' = [hit EXCEPT ![r].pc = pc] /\ hit[r].pc # "idle"
      BY <1>8 DEF Refused, Disconnected, Decides
    <2>2. /\ hit' \in [Requests -> HitRecord] /\ \A q \in Requests \ {r} : hit'[q] = hit[q]
          /\ hit'[r].at = hit[r].at /\ hit'[r].pc # "idle" /\ hit'[r].count = hit[r].count
      BY <1>0, <2>1 DEF HitRecord
    <2>3. hitFaults' \in 0 .. MaxHitFaults /\ UNCHANGED <<expiry, entries>>
      BY <1>0, <1>8 DEF Refused, Disconnected, Decides, RateRest
    <2> QED
      BY <1>1, <2>1, <2>2, <2>3, RateRestKept DEF RateRest
  <1>9. ASSUME NEW r \in Requests, ReadsClock(r) PROVE RateRest'
    <2>0. PICK ahead \in 0 .. Skew, n \in Nat \ {0} :
            n = now + ahead /\ hit' = [hit EXCEPT ![r].pc = "trim", ![r].at = n, ![r].read = now]
      <3>1. PICK ahead \in 0 .. Skew :
              hit' = [hit EXCEPT ![r].pc = "trim", ![r].at = now + ahead, ![r].read = now]
        BY <1>9 DEF ReadsClock
      <3>2. now + ahead \in Nat \ {0}
        BY <1>0 DEF RateAssumption
      <3> QED
        BY <3>1, <3>2
    <2>1. /\ hit'[r].pc = "trim" /\ hit'[r].at = n /\ hit'[r].count = hit[r].count /\ hit[r].pc = "idle"
          /\ \A q \in Requests \ {r} : hit'[q] = hit[q]
      BY <1>0, <1>9, <2>0 DEF ReadsClock, HitRecord
    <2>2. hit[r].at = 0 /\ n # 0
      BY <1>0, <2>1 DEF RateRest
    <2>3. \A q \in Requests : hit'[q].pc = "idle" <=> hit'[q].at = 0
      BY <2>1, <2>2 DEF RateRest
    <2>4. \A s \in entries : s # 0 /\ \E q \in Requests : hit'[q].at = s
      BY <2>1, <2>2 DEF RateRest
    <2>5. \A q \in Requests : hit'[q].count <= Cardinality(Requests)
      BY <2>1 DEF RateRest
    <2> QED
      BY <1>9, <2>3, <2>4, <2>5 DEF ReadsClock, RateRest
  <1>10. ASSUME Ticks \/ UNCHANGED limiter PROVE RateRest'
    BY <1>10 DEF Ticks, limiter, RateRest
  <1> QED
    BY <1>4, <1>5, <1>6, <1>7, <1>8, <1>9, <1>10 DEF RateNext

\* The clock, the sorted set and the requests are of their types: no request ever counts
\* more than there are.
THEOREM RateTypes ==
  ASSUME RateAssumption PROVE RateSpec => []RateTypeOK
  <1>1. RateInit => LimiterInv /\ RateRest
    <2> SUFFICES ASSUME RateInit PROVE LimiterInv /\ RateRest
      OBVIOUS
    <2>1. LimiterInv
      BY LimiterStarts
    <2>2. PICK open \in BOOLEAN :
            hit = [r \in Requests |-> [pc |-> "idle", at |-> 0, read |-> 0, failOpen |-> open,
                                       ran |-> {}, count |-> 0, late |-> FALSE]]
      BY DEF RateInit, Waiting
    <2>3. Cardinality(Requests) \in Nat
      BY FS_CardinalityType DEF RateAssumption
    <2> QED
      BY <2>1, <2>2, <2>3 DEF RateInit, RateRest, RateAssumption
  <1>2. LimiterInv /\ RateRest /\ [RateNext]_limiter => LimiterInv' /\ RateRest'
    BY LimiterStep, RateRestStep
  <1>3. LimiterInv /\ RateRest => RateTypeOK
    <2> SUFFICES ASSUME LimiterInv, RateRest PROVE RateTypeOK
      OBVIOUS
    <2>1. /\ MaxTime \in Nat /\ Window \in Nat /\ now \in 1 .. MaxTime /\ expiry \in Nat
          /\ Skew \in Nat /\ entries \subseteq 0 .. (MaxTime + Skew) /\ hit \in [Requests -> HitRecord]
      BY DEF RateAssumption, LimiterInv, LimiterTypes
    <2>2. expiry \in 0 .. (MaxTime + Window + 1) /\ entries \subseteq 1 .. (MaxTime + Skew)
      BY <2>1 DEF RateRest
    <2>3. ASSUME NEW r \in Requests
          PROVE  /\ hit[r].pc \in {"idle", "trim", "add", "card", "expire", "decide",
                                   "admitted", "passed", "refused", "unavailable"}
                 /\ hit[r].read \in 0 .. MaxTime /\ hit[r].count \in Nat
                 /\ hit[r].at \in hit[r].read .. (hit[r].read + Skew)
      <3>1. hit[r] \in HitRecord /\ hit[r].read <= hit[r].at /\ hit[r].at <= hit[r].read + Skew
        BY <2>1 DEF LimiterInv, LimiterTypes
      <3> QED
        BY <2>1, <3>1 DEF HitRecord
    <2>4. Cardinality(Requests) \in Nat
      BY FS_CardinalityType DEF RateAssumption
    <2>5. \A r \in Requests : hit[r].count \in 0 .. Cardinality(Requests)
      BY <2>3, <2>4 DEF RateRest
    <2> QED
      BY <2>1, <2>2, <2>3, <2>5 DEF RateTypeOK, RateRest
  <1> QED
    BY <1>1, <1>2, <1>3, PTL DEF RateSpec

(***************************************************************************)
(*                         The archives of a tenant                        *)
(***************************************************************************)

NamedIn(l, a) == \E i \in 1 .. Len(l) : l[i] = a
Saving(q) == proc[q].pc \in {"load", "persist"}
Listing(q) == proc[q].pc \in {"persist", "rewrite"}

\* An archive that some list names: in Redis, in backup.json, or read by a process.
Known(a) ==
  NamedIn(redis, a) \/ NamedIn(sidecar, a) \/ \E q \in Procs : Listing(q) /\ NamedIn(proc[q].list, a)

\* An archive that is being saved is in no list yet, and one process saves it.
OnceSaved ==
  /\ \A p \in Procs : Saving(p) => ~Known(proc[p].at)
  /\ \A p, q \in Procs : Saving(p) /\ Saving(q) /\ proc[p].at = proc[q].at => p = q

ListsOK ==
  /\ redis \in ArchiveLists /\ sidecar \in ArchiveLists
  /\ \A p \in Procs : Listing(p) => proc[p].list \in ArchiveLists

FilesOK ==
  /\ made \in 0 .. MaxArchives
  /\ disk \subseteq Archives /\ cut \subseteq disk /\ bucket \subseteq Archives
  /\ backupFaults \in 0 .. MaxBackupFaults

ProcsOK == proc \in [Procs -> Proc \cup {ProcIdle}]

LEMMA ArchiveListsAre ==
  ASSUME BackupAssumption, NEW l
  PROVE  l \in ArchiveLists <=> l \in Seq(Archives) /\ Len(l) <= Listed /\ IsInjective(l)
  <1>1. Listed \in Nat
    BY DEF BackupAssumption
  <1>2. ASSUME l \in ArchiveLists PROVE l \in Seq(Archives) /\ Len(l) <= Listed /\ IsInjective(l)
    <2>1. PICK n \in 0 .. Listed : l \in [1 .. n -> Archives] /\ IsInjective(l)
      BY <1>2 DEF ArchiveLists
    <2>2. n \in Nat /\ n <= Listed
      BY <1>1, <2>1
    <2>3. l \in Seq(Archives) /\ Len(l) = n
      BY <2>1, <2>2
    <2> QED
      BY <2>1, <2>2, <2>3
  <1>3. ASSUME l \in Seq(Archives), Len(l) <= Listed, IsInjective(l) PROVE l \in ArchiveLists
    <2>1. PICK n \in Nat : n = Len(l) /\ l \in [1 .. n -> Archives]
      BY <1>3
    <2>2. n \in 0 .. Listed
      BY <1>1, <1>3, <2>1
    <2> QED
      BY <1>3, <2>1, <2>2 DEF ArchiveLists
  <1> QED
    BY <1>2, <1>3

LEMMA AnArchiveIsANumber ==
  ASSUME BackupAssumption PROVE MaxArchives \in Nat /\ \A a \in Archives : a \in Nat /\ a <= MaxArchives
  BY DEF BackupAssumption, Archives

\* A step of p to me, where the lists come to name nothing but what they named, or what
\* p has saved by it.
LEMMA ListsMove ==
  ASSUME ListsOK, OnceSaved, ProcsOK, NEW p \in Procs, NEW me, Becomes(p, me),
         redis' \in ArchiveLists, sidecar' \in ArchiveLists,
         me.pc \in {"persist", "rewrite"} => me.list \in ArchiveLists /\ \A a : NamedIn(me.list, a) => Known(a),
         me.pc \in {"load", "persist"} => Saving(p) /\ me.at = proc[p].at,
         \A a : NamedIn(redis', a) \/ NamedIn(sidecar', a) =>
                  Known(a) \/ (Saving(p) /\ a = proc[p].at /\ me.pc \notin {"load", "persist"})
  PROVE  ListsOK' /\ OnceSaved'
  <1>1. proc'[p] = me /\ \A q \in Procs : q # p => proc'[q] = proc[q]
    BY DEF ProcsOK, Becomes
  <1>2. \A q \in Procs : q # p => (Saving(q)' <=> Saving(q)) /\ (Listing(q)' <=> Listing(q))
    BY <1>1 DEF Saving, Listing
  <1>3. /\ Saving(p)' <=> me.pc \in {"load", "persist"}
        /\ Listing(p)' <=> me.pc \in {"persist", "rewrite"}
    BY <1>1 DEF Saving, Listing
  <1>4. ListsOK'
    BY <1>1, <1>2, <1>3 DEF ListsOK
  <1>5. \A a : Known(a)' => Known(a) \/ (Saving(p) /\ a = proc[p].at /\ ~Saving(p)')
    <2> SUFFICES ASSUME NEW a, Known(a)' PROVE Known(a) \/ (Saving(p) /\ a = proc[p].at /\ ~Saving(p)')
      OBVIOUS
    <2>1. CASE NamedIn(redis', a) \/ NamedIn(sidecar', a)
      BY <1>3, <2>1
    <2>2. ASSUME NEW q \in Procs, Listing(q)', NamedIn(proc'[q].list, a) PROVE Known(a)
      <3>1. CASE q = p
        BY <1>1, <1>3, <2>2, <3>1
      <3>2. CASE q # p
        BY <1>1, <1>2, <2>2, <3>2 DEF Known
      <3> QED
        BY <3>1, <3>2
    <2>3. \/ NamedIn(redis', a) \/ NamedIn(sidecar', a)
          \/ \E q \in Procs : Listing(q)' /\ NamedIn(proc'[q].list, a)
      BY DEF Known, NamedIn
    <2> QED
      BY <2>1, <2>2, <2>3
  <1>6. \A q \in Procs : Saving(q)' => Saving(q) /\ proc'[q].at = proc[q].at
    BY <1>1, <1>2, <1>3
  <1>7. ASSUME NEW q \in Procs, Saving(q)' PROVE (~Known(proc[q].at))'
    <2>1. Saving(q) /\ ~Known(proc[q].at) /\ proc'[q].at = proc[q].at
      BY <1>6, <1>7 DEF OnceSaved
    <2>2. PICK a : a = proc[q].at
      OBVIOUS
    <2>3. ~Known(a)'
      <3>1. CASE ~(Saving(p) /\ a = proc[p].at /\ ~Saving(p)')
        BY <1>5, <2>1, <2>2, <3>1
      <3>2. CASE Saving(p) /\ a = proc[p].at /\ ~Saving(p)'
        BY <1>7, <2>1, <2>2, <3>2 DEF OnceSaved
      <3> QED
        BY <3>1, <3>2
    <2>4. proc'[q].at = a
      BY <2>1, <2>2
    <2> QED
      BY <2>3, <2>4 DEF Known, NamedIn
  <1>8. \A q, r \in Procs : Saving(q)' /\ Saving(r)' /\ proc'[q].at = proc'[r].at => q = r
    BY <1>6 DEF OnceSaved
  <1>9. OnceSaved'
    BY <1>7, <1>8 DEF OnceSaved
  <1> QED
    BY <1>4, <1>9

\* What is loaded from the lists names what they name.
LEMMA LoadedIsKnown ==
  ASSUME BackupAssumption, ListsOK, FilesOK, NEW l \in ArchiveLists, Load(l)
  PROVE  (\A a : NamedIn(l, a) => Known(a)) /\ backupFaults' \in 0 .. MaxBackupFaults
  <1>1. l = redis \/ l = sidecar \/ l = << >>
    BY DEF Load
  <1>2. backupFaults' \in 0 .. MaxBackupFaults
    BY DEF Load, BackupFault, FilesOK, BackupAssumption
  <1>3. \A a : ~NamedIn(<< >>, a)
    BY DEF NamedIn
  <1>4. ASSUME NEW a, NamedIn(l, a) PROVE Known(a)
    BY <1>1, <1>3, <1>4 DEF Known
  <1> QED
    BY <1>2, <1>4

LEMMA PersistedIsKept ==
  ASSUME BackupAssumption, ListsOK, FilesOK, NEW l \in ArchiveLists, Persist(l)
  PROVE  /\ redis' \in ArchiveLists /\ sidecar' \in ArchiveLists /\ backupFaults' \in 0 .. MaxBackupFaults
         /\ \A a : NamedIn(redis', a) \/ NamedIn(sidecar', a) => Known(a) \/ NamedIn(l, a)
  <1>1. redis' \in {redis, l} /\ sidecar' \in {sidecar, l}
    BY DEF Persist
  <1>2. backupFaults' \in 0 .. MaxBackupFaults
    BY DEF Persist, BackupFault, FilesOK, BackupAssumption
  <1>3. redis' \in ArchiveLists /\ sidecar' \in ArchiveLists
    BY <1>1 DEF ListsOK
  <1>4. ASSUME NEW a, NamedIn(redis', a) \/ NamedIn(sidecar', a) PROVE Known(a) \/ NamedIn(l, a)
    BY <1>1, <1>4 DEF Known
  <1> QED
    BY <1>2, <1>3, <1>4

\* The list that a backup saves: its own archive first, cut at what a list holds.
LEMMA SavedList ==
  ASSUME BackupAssumption, NEW b \in Archives, NEW s \in ArchiveLists, ~NamedIn(s, b),
         NEW l, l = <<b>> \o s, NEW k, k = IF Len(l) > Listed THEN Listed ELSE Len(l)
  PROVE  /\ SubSeq(l, 1, k) \in ArchiveLists
         /\ \A a : NamedIn(SubSeq(l, 1, k), a) => a = b \/ NamedIn(s, a)
  <1>0. Listed \in Nat
    BY DEF BackupAssumption
  <1>1. s \in Seq(Archives) /\ IsInjective(s) /\ Len(s) \in Nat
    BY ArchiveListsAre
  <1>2. /\ l \in Seq(Archives) /\ Len(l) = Len(s) + 1 /\ l[1] = b
        /\ \A i \in 2 .. Len(s) + 1 : l[i] = s[i - 1]
    BY <1>1
  <1>3. k \in Nat /\ k <= Listed /\ k <= Len(l)
    BY <1>0, <1>1, <1>2
  <1>4. PICK saved : saved = SubSeq(l, 1, k)
    OBVIOUS
  <1>5. saved \in Seq(Archives) /\ Len(saved) = k /\ \A i \in 1 .. k : saved[i] = l[i]
    BY <1>2, <1>3, <1>4
  <1>6. ASSUME NEW i \in 1 .. k, NEW j \in 1 .. k, saved[i] = saved[j] PROVE i = j
    <2>1. l[i] = l[j] /\ i \in 1 .. Len(s) + 1 /\ j \in 1 .. Len(s) + 1
      BY <1>1, <1>2, <1>3, <1>5, <1>6
    <2>2. CASE i = 1 \/ j = 1
      BY <1>1, <1>2, <2>1, <2>2 DEF NamedIn
    <2>3. CASE i # 1 /\ j # 1
      <3>1. PICK x \in 1 .. Len(s) : x = i - 1
        BY <1>1, <2>1, <2>3
      <3>2. PICK y \in 1 .. Len(s) : y = j - 1
        BY <1>1, <2>1, <2>3
      <3>3. s[x] = s[y]
        BY <1>1, <1>2, <2>1, <2>3, <3>1, <3>2
      <3>4. x = y
        BY <1>1, <3>3 DEF IsInjective
      <3> QED
        BY <3>1, <3>2, <3>4
    <2> QED
      BY <2>2, <2>3
  <1>7. IsInjective(saved)
    <2>1. DOMAIN saved = 1 .. k
      BY <1>5
    <2> QED
      BY <1>6, <2>1 DEF IsInjective
  <1>8. saved \in ArchiveLists
    BY <1>3, <1>5, <1>7, ArchiveListsAre
  <1>9. ASSUME NEW a, NamedIn(saved, a) PROVE a = b \/ NamedIn(s, a)
    <2>1. PICK i \in 1 .. k : l[i] = a
      BY <1>5, <1>9 DEF NamedIn
    <2>2. CASE i = 1
      BY <1>2, <2>1, <2>2
    <2>3. CASE i # 1
      <3>1. PICK x \in 1 .. Len(s) : x = i - 1
        BY <1>1, <1>2, <1>3, <2>3
      <3>2. s[x] = a
        BY <1>1, <1>2, <1>3, <2>1, <2>3, <3>1
      <3> QED
        BY <3>2 DEF NamedIn
    <2> QED
      BY <2>2, <2>3
  <1> QED
    BY <1>4, <1>8, <1>9

LEMMA ShorterList ==
  ASSUME BackupAssumption, NEW s \in ArchiveLists, NEW i \in 1 .. Len(s), NEW r, r = RemoveAt(s, i)
  PROVE  r \in ArchiveLists /\ \A a : NamedIn(r, a) => NamedIn(s, a)
  <1>1. s \in Seq(Archives) /\ IsInjective(s) /\ Len(s) \in Nat /\ Len(s) <= Listed /\ Listed \in Nat
    BY ArchiveListsAre DEF BackupAssumption
  <1>2. PICK S : S = Archives
    OBVIOUS
  <1>3. s \in Seq(S)
    BY <1>1, <1>2
  <1>4. /\ r \in Seq(S) /\ Len(r) = Len(s) - 1
        /\ \A j \in 1 .. Len(s) - 1 : r[j] = IF j < i THEN s[j] ELSE s[j + 1]
    BY <1>3, RemovedAt
  <1>5. IsInjective(r)
    BY <1>1, <1>3, StaysInjective
  <1>6. r \in ArchiveLists
    <2>1. r \in Seq(Archives) /\ Len(r) <= Listed
      BY <1>1, <1>2, <1>4
    <2> QED
      BY <1>5, <2>1, ArchiveListsAre
  <1>7. ASSUME NEW a, NamedIn(r, a) PROVE NamedIn(s, a)
    <2>1. PICK j \in 1 .. Len(s) - 1 : r[j] = a
      BY <1>1, <1>4, <1>7 DEF NamedIn
    <2>2. j \in 1 .. Len(s) /\ j + 1 \in 1 .. Len(s)
      BY <1>1
    <2>3. a = s[j] \/ a = s[j + 1]
      BY <1>4, <2>1
    <2> QED
      BY <2>2, <2>3 DEF NamedIn
  <1> QED
    BY <1>6, <1>7

ArchivesInv == FilesOK /\ ProcsOK /\ ListsOK /\ OnceSaved

\* Steps of p that leave the lists as they are, and read or save nothing.
LEMMA ListsRest ==
  ASSUME ArchivesInv, NEW p \in Procs, NEW me \in Proc \cup {ProcIdle}, Becomes(p, me),
         me.pc \notin {"load", "persist", "rewrite"}, UNCHANGED lists, FilesOK'
  PROVE  ArchivesInv'
  <1>1. ProcsOK'
    BY DEF ArchivesInv, ProcsOK, Becomes
  <1>2. redis' \in ArchiveLists /\ sidecar' \in ArchiveLists
        /\ \A a : NamedIn(redis', a) \/ NamedIn(sidecar', a) => Known(a)
    BY DEF lists, ArchivesInv, ListsOK, Known
  <1>3. ListsOK' /\ OnceSaved'
    BY <1>2, ListsMove DEF ArchivesInv
  <1> QED
    BY <1>1, <1>3 DEF ArchivesInv

LEMMA ArchivesKeptByBackup ==
  ASSUME BackupAssumption, BackupInv, ArchivesInv, NEW p \in Procs,
         (\E sweep \in BOOLEAN : Begins(p, sweep)) \/ Due(p) \/ Dumps(p) \/ LoadsForSave(p)
           \/ SavesList(p) \/ Uploads(p) \/ Dies(p)
  PROVE  ArchivesInv'
  <1>0. /\ MaxArchives \in Nat /\ MaxBackupFaults \in Nat /\ S3 \in BOOLEAN /\ Listed \in Nat
        /\ FilesOK /\ ProcsOK /\ ListsOK /\ OnceSaved /\ proc[p] \in Proc \cup {ProcIdle}
    BY DEF BackupAssumption, ArchivesInv, ProcsOK
  <1>1. ASSUME NEW sweep \in BOOLEAN, Begins(p, sweep) PROVE ArchivesInv'
    <2>1. PICK me : me = [pc |-> IF sweep THEN "due" ELSE "dump", sweep |-> sweep]
      OBVIOUS
    <2>2. me \in Proc /\ me.pc \in {"due", "dump"}
      BY <2>1 DEF Proc
    <2>3. FilesOK' /\ UNCHANGED lists /\ Becomes(p, me)
      BY <1>0, <1>1, <2>1 DEF Begins, files, FilesOK
    <2> QED
      BY <2>2, <2>3, ListsRest
  <1>2. CASE Due(p)
    <2>1. PICK me : me \in {[pc |-> "dump", sweep |-> TRUE], ProcIdle} /\ Becomes(p, me)
      BY <1>2 DEF Due
    <2>2. me \in Proc \cup {ProcIdle} /\ me.pc \in {"dump", "idle"}
      <3>1. CASE me = [pc |-> "dump", sweep |-> TRUE]
        BY <3>1 DEF Proc
      <3>2. CASE me = ProcIdle
        BY <3>2 DEF ProcIdle
      <3> QED
        BY <2>1, <3>1, <3>2
    <2>3. FilesOK' /\ UNCHANGED lists
      BY <1>0, <1>2 DEF Due, files, FilesOK
    <2> QED
      BY <2>1, <2>2, <2>3, ListsRest
  <1>3. CASE Dumps(p)
    <2>0. proc[p].pc = "dump" /\ proc[p].sweep \in BOOLEAN
      BY <1>0, <1>3 DEF Dumps, Proc, ProcIdle
    <2>1. PICK me : me = [pc |-> "load", sweep |-> proc[p].sweep, at |-> made + 1]
      OBVIOUS
    <2>2. /\ Becomes(p, me) /\ made < MaxArchives /\ made' = made + 1 /\ disk' = disk \cup {made + 1}
          /\ UNCHANGED <<cut, bucket, redis, sidecar, backupFaults>>
      BY <1>3, <2>1 DEF Dumps, lists
    <2>3. made \in Nat /\ made + 1 \in Archives
      BY <1>0, <2>2 DEF FilesOK, Archives
    <2>4. me \in Proc /\ me.pc = "load" /\ me.at = made + 1
      BY <2>0, <2>1, <2>3 DEF Proc
    <2>5. FilesOK'
      <3>1. made' \in 0 .. MaxArchives
        BY <1>0, <2>2, <2>3
      <3>2. disk' \subseteq Archives /\ cut' \subseteq disk' /\ bucket' \subseteq Archives
        BY <1>0, <2>2, <2>3 DEF FilesOK
      <3>3. backupFaults' \in 0 .. MaxBackupFaults
        BY <1>0, <2>2 DEF FilesOK
      <3> QED
        BY <3>1, <3>2, <3>3 DEF FilesOK
    <2>6. ProcsOK'
      BY <1>0, <2>2, <2>4 DEF ProcsOK, Becomes
    <2>7. proc'[p] = me /\ \A q \in Procs : q # p => proc'[q] = proc[q]
      BY <1>0, <2>2 DEF ProcsOK, Becomes
    <2>8. ListsOK'
      BY <1>0, <2>2, <2>4, <2>7 DEF ListsOK, Listing
    <2>9. \A a : Known(a) => a \in 1 .. made
      BY DEF Known, NamedIn, Listing, BackupInv, ProcOK, Made
    <2>10. \A a : Known(a)' => Known(a)
      BY <2>2, <2>4, <2>7 DEF Known, Listing
    <2>11. \A q \in Procs : q # p /\ Saving(q)' =>
             Saving(q) /\ proc'[q].at = proc[q].at /\ proc[q].at \in 1 .. made
      BY <2>7 DEF Saving, BackupInv, ProcOK
    <2>12. ASSUME NEW q \in Procs, Saving(q)' PROVE (~Known(proc[q].at))'
      <3>1. PICK a : a = proc'[q].at
        OBVIOUS
      <3>2. ~Known(a)
        <4>1. CASE q = p
          BY <2>3, <2>4, <2>7, <2>9, <3>1, <4>1
        <4>2. CASE q # p
          BY <1>0, <2>11, <2>12, <3>1, <4>2 DEF OnceSaved
        <4> QED
          BY <4>1, <4>2
      <3>3. ~Known(a)'
        BY <2>10, <3>2
      <3> QED
        BY <3>1, <3>3 DEF Known, NamedIn
    <2>13. ASSUME NEW q \in Procs, NEW r \in Procs, Saving(q)', Saving(r)', proc'[q].at = proc'[r].at
           PROVE  q = r
      <3>1. CASE q # p /\ r # p
        BY <1>0, <2>11, <2>13, <3>1 DEF OnceSaved
      <3>2. CASE q = p \/ r = p
        BY <2>3, <2>4, <2>7, <2>11, <2>13, <3>2
      <3> QED
        BY <3>1, <3>2
    <2> QED
      BY <2>5, <2>6, <2>8, <2>12, <2>13 DEF ArchivesInv, OnceSaved
  <1>4. CASE LoadsForSave(p)
    <2>1. PICK l \in ArchiveLists :
            /\ Load(l) /\ proc[p].pc = "load"
            /\ Becomes(p, [pc |-> "persist", sweep |-> proc[p].sweep, at |-> proc[p].at, list |-> l])
      BY <1>4 DEF LoadsForSave
    <2>2. PICK me : me = [pc |-> "persist", sweep |-> proc[p].sweep, at |-> proc[p].at, list |-> l]
      OBVIOUS
    <2>3. proc[p].sweep \in BOOLEAN /\ proc[p].at \in Archives /\ l \in Seq(Archives)
      BY <1>0, <2>1, ArchiveListsAre DEF Proc, ProcIdle
    <2>4. me \in Proc /\ me.pc = "persist" /\ me.at = proc[p].at /\ me.list = l /\ Becomes(p, me)
      BY <2>1, <2>2, <2>3 DEF Proc
    <2>5. (\A a : NamedIn(l, a) => Known(a)) /\ backupFaults' \in 0 .. MaxBackupFaults
      BY <1>0, <2>1, LoadedIsKnown
    <2>6. FilesOK' /\ UNCHANGED lists
      BY <1>0, <1>4, <2>5 DEF LoadsForSave, files, FilesOK
    <2>7. redis' \in ArchiveLists /\ sidecar' \in ArchiveLists
          /\ \A a : NamedIn(redis', a) \/ NamedIn(sidecar', a) => Known(a)
      BY <1>0, <2>6 DEF lists, ListsOK, Known
    <2>8. ListsOK' /\ OnceSaved'
      BY <1>0, <2>1, <2>4, <2>5, <2>7, ListsMove DEF Saving
    <2>9. ProcsOK'
      BY <1>0, <2>4 DEF ProcsOK, Becomes
    <2> QED
      BY <2>6, <2>8, <2>9 DEF ArchivesInv
  <1>5. CASE SavesList(p)
    <2>1. PICK l : l = <<proc[p].at>> \o proc[p].list
      OBVIOUS
    <2>2. PICK k : k = IF Len(l) > Listed THEN Listed ELSE Len(l)
      OBVIOUS
    <2>3. proc[p].pc = "persist" /\ proc[p].at \in Archives /\ proc[p].sweep \in BOOLEAN
      BY <1>0, <1>5 DEF SavesList, Proc, ProcIdle
    <2>4. Listing(p) /\ Saving(p)
      BY <2>3 DEF Listing, Saving
    <2>5. proc[p].list \in ArchiveLists /\ (\A a : NamedIn(proc[p].list, a) => Known(a)) /\ ~Known(proc[p].at)
      BY <1>0, <2>4 DEF ListsOK, OnceSaved, Known
    <2>6. /\ SubSeq(l, 1, k) \in ArchiveLists
          /\ \A a : NamedIn(SubSeq(l, 1, k), a) => a = proc[p].at \/ NamedIn(proc[p].list, a)
      <3>1. PICK b : b = proc[p].at
        OBVIOUS
      <3>2. PICK s : s = proc[p].list
        OBVIOUS
      <3>3. b \in Archives /\ s \in ArchiveLists /\ ~NamedIn(s, b) /\ l = <<b>> \o s
        BY <2>1, <2>3, <2>5, <3>1, <3>2
      <3>4. SubSeq(l, 1, k) \in ArchiveLists /\ \A a : NamedIn(SubSeq(l, 1, k), a) => a = b \/ NamedIn(s, a)
        BY <2>2, <3>3, SavedList
      <3> QED
        BY <3>1, <3>2, <3>4
    <2>7. Persist(SubSeq(l, 1, k))
      BY <1>5, <2>1, <2>2 DEF SavesList
    <2>8. /\ redis' \in ArchiveLists /\ sidecar' \in ArchiveLists /\ backupFaults' \in 0 .. MaxBackupFaults
          /\ \A a : NamedIn(redis', a) \/ NamedIn(sidecar', a) => Known(a) \/ NamedIn(SubSeq(l, 1, k), a)
      BY <1>0, <2>6, <2>7, PersistedIsKept
    <2>9. PICK me : Becomes(p, me) /\ me = IF S3 THEN [pc |-> "upload", sweep |-> proc[p].sweep, at |-> proc[p].at]
                                          ELSE IF proc[p].sweep THEN [pc |-> "plan"] ELSE ProcIdle
      BY <1>5 DEF SavesList
    <2>10. me \in Proc \cup {ProcIdle} /\ me.pc \in {"upload", "plan", "idle"}
      BY <2>3, <2>9 DEF Proc, ProcIdle
    <2>11. \A a : NamedIn(redis', a) \/ NamedIn(sidecar', a) => Known(a) \/ a = proc[p].at
      BY <2>5, <2>6, <2>8
    <2>12. ListsOK' /\ OnceSaved'
      BY <1>0, <2>4, <2>8, <2>9, <2>10, <2>11, ListsMove
    <2>13. ProcsOK'
      BY <1>0, <2>9, <2>10 DEF ProcsOK, Becomes
    <2>14. FilesOK'
      BY <1>0, <1>5, <2>8 DEF SavesList, files, FilesOK
    <2> QED
      BY <2>12, <2>13, <2>14 DEF ArchivesInv
  <1>6. CASE Uploads(p)
    <2>1. PICK me \in {ProcIdle, [pc |-> "plan"]} : Becomes(p, me)
      BY <1>6 DEF Uploads
    <2>2. me \in Proc \cup {ProcIdle} /\ me.pc \in {"idle", "plan"}
      BY <2>1 DEF Proc, ProcIdle
    <2>3. proc[p].at \in Archives
      BY <1>0, <1>6 DEF Uploads, Proc, ProcIdle
    <2>4. bucket' \subseteq Archives /\ backupFaults' \in 0 .. MaxBackupFaults
      BY <1>0, <1>6, <2>3 DEF Uploads, BackupFault, FilesOK
    <2>5. FilesOK' /\ UNCHANGED lists
      BY <1>0, <1>6, <2>4 DEF Uploads, FilesOK
    <2> QED
      BY <2>1, <2>2, <2>5, ListsRest
  <1>7. CASE Dies(p)
    <2>1. ProcIdle \in Proc \cup {ProcIdle} /\ ProcIdle.pc = "idle"
      BY DEF ProcIdle
    <2>2. FilesOK' /\ UNCHANGED lists /\ Becomes(p, ProcIdle)
      BY <1>0, <1>7 DEF Dies, files, FilesOK, BackupFault
    <2> QED
      BY <2>1, <2>2, ListsRest
  <1> QED
    BY <1>1, <1>2, <1>3, <1>4, <1>5, <1>6, <1>7

LEMMA ArchivesKeptBySweep ==
  ASSUME BackupAssumption, BackupInv, ArchivesInv, NEW p \in Procs,
         PlansSweep(p) \/ Unlinks(p) \/ DeletesInS3(p) \/ LoadsForDelete(p) \/ Unlists(p)
  PROVE  ArchivesInv'
  <1>0. /\ MaxBackupFaults \in Nat /\ S3 \in BOOLEAN
        /\ FilesOK /\ ProcsOK /\ ListsOK /\ OnceSaved /\ proc[p] \in Proc \cup {ProcIdle}
    BY DEF BackupAssumption, ArchivesInv, ProcsOK
  <1>1. ASSUME NEW left \in Seq(Archives)
        PROVE  Deletes(left) \in Proc \cup {ProcIdle} /\ Deletes(left).pc \in {"idle", "unlink"}
    BY DEF Deletes, Proc, ProcIdle
  <1>2. CASE PlansSweep(p)
    <2>1. PICK l \in ArchiveLists : Load(l) /\ \E left \in NewestFirst(Purged(l)) : Becomes(p, Deletes(left))
      BY <1>2 DEF PlansSweep
    <2>2. PICK left \in NewestFirst(Purged(l)) : Becomes(p, Deletes(left))
      BY <2>1
    <2>3. l \in Seq(Archives) /\ backupFaults' \in 0 .. MaxBackupFaults
      BY <1>0, <2>1, ArchiveListsAre, LoadedIsKnown
    <2>4. Purged(l) \subseteq Archives
      BY <2>3 DEF Purged, ToSet
    <2>5. Cardinality(Purged(l)) \in Nat
      <3>1. IsFiniteSet(Archives)
        BY FS_Interval DEF Archives, BackupAssumption
      <3> QED
        BY <2>4, <3>1, FS_Subset, FS_CardinalityType
    <2>6. left \in Seq(Archives)
      <3>1. PICK n \in Nat : n = Cardinality(Purged(l))
        BY <2>5
      <3>2. left \in [1 .. n -> Archives]
        BY <2>2, <2>4, <3>1 DEF NewestFirst
      <3> QED
        BY <3>2
    <2>7. PICK me : me = Deletes(left)
      OBVIOUS
    <2>8. me \in Proc \cup {ProcIdle} /\ me.pc \in {"idle", "unlink"}
      BY <1>1, <2>6, <2>7
    <2>9. FilesOK' /\ UNCHANGED lists
      BY <1>0, <1>2, <2>3 DEF PlansSweep, files, FilesOK
    <2> QED
      BY <2>2, <2>7, <2>8, <2>9, ListsRest
  <1>3. CASE Unlinks(p)
    <2>1. PICK me : me = [pc |-> IF S3 THEN "delete" ELSE "reload", left |-> proc[p].left]
      OBVIOUS
    <2>2. proc[p].left \in Seq(Archives)
      BY <1>0, <1>3 DEF Unlinks, Proc, ProcIdle
    <2>3. me \in Proc /\ me.pc \in {"delete", "reload"}
      BY <2>1, <2>2 DEF Proc
    <2>4. disk' \subseteq Archives /\ cut' \subseteq disk' /\ backupFaults' \in 0 .. MaxBackupFaults
      BY <1>0, <1>3 DEF Unlinks, BackupFault, FilesOK
    <2>5. FilesOK' /\ UNCHANGED lists /\ Becomes(p, me)
      BY <1>0, <1>3, <2>1, <2>4 DEF Unlinks, FilesOK
    <2> QED
      BY <2>3, <2>5, ListsRest
  <1>4. CASE DeletesInS3(p)
    <2>1. PICK me : me = [pc |-> "reload", left |-> proc[p].left]
      OBVIOUS
    <2>2. proc[p].left \in Seq(Archives)
      BY <1>0, <1>4 DEF DeletesInS3, Proc, ProcIdle
    <2>3. me \in Proc /\ me.pc = "reload"
      BY <2>1, <2>2 DEF Proc
    <2>4. bucket' \subseteq Archives /\ backupFaults' \in 0 .. MaxBackupFaults
      BY <1>0, <1>4 DEF DeletesInS3, BackupFault, FilesOK
    <2>5. FilesOK' /\ UNCHANGED lists /\ Becomes(p, me)
      BY <1>0, <1>4, <2>1, <2>4 DEF DeletesInS3, FilesOK
    <2> QED
      BY <2>3, <2>5, ListsRest
  <1>5. CASE LoadsForDelete(p)
    <2>1. PICK l \in ArchiveLists :
            Load(l) /\ Becomes(p, [pc |-> "rewrite", left |-> proc[p].left, list |-> l])
      BY <1>5 DEF LoadsForDelete
    <2>2. PICK me : me = [pc |-> "rewrite", left |-> proc[p].left, list |-> l]
      OBVIOUS
    <2>3. proc[p].left \in Seq(Archives) /\ l \in Seq(Archives)
      BY <1>0, <1>5, ArchiveListsAre DEF LoadsForDelete, Proc, ProcIdle
    <2>4. me \in Proc /\ me.pc = "rewrite" /\ me.list = l /\ Becomes(p, me)
      BY <2>1, <2>2, <2>3 DEF Proc
    <2>5. (\A a : NamedIn(l, a) => Known(a)) /\ backupFaults' \in 0 .. MaxBackupFaults
      BY <1>0, <2>1, LoadedIsKnown
    <2>6. FilesOK' /\ UNCHANGED lists
      BY <1>0, <1>5, <2>5 DEF LoadsForDelete, files, FilesOK
    <2>7. redis' \in ArchiveLists /\ sidecar' \in ArchiveLists
          /\ \A a : NamedIn(redis', a) \/ NamedIn(sidecar', a) => Known(a)
      BY <1>0, <2>6 DEF lists, ListsOK, Known
    <2>8. ListsOK' /\ OnceSaved'
      BY <1>0, <2>4, <2>5, <2>7, ListsMove
    <2>9. ProcsOK'
      BY <1>0, <2>4 DEF ProcsOK, Becomes
    <2> QED
      BY <2>6, <2>8, <2>9 DEF ArchivesInv
  <1>6. CASE Unlists(p)
    <2>1. proc[p].pc = "rewrite" /\ proc[p].left \in Seq(Archives) /\ proc[p].left # << >>
      BY <1>0, <1>6 DEF Unlists, Proc, ProcIdle, BackupInv, ProcOK
    <2>2. Listing(p) /\ proc[p].list \in ArchiveLists /\ \A a : NamedIn(proc[p].list, a) => Known(a)
      BY <1>0, <2>1 DEF Listing, ListsOK, Known
    <2>3. PICK l \in ArchiveLists : Persist(l) /\ \A a : NamedIn(l, a) => Known(a)
      <3>1. CASE Persist(proc[p].list)
        BY <2>2, <3>1
      <3>2. ASSUME NEW i \in DOMAIN proc[p].list, Persist(RemoveAt(proc[p].list, i))
            PROVE  \E l \in ArchiveLists : Persist(l) /\ \A a : NamedIn(l, a) => Known(a)
        <4>1. PICK s : s = proc[p].list
          OBVIOUS
        <4>2. PICK l : l = RemoveAt(s, i)
          OBVIOUS
        <4>3. s \in ArchiveLists /\ i \in 1 .. Len(s)
          <5>1. s \in Seq(Archives) /\ s \in ArchiveLists
            BY <2>2, <4>1, ArchiveListsAre
          <5> QED
            BY <3>2, <4>1, <5>1
        <4>4. l \in ArchiveLists /\ \A a : NamedIn(l, a) => NamedIn(s, a)
          BY <4>2, <4>3, ShorterList
        <4> QED
          BY <2>2, <3>2, <4>1, <4>2, <4>4
      <3> QED
        BY <1>6, <3>1, <3>2 DEF Unlists
    <2>4. PICK me : me = Deletes(Tail(proc[p].left))
      OBVIOUS
    <2>5. me \in Proc \cup {ProcIdle} /\ me.pc \in {"idle", "unlink"}
      <3>1. Tail(proc[p].left) \in Seq(Archives)
        BY <2>1
      <3> QED
        BY <1>1, <2>4, <3>1
    <2>6. /\ redis' \in ArchiveLists /\ sidecar' \in ArchiveLists /\ backupFaults' \in 0 .. MaxBackupFaults
          /\ \A a : NamedIn(redis', a) \/ NamedIn(sidecar', a) => Known(a) \/ NamedIn(l, a)
      BY <1>0, <2>3, PersistedIsKept
    <2>7. \A a : NamedIn(redis', a) \/ NamedIn(sidecar', a) => Known(a)
      BY <2>3, <2>6
    <2>8. Becomes(p, me) /\ FilesOK'
      BY <1>0, <1>6, <2>4, <2>6 DEF Unlists, files, FilesOK
    <2>9. ListsOK' /\ OnceSaved'
      BY <1>0, <2>5, <2>6, <2>7, <2>8, ListsMove
    <2>10. ProcsOK'
      BY <1>0, <2>5, <2>8 DEF ProcsOK, Becomes
    <2> QED
      BY <2>8, <2>9, <2>10 DEF ArchivesInv
  <1> QED
    BY <1>2, <1>3, <1>4, <1>5, <1>6

LEMMA ArchivesKeptByRestore ==
  ASSUME BackupAssumption, ArchivesInv, NEW p \in Procs,
         (\E a \in Archives : BeginsRestore(p, a)) \/ Fetches(p) \/ Written(p) \/ Restores(p)
  PROVE  ArchivesInv'
  <1>0. S3 \in BOOLEAN /\ FilesOK /\ proc[p] \in Proc \cup {ProcIdle}
    BY DEF BackupAssumption, ArchivesInv, ProcsOK
  <1>1. ASSUME NEW a \in Archives, NEW pc \in {"fetch", "writing", "restore"}
        PROVE  [pc |-> pc, at |-> a] \in Proc /\ [pc |-> pc, at |-> a].pc \in {"fetch", "writing", "restore"}
    BY DEF Proc
  <1>2. proc[p].pc \in {"fetch", "writing"} => proc[p].at \in Archives
    BY <1>0 DEF Proc, ProcIdle
  <1>3. PICK me \in Proc \cup {ProcIdle} : Becomes(p, me) /\ me.pc \in {"idle", "fetch", "writing", "restore"}
    <2>0. ProcIdle.pc = "idle"
      BY DEF ProcIdle
    <2>1. ASSUME NEW a \in Archives, BeginsRestore(p, a)
          PROVE  \E me \in Proc \cup {ProcIdle} : Becomes(p, me) /\ me.pc \in {"idle", "fetch", "writing", "restore"}
      <3>1. PICK pc \in {"fetch", "writing", "restore"} : pc = IF S3 THEN "fetch" ELSE "restore"
        OBVIOUS
      <3> QED
        BY <1>1, <2>1, <3>1 DEF BeginsRestore
    <2>2. CASE Fetches(p)
      BY <1>1, <1>2, <2>0, <2>2 DEF Fetches
    <2>3. CASE Written(p)
      BY <1>1, <1>2, <2>3 DEF Written
    <2>4. CASE Restores(p)
      BY <2>0, <2>4 DEF Restores
    <2> QED
      BY <2>1, <2>2, <2>3, <2>4
  <1>4. UNCHANGED <<lists, made, bucket, backupFaults>>
    BY DEF BeginsRestore, Fetches, Written, Restores, files
  <1>5. disk' \subseteq Archives /\ cut' \subseteq disk'
    <2>1. CASE \E a \in Archives : BeginsRestore(p, a)
      BY <1>0, <2>1 DEF BeginsRestore, files, FilesOK
    <2>2. CASE Fetches(p)
      BY <1>0, <1>2, <2>2 DEF Fetches, FilesOK
    <2>3. CASE Written(p)
      BY <1>0, <2>3 DEF Written, FilesOK
    <2>4. CASE Restores(p)
      BY <1>0, <2>4 DEF Restores, files, FilesOK
    <2> QED
      BY <2>1, <2>2, <2>3, <2>4
  <1>6. FilesOK'
    BY <1>0, <1>4, <1>5 DEF FilesOK
  <1> QED
    BY <1>3, <1>4, <1>6, ListsRest

LEMMA ArchivesStart == BackupAssumption /\ BackupInit => ArchivesInv
  <1> SUFFICES ASSUME BackupAssumption, BackupInit PROVE ArchivesInv
    OBVIOUS
  <1>1. FilesOK
    BY DEF BackupInit, FilesOK, BackupAssumption
  <1>2. ProcsOK
    BY DEF BackupInit, ProcsOK
  <1>3. << >> \in ArchiveLists
    <2>1. << >> \in Seq(Archives) /\ Len(<< >>) = 0 /\ IsInjective(<< >>)
      BY DEF IsInjective
    <2>2. Len(<< >>) <= Listed
      BY <2>1 DEF BackupAssumption
    <2> QED
      BY <2>1, <2>2, ArchiveListsAre
  <1>4. ListsOK /\ OnceSaved
    BY <1>3 DEF BackupInit, ListsOK, OnceSaved, Saving, Listing, ProcIdle
  <1> QED
    BY <1>1, <1>2, <1>4 DEF ArchivesInv

\* The lists name an archive once, also when two backups, or a backup and a sweep, save
\* them at the same time, and never more than they hold (backup_service.ts).
THEOREM BackupTypes == ASSUME BackupAssumption PROVE BackupSpec => []BackupTypeOK
  <1>1. BackupInit => BackupInv /\ ArchivesInv
    BY BackupStarts, ArchivesStart
  <1>2. BackupInv /\ ArchivesInv /\ [BackupNext]_backupVars => BackupInv' /\ ArchivesInv'
    <2> SUFFICES ASSUME BackupInv, ArchivesInv, [BackupNext]_backupVars PROVE BackupInv' /\ ArchivesInv'
      OBVIOUS
    <2>1. BackupInv'
      BY BackupStep
    <2>2. ASSUME RedisExpires PROVE ArchivesInv'
      <3>1. /\ UNCHANGED <<made, disk, cut, bucket, sidecar, proc, backupFaults>> /\ redis' = << >>
            /\ << >> \in ArchiveLists /\ \A a : ~NamedIn(<< >>, a)
        <4>1. << >> \in Seq(Archives) /\ Len(<< >>) = 0 /\ IsInjective(<< >>)
          BY DEF IsInjective
        <4>2. Len(<< >>) <= Listed
          BY <4>1 DEF BackupAssumption
        <4>3. << >> \in ArchiveLists
          BY <4>1, <4>2, ArchiveListsAre
        <4> QED
          BY <2>2, <4>3 DEF RedisExpires, files, NamedIn
      <3>2. FilesOK' /\ ProcsOK' /\ ListsOK'
        BY <3>1 DEF ArchivesInv, FilesOK, ProcsOK, ListsOK, Listing
      <3>3. \A a : Known(a)' => Known(a)
        BY <3>1 DEF Known, NamedIn, Listing
      <3>4. OnceSaved'
        <4>1. ASSUME NEW q \in Procs, Saving(q)' PROVE (~Known(proc[q].at))'
          <5>1. PICK a : a = proc[q].at /\ proc' = proc
            BY <3>1
          <5>2. ~Known(a)
            BY <4>1, <5>1 DEF ArchivesInv, OnceSaved, Saving
          <5>3. ~Known(a)'
            BY <3>3, <5>2
          <5> QED
            BY <5>1, <5>3 DEF Known, NamedIn
        <4> QED
          BY <3>1, <4>1 DEF ArchivesInv, OnceSaved, Saving
      <3> QED
        BY <3>2, <3>4 DEF ArchivesInv
    <2>3. ASSUME UNCHANGED backupVars PROVE ArchivesInv'
      BY <2>3 DEF backupVars, files, lists, ArchivesInv, FilesOK, ProcsOK, ListsOK, OnceSaved,
                  Known, NamedIn, Saving, Listing
    <2>4. ASSUME NEW p \in Procs,
                 \/ \E sweep \in BOOLEAN : Begins(p, sweep)
                 \/ Due(p) \/ Dumps(p) \/ LoadsForSave(p) \/ SavesList(p) \/ Uploads(p)
                 \/ Dies(p)
                 \/ PlansSweep(p) \/ Unlinks(p) \/ DeletesInS3(p) \/ LoadsForDelete(p) \/ Unlists(p)
                 \/ \E a \in Archives : BeginsRestore(p, a)
                 \/ Fetches(p) \/ Written(p) \/ Restores(p)
          PROVE  ArchivesInv'
      BY <2>4, ArchivesKeptByBackup, ArchivesKeptBySweep, ArchivesKeptByRestore
    <2>5. ArchivesInv'
      BY <2>2, <2>3, <2>4 DEF BackupNext
    <2> QED
      BY <2>1, <2>5
  <1>3. ArchivesInv => BackupTypeOK
    BY DEF ArchivesInv, FilesOK, ProcsOK, ListsOK, BackupTypeOK
  <1> QED
    BY <1>1, <1>2, <1>3, PTL DEF BackupSpec

(***************************************************************************)
(*                           Stripe's deliveries                           *)
(***************************************************************************)

IntakeAnswers == {NoValue, "unauthorized", "invalid_signature", "webhook_body_unreadable", "acknowledged"}

IntakeRest ==
  /\ environment \in Configs /\ atStripe \in {"has", "gone"}
  /\ server \in {"boot", "refuses_to_boot", "up"} /\ answer \in IntakeAnswers
  /\ job \in {"none", "queued", "completed", "failed"} /\ tries \in 0 .. MaxTries
  /\ lastError \in StripeErrors \cup {NoValue}

LEMMA IntakeRestStep ==
  ASSUME IntakeAssumption, IntakeRest, [IntakeNext]_intake
  PROVE  IntakeRest'
  <1> USE DEF given, outcome
  <1>0. MaxTries \in Nat
    BY DEF IntakeAssumption
  <1>1. CASE VerifyBoot
    BY <1>1 DEF VerifyBoot, IntakeRest
  <1>2. CASE Rejects
    <2>1. Verdict(request) # "verified" => Verdict(request) \in IntakeAnswers
      BY DEF Verdict, IntakeAnswers
    <2> QED
      BY <1>2, <2>1 DEF Rejects, IntakeRest
  <1>3. CASE Accepts
    <2>1. "acknowledged" \in IntakeAnswers
      BY DEF IntakeAnswers
    <2> QED
      BY <1>3, <2>1 DEF Accepts, IntakeRest
  <1>4. CASE AgesOut
    BY <1>4 DEF AgesOut, IntakeRest
  <1>5. ASSUME tries < MaxTries, tries' = tries + 1 PROVE IntakeRest => tries' \in 0 .. MaxTries
    BY <1>0, <1>5 DEF IntakeRest
  <1>6. CASE FetchesFromStripe
    BY <1>5, <1>6 DEF FetchesFromStripe, DispatchEvent, IntakeRest
  <1>7. CASE FetchesFromRow
    BY <1>5, <1>7 DEF FetchesFromRow, DispatchEvent, IntakeRest
  <1>8. CASE FetchFails
    <2>1. lastError' \in StripeErrors /\ job' \in {"failed", "queued"} /\ tries' \in 0 .. MaxTries
      BY <1>5, <1>8 DEF FetchFails
    <2> QED
      BY <1>8, <2>1 DEF FetchFails, IntakeRest
  <1>9. CASE Replays
    BY <1>9 DEF Replays, IntakeRest
  <1>10. CASE UNCHANGED intake
    BY <1>10 DEF intake, IntakeRest
  <1> QED
    BY <1>1, <1>2, <1>3, <1>4, <1>6, <1>7, <1>8, <1>9, <1>10 DEF IntakeNext

\* The stages of a delivery are of their types.
THEOREM IntakeTypes == ASSUME IntakeAssumption PROVE IntakeSpec => []IntakeTypeOK
  <1>1. IntakeInit => IntakeInv /\ IntakeRest
    <2> SUFFICES ASSUME IntakeInit PROVE IntakeInv /\ IntakeRest
      OBVIOUS
    <2>1. IntakeRest
      BY DEF IntakeInit, IntakeRest, IntakeAnswers, IntakeAssumption
    <2> QED
      BY <2>1, IntakeStarts
  <1>2. IntakeInv /\ IntakeRest /\ [IntakeNext]_intake => IntakeInv' /\ IntakeRest'
    BY IntakeStep, IntakeRestStep
  <1>3. IntakeInv /\ IntakeRest => IntakeTypeOK
    BY DEF IntakeInv, StagesOK, IntakeRest, IntakeAnswers, IntakeTypeOK
  <1> QED
    BY <1>1, <1>2, <1>3, PTL DEF IntakeSpec

(***************************************************************************)
(*                     The mirror of the subscriptions                     *)
(***************************************************************************)

\* A handler works on an event that Stripe has sent.
SentIsHandled == \A w \in SyncWorkers : worker[w] # SyncIdle => worker[w].ev \in sent

MirrorTyped == SyncTypeOK /\ SentIsHandled

\* What a handler at a step for events of some kinds holds.
LEMMA AtStepHolds ==
  ASSUME SyncAssumption, MirrorTyped, NEW w \in SyncWorkers, NEW pc, NEW kinds,
         AtStep(w, pc, kinds), pc # "idle"
  PROVE  /\ worker[w] # SyncIdle /\ worker[w] \in Busy /\ worker[w].ev \in sent
         /\ worker[w].read \in SyncRow \cup {NoSyncRow} /\ worker[w].read.planName \in SyncPlans
         /\ worker[w].ev \in SyncEvent \cup {Checkout}
         /\ "checkout" \notin kinds => worker[w].ev \in SyncEvent
  <1>1. worker[w] # SyncIdle
    BY DEF AtStep, SyncIdle
  <1>2. worker[w] \in Busy /\ worker[w].ev \in sent
    BY <1>1 DEF MirrorTyped, SyncTypeOK, SentIsHandled
  <1>3. worker[w].read \in SyncRow \cup {NoSyncRow} /\ worker[w].ev \in SyncEvent \cup {Checkout}
    BY <1>2 DEF Busy
  <1>4. worker[w].read.planName \in SyncPlans
    BY <1>3 DEF SyncRow, NoSyncRow, SyncPlans
  <1>5. "checkout" \notin kinds => worker[w].ev \in SyncEvent
    BY <1>3 DEF AtStep, Checkout
  <1> QED
    BY <1>1, <1>2, <1>3, <1>4, <1>5

LEMMA SyncEventIs ==
  ASSUME NEW ev \in SyncEvent
  PROVE  ev.sub \in SyncSubs /\ ev.status \in SyncStatus /\ ev.product \in Products /\ ev.at \in Time
  BY DEF SyncEvent

\* What a handler may do to the worker it runs on: go on, with a row or without, or end.
LEMMA HandlerGoesOn ==
  ASSUME SyncAssumption, MirrorTyped, NEW w \in SyncWorkers, worker[w] \in Busy, worker[w].ev \in sent,
         NEW pc \in {"read", "assign", "save", "dunning"},
         NEW asRead \in SyncRow \cup {NoSyncRow}, SyncGoto(w, pc) \/ SyncGotoWith(w, pc, asRead)
  PROVE  /\ worker' \in [SyncWorkers -> Busy \cup {SyncIdle}]
         /\ \A v \in SyncWorkers : worker'[v] # SyncIdle => worker'[v].ev \in sent
  <1>1. PICK b : /\ b \in Busy /\ b.ev = worker[w].ev /\ worker' = [worker EXCEPT ![w] = b]
    <2>1. CASE SyncGoto(w, pc)
      <3>1. PICK b : b = [worker[w] EXCEPT !.pc = pc]
        OBVIOUS
      <3>2. b \in Busy /\ b.ev = worker[w].ev
        BY <3>1 DEF Busy
      <3> QED
        BY <2>1, <3>1, <3>2 DEF SyncGoto
    <2>2. CASE SyncGotoWith(w, pc, asRead)
      <3>1. PICK b : b = [worker[w] EXCEPT !.pc = pc, !.read = asRead]
        OBVIOUS
      <3>2. b \in Busy /\ b.ev = worker[w].ev
        BY <3>1 DEF Busy
      <3> QED
        BY <2>2, <3>1, <3>2 DEF SyncGotoWith
    <2> QED
      BY <2>1, <2>2
  <1> QED
    BY <1>1 DEF MirrorTyped, SyncTypeOK, SentIsHandled

LEMMA ComesToAnEnd ==
  ASSUME MirrorTyped, NEW w \in SyncWorkers, worker[w] # SyncIdle, SyncThrows(w)
  PROVE  /\ worker' \in [SyncWorkers -> Busy \cup {SyncIdle}] /\ spent' \in Attempts
         /\ \A v \in SyncWorkers : worker'[v] # SyncIdle => worker'[v].ev \in sent
  BY SpentTyped DEF SyncThrows, MirrorTyped, SyncTypeOK, SentIsHandled

LEMMA EndsDone ==
  ASSUME MirrorTyped, NEW w \in SyncWorkers, worker[w].ev \in sent, Ends(w)
  PROVE  /\ worker' \in [SyncWorkers -> Busy \cup {SyncIdle}] /\ done' \subseteq sent
         /\ \A v \in SyncWorkers : worker'[v] # SyncIdle => worker'[v].ev \in sent
  BY DEF Ends, MirrorTyped, SyncTypeOK, SentIsHandled

\* Handlers write nothing of Stripe's; what they write is typed.
LEMMA HandlersType ==
  ASSUME MirrorTyped, UNCHANGED stripeState,
         worker' \in [SyncWorkers -> Busy \cup {SyncIdle}],
         \A v \in SyncWorkers : worker'[v] # SyncIdle => worker'[v].ev \in sent,
         done' \subseteq sent, customer' \in BOOLEAN,
         mirrored' \in [SyncSubs -> SyncRow \cup {NoSyncRow}],
         planRow' \in [name : SyncPlans, source : PlanSources],
         spent' \in Attempts, replays' \in 0 .. MaxReplays, syncFaults' \in 0 .. MaxSyncFaults
  PROVE  MirrorTyped'
  BY DEF MirrorTyped, SyncTypeOK, SentIsHandled, stripeState

LEMMA SavedRowTyped ==
  ASSUME NEW old \in SyncRow \cup {NoSyncRow}, NEW read, NEW new \in SyncRow
  PROVE  SavedRow(old, read, new) \in SyncRow
  <1>1. CASE old.status = "none"
    BY <1>1 DEF SavedRow
  <1>2. CASE old.status # "none"
    <2>1. old \in SyncRow
      BY <1>2 DEF NoSyncRow
    <2>2. old.status \in SyncStatus /\ old.planName \in SyncPlans /\ old.lastEventAt \in Time
      BY <2>1 DEF SyncRow
    <2>3. new.status \in SyncStatus /\ new.planName \in SyncPlans /\ new.lastEventAt \in Time
      BY DEF SyncRow
    <2> QED
      BY <1>2, <2>2, <2>3 DEF SavedRow, SyncRow
  <1> QED
    BY <1>1, <1>2

LEMMA StripeKeepsTypes ==
  ASSUME SyncAssumption, MirrorTyped, Sends
  PROVE  MirrorTyped'
  <1>1. PICK s \in SyncSubs, kind \in {"upsert", "deleted", "succeeded", "failed"},
             st \in SyncStatus, product \in Products : StripeChanges(s, kind, st, product)
    <2>1. PICK s \in SyncSubs :
            \/ \E st \in {"active", "past_due"}, product \in Products : Updates(s, st, product)
            \/ CancelsAtStripe(s) \/ InvoiceFails(s) \/ InvoicePaid(s)
      BY DEF Sends
    <2>2. truth[s].status # "none" => truth[s].product \in Products
      BY DEF MirrorTyped, SyncTypeOK, Subscription, NoSub
    <2>3. CASE \E st \in {"active", "past_due"}, product \in Products : Updates(s, st, product)
      BY <2>3 DEF Updates, SyncStatus
    <2>4. CASE CancelsAtStripe(s)
      BY <2>2, <2>4 DEF CancelsAtStripe, SyncStatus
    <2>5. CASE InvoiceFails(s)
      BY <2>2, <2>5 DEF InvoiceFails, SyncStatus
    <2>6. CASE InvoicePaid(s)
      BY <2>2, <2>6 DEF InvoicePaid, SyncStatus
    <2> QED
      BY <2>1, <2>3, <2>4, <2>5, <2>6
  <1>2. PICK e : e = [kind |-> kind, sub |-> s, status |-> st, product |-> product,
                      at |-> clock + Gap]
    OBVIOUS
  <1>3. PICK t \in Subscription : t = [status |-> st, product |-> product]
    <2>1. [status |-> st, product |-> product] \in Subscription
      BY DEF Subscription
    <2> QED
      BY <2>1
  <1>4. /\ clock' \in Time /\ clock' = clock + Gap /\ sent' = sent \cup {e}
        /\ truth' = [truth EXCEPT ![s] = t]
        /\ UNCHANGED <<done, customer, mirrored, planRow, worker, spent, replays, syncFaults>>
    BY <1>1, <1>2, <1>3 DEF StripeChanges, syncBounds
  <1>5. e \in SyncEvent
    BY <1>2, <1>4 DEF SyncEvent
  <1>6. /\ truth' \in [SyncSubs -> Subscription \cup {NoSub}]
        /\ sent' \subseteq SyncEvent \cup {Checkout} /\ done' \subseteq sent'
    BY <1>3, <1>4, <1>5 DEF MirrorTyped, SyncTypeOK
  <1> QED
    BY <1>4, <1>6 DEF MirrorTyped, SyncTypeOK, SentIsHandled

LEMMA SyncWorkersKeepTypes ==
  ASSUME SyncAssumption, MirrorTyped, NEW w \in SyncWorkers,
         \/ \E ev \in sent : StartsSync(w, ev)
         \/ HandlerStep(w) \/ SyncFails(w) \/ DowngradeFails(w)
  PROVE  MirrorTyped'
  <1>0. /\ done \subseteq sent /\ customer \in BOOLEAN
        /\ mirrored \in [SyncSubs -> SyncRow \cup {NoSyncRow}]
        /\ planRow \in [name : SyncPlans, source : PlanSources]
        /\ spent \in Attempts /\ replays \in 0 .. MaxReplays /\ syncFaults \in 0 .. MaxSyncFaults
        /\ MaxReplays \in Nat /\ MaxSyncFaults \in Nat
    BY DEF MirrorTyped, SyncTypeOK, SyncAssumption
  <1>2. ASSUME NEW ev \in sent, StartsSync(w, ev) PROVE MirrorTyped'
    <2>1. PICK b : b = [pc |-> "read", ev |-> ev, read |-> NoSyncRow]
      OBVIOUS
    <2>2. b \in Busy /\ b.ev = ev /\ worker' = [worker EXCEPT ![w] = b]
      BY <1>2, <2>1 DEF Busy, StartsSync, MirrorTyped, SyncTypeOK
    <2>3. /\ worker' \in [SyncWorkers -> Busy \cup {SyncIdle}]
          /\ \A v \in SyncWorkers : worker'[v] # SyncIdle => worker'[v].ev \in sent
      BY <2>2 DEF MirrorTyped, SyncTypeOK, SentIsHandled
    <2> QED
      BY <1>0, <1>2, <2>3, HandlersType DEF StartsSync, syncBounds
  <1>4. ASSUME SyncFault PROVE syncFaults' \in 0 .. MaxSyncFaults
    BY <1>0, <1>4 DEF SyncFault
  <1>5. CASE SyncFails(w)
    BY <1>0, <1>4, <1>5, ComesToAnEnd, HandlersType DEF SyncFails
  <1>6. CASE DowngradeFails(w)
    <2>1. worker[w].ev \in sent
      BY <1>6, AtStepHolds DEF DowngradeFails
    <2> QED
      BY <1>0, <1>4, <1>6, <2>1, EndsDone, HandlersType DEF DowngradeFails
  <1>7. CASE MapsCustomer(w)
    <2>1. worker[w].ev \in sent
      BY <1>7, AtStepHolds DEF MapsCustomer
    <2> QED
      BY <1>0, <1>7, <2>1, EndsDone, HandlersType DEF MapsCustomer, syncBounds
  <1>8. CASE Unresolved(w)
    BY <1>0, <1>8, ComesToAnEnd, HandlersType DEF Unresolved, AtStep, SyncIdle
  <1>9. CASE DropsStale(w)
    <2>1. worker[w].ev \in sent
      BY <1>9, AtStepHolds DEF DropsStale
    <2> QED
      BY <1>0, <1>9, <2>1, EndsDone, HandlersType DEF DropsStale, syncBounds
  <1>10. ASSUME NEW kinds, AtStep(w, "read", kinds), "checkout" \notin kinds, NEW pc \in {"assign", "save"},
                SyncGotoWith(w, pc, mirrored[worker[w].ev.sub]),
                UNCHANGED <<stripeState, done, customer, mirrored, planRow, syncBounds>>
         PROVE  MirrorTyped'
    <2>1. worker[w] \in Busy /\ worker[w].ev \in sent /\ worker[w].ev \in SyncEvent
      BY <1>10, AtStepHolds
    <2>2. mirrored[worker[w].ev.sub] \in SyncRow \cup {NoSyncRow}
      BY <1>0, <2>1, SyncEventIs
    <2>3. /\ worker' \in [SyncWorkers -> Busy \cup {SyncIdle}]
          /\ \A v \in SyncWorkers : worker'[v] # SyncIdle => worker'[v].ev \in sent
      BY <1>10, <2>1, <2>2, HandlerGoesOn
    <2> QED
      BY <1>0, <1>10, <2>3, HandlersType DEF syncBounds
  <1>11. CASE ReadsMirror(w)
    BY <1>10, <1>11 DEF ReadsMirror, Syncs
  <1>12. CASE AssignsPlan(w)
    <2>1. worker[w] \in Busy /\ worker[w].ev \in sent
      BY <1>12, AtStepHolds DEF AssignsPlan
    <2>2. NoSyncRow \in SyncRow \cup {NoSyncRow}
      OBVIOUS
    <2>3. /\ worker' \in [SyncWorkers -> Busy \cup {SyncIdle}]
          /\ \A v \in SyncWorkers : worker'[v] # SyncIdle => worker'[v].ev \in sent
      BY <1>12, <2>1, <2>2, HandlerGoesOn DEF AssignsPlan
    <2>4. planRow' \in [name : SyncPlans, source : PlanSources]
      BY <1>12, PlanOfTyped DEF AssignsPlan, AssignPlan, PlanSources
    <2> QED
      BY <1>0, <1>12, <2>3, <2>4, HandlersType DEF AssignsPlan, syncBounds
  <1>13. CASE SavesMirror(w)
    <2>1. worker[w].ev \in sent /\ worker[w].ev \in SyncEvent
      BY <1>13, AtStepHolds DEF SavesMirror, Syncs
    <2>2. PICK ev \in SyncEvent : ev = worker[w].ev
      BY <2>1
    <2>3. PICK new : new = [status |-> ev.status, planName |-> PlanOf(ev), lastEventAt |-> ev.at]
      OBVIOUS
    <2>4. new \in SyncRow
      BY <2>3, SyncEventIs, PlanOfTyped DEF SyncRow
    <2>5. PICK saved : saved = SavedRow(mirrored[ev.sub], worker[w].read, new)
      OBVIOUS
    <2>6. saved \in SyncRow
      BY <1>0, <2>4, <2>5, SyncEventIs, SavedRowTyped
    <2>7. mirrored' = [mirrored EXCEPT ![ev.sub] = saved]
      BY <1>13, <2>2, <2>3, <2>5 DEF SavesMirror
    <2>8. mirrored' \in [SyncSubs -> SyncRow \cup {NoSyncRow}]
      BY <1>0, <2>6, <2>7
    <2> QED
      BY <1>0, <1>13, <2>1, <2>8, EndsDone, HandlersType DEF SavesMirror, syncBounds
  <1>14. CASE InsertCollides(w)
    BY <1>0, <1>14, ComesToAnEnd, HandlersType DEF InsertCollides, AtStep, SyncIdle
  <1>15. CASE IgnoresPayment(w)
    <2>1. worker[w].ev \in sent
      BY <1>15, AtStepHolds DEF IgnoresPayment
    <2> QED
      BY <1>0, <1>15, <2>1, EndsDone, HandlersType DEF IgnoresPayment, syncBounds
  <1>16. ASSUME worker[w] \in Busy, worker[w].ev \in sent, AfterStatus(w)
         PROVE  /\ worker' \in [SyncWorkers -> Busy \cup {SyncIdle}] /\ done' \subseteq sent
                /\ \A v \in SyncWorkers : worker'[v] # SyncIdle => worker'[v].ev \in sent
    <2>1. CASE Ends(w)
      BY <1>16, <2>1, EndsDone
    <2>2. CASE SyncGoto(w, "dunning") /\ UNCHANGED done
      <3>1. NoSyncRow \in SyncRow \cup {NoSyncRow}
        OBVIOUS
      <3> QED
        BY <1>0, <1>16, <2>2, <3>1, HandlerGoesOn
    <2> QED
      BY <1>16, <2>1, <2>2 DEF AfterStatus
  <1>17. CASE KeepsStatus(w)
    <2>1. worker[w] \in Busy /\ worker[w].ev \in sent
      BY <1>17, AtStepHolds DEF KeepsStatus
    <2> QED
      BY <1>0, <1>16, <1>17, <2>1, HandlersType DEF KeepsStatus, syncBounds
  <1>18. CASE ReadsStatus(w)
    BY <1>10, <1>18 DEF ReadsStatus, Payments
  <1>19. CASE SavesStatus(w)
    <2>1. /\ worker[w] \in Busy /\ worker[w].ev \in sent /\ worker[w].ev \in SyncEvent
          /\ worker[w].read.planName \in SyncPlans
      BY <1>19, AtStepHolds DEF SavesStatus, Payments
    <2>2. PICK ev \in SyncEvent : ev = worker[w].ev
      BY <2>1
    <2>3. PICK new : new = [status      |-> IF ev.kind = "succeeded" THEN "active" ELSE "past_due",
                            planName    |-> worker[w].read.planName,
                            lastEventAt |-> ev.at]
      OBVIOUS
    <2>4. new \in SyncRow
      BY <2>1, <2>3, SyncEventIs DEF SyncRow, SyncStatus
    <2>5. PICK saved : saved = SavedRow(mirrored[ev.sub], worker[w].read, new)
      OBVIOUS
    <2>6. saved \in SyncRow
      BY <1>0, <2>4, <2>5, SyncEventIs, SavedRowTyped
    <2>7. mirrored' = [mirrored EXCEPT ![ev.sub] = saved]
      BY <1>19, <2>2, <2>3, <2>5 DEF SavesStatus
    <2>8. mirrored' \in [SyncSubs -> SyncRow \cup {NoSyncRow}]
      BY <1>0, <2>6, <2>7
    <2> QED
      BY <1>0, <1>16, <1>19, <2>1, <2>8, HandlersType DEF SavesStatus, syncBounds
  <1>20. CASE Downgrades(w)
    <2>1. worker[w].ev \in sent
      BY <1>20, AtStepHolds DEF Downgrades
    <2>2. planRow' \in [name : SyncPlans, source : PlanSources]
      BY <1>20 DEF Downgrades, AssignPlan, PlanSources, SyncPlans
    <2> QED
      BY <1>0, <1>20, <2>1, <2>2, EndsDone, HandlersType DEF Downgrades, syncBounds
  <1> QED
    BY <1>2, <1>5, <1>6, <1>7, <1>8, <1>9, <1>11, <1>12, <1>13, <1>14, <1>15, <1>17, <1>18,
       <1>19, <1>20 DEF HandlerStep

LEMMA ReplaysKeepTypes ==
  ASSUME SyncAssumption, MirrorTyped, NEW ev \in sent, ReplaysSync(ev)
  PROVE  MirrorTyped'
  <1>1. replays' \in 0 .. MaxReplays
    BY DEF ReplaysSync, MirrorTyped, SyncTypeOK, SyncAssumption
  <1>2. spent' \in Attempts
    BY SpentTyped DEF ReplaysSync, MirrorTyped
  <1> QED
    BY <1>1, <1>2 DEF ReplaysSync, MirrorTyped, SyncTypeOK, SentIsHandled, stripeState

LEMMA MirrorTypedStep ==
  ASSUME SyncAssumption, MirrorTyped, [SyncNext]_syncVars
  PROVE  MirrorTyped'
  <1>1. CASE UNCHANGED syncVars
    BY <1>1 DEF syncVars, stripeState, syncBounds, MirrorTyped, SyncTypeOK, SentIsHandled
  <1> QED
    BY <1>1, StripeKeepsTypes, SyncWorkersKeepTypes, ReplaysKeepTypes DEF SyncNext, SyncRest

LEMMA MirrorTypedStart ==
  ASSUME SyncAssumption, SyncInit PROVE MirrorTyped
  <1>1. /\ SyncTypeOK
    BY DEF SyncAssumption, SyncInit, SyncTypeOK, Time, SyncPlans, PlanSources, Attempts
  <1> QED
    BY <1>1 DEF SyncInit, MirrorTyped, SentIsHandled

\* Stripe's subscriptions, their events and the mirror are of their types, however many
\* handlers run at the same time, fail and are retried.
THEOREM SyncTypes == ASSUME SyncAssumption PROVE SyncSpec => []SyncTypeOK
  <1>1. SyncInit => MirrorTyped
    BY MirrorTypedStart
  <1>2. MirrorTyped /\ [SyncNext]_syncVars => MirrorTyped'
    BY MirrorTypedStep
  <1>3. MirrorTyped => SyncTypeOK
    BY DEF MirrorTyped
  <1> QED
    BY <1>1, <1>2, <1>3, PTL DEF SyncSpec

(***************************************************************************)
(*                      The components side by side                        *)
(***************************************************************************)

\* What a component does at rest is what its specification lets it start with.
LEMMA IntakeStartsAtRest ==
  ASSUME IntakeRests PROVE IntakeInit
  <1>1. InOrder \in Configs /\ InOrder.production /\ InOrder.key = "live"
    BY DEF InOrder, Configs
  <1>2. PICK b : b = [fields |-> {}, customer |-> "absent", product |-> "absent",
                      subscription |-> "absent", parent |-> "absent"]
    OBVIOUS
  <1>3. b \in Bodies("other") /\ Relevant("other", b)
    BY <1>2 DEF Bodies, ReadBy, Forms, Relevant
  <1>4. [type |-> "other", object |-> b] \in Events
    BY <1>3 DEF Events, Types
  <1>5. /\ Ordinary \in IntakeRequests /\ Ordinary.body /\ Ordinary.signature = "valid"
        /\ Ordinary.ip = "listed" /\ Ordinary.enforced
    BY <1>2, <1>4 DEF Ordinary, IntakeRequests, Sources
  <1> QED
    BY <1>1, <1>5 DEF IntakeRests, IntakeInit

LEMMA ImportStartsAtRest ==
  ASSUME ImportRests PROVE ImportInit
  BY SafetyAssumption DEF ImportRests, ImportInit

LEMMA ComponentsStart ==
  ASSUME Init
  PROVE  /\ QuotaInit /\ DeliveryInit /\ FleetInit /\ ReconcileInit /\ ScopeInit /\ PathInit
         /\ SsoInit /\ BootInit /\ BackupInit /\ DoctorInit /\ SyncInit /\ RateInit
         /\ IntakeInit /\ ImportInit
  BY IntakeStartsAtRest, ImportStartsAtRest DEF Init

LEMMA ComponentsStep ==
  ASSUME [Next]_vars
  PROVE  /\ [QuotaNext]_quotaVars /\ [DeliveryNext]_deliveryVars /\ [FleetNext]_fleetVars
         /\ [ReconcileNext]_reconcileVars /\ [ScopeNext]_scopeVars /\ [PathNext]_pathVars
         /\ [SsoNext]_ssoVars /\ [BootNext]_boot /\ [BackupNext]_backupVars /\ [DoctorNext]_doctor
         /\ [SyncNext]_syncVars /\ [RateNext]_limiter /\ [IntakeNext]_intake /\ [ImportNext]_import
  BY DEF Next, vars

\* A behaviour of MCSafety is one of each component's own specification, so that what is
\* proved of a component holds of it here.
THEOREM ComponentsKeepToTheirSpecifications ==
  Spec => /\ QuotaSpec /\ DeliverySpec /\ FleetSpec /\ ReconcileSpec /\ ScopeSpec /\ PathSpec
          /\ SsoSpec /\ BootSpec /\ BackupSpec /\ DoctorSpec /\ SyncSpec /\ RateSpec
          /\ IntakeSpec /\ ImportSpec
  <1>1. Init => /\ QuotaInit /\ DeliveryInit /\ FleetInit /\ ReconcileInit /\ ScopeInit /\ PathInit
                /\ SsoInit /\ BootInit /\ BackupInit /\ DoctorInit /\ SyncInit /\ RateInit
                /\ IntakeInit /\ ImportInit
    BY ComponentsStart
  <1>2. [Next]_vars =>
          /\ [QuotaNext]_quotaVars /\ [DeliveryNext]_deliveryVars /\ [FleetNext]_fleetVars
          /\ [ReconcileNext]_reconcileVars /\ [ScopeNext]_scopeVars /\ [PathNext]_pathVars
          /\ [SsoNext]_ssoVars /\ [BootNext]_boot /\ [BackupNext]_backupVars /\ [DoctorNext]_doctor
          /\ [SyncNext]_syncVars /\ [RateNext]_limiter /\ [IntakeNext]_intake /\ [ImportNext]_import
    BY ComponentsStep
  <1> QED
    BY <1>1, <1>2, PTL DEF Spec, QuotaSpec, DeliverySpec, FleetSpec, ReconcileSpec, ScopeSpec,
       PathSpec, SsoSpec, BootSpec, BackupSpec, DoctorSpec, SyncSpec, RateSpec, IntakeSpec, ImportSpec

(***************************************************************************)
(*                            The components' types                        *)
(***************************************************************************)

\* A session in which an admin acts for a user.
LEMMA ActingTypesStep ==
  ASSUME Acting!TypeOK, Acting!Next PROVE Acting!TypeOK'
  <1> DEFINE N == {"n1", "n2"}
             C == {"c1", "c2"}
             On2 == [c \in C |-> IF c = "c1" THEN "n1" ELSE "n2"]
  <1>5. ASSUME Acting!Fault PROVE v8' \in 0 .. 0
    BY <1>5 DEF Acting!Fault, Acting!TypeOK
  <1> USE DEF Acting!Session, Acting!Pc, Acting!cache, Acting!facts
  <1>1. ASSUME NEW n \in N, NEW v \in {"unused", "used", Nothing}, Acting!SetAt(n, v)
        PROVE  /\ v2' \in [N -> Acting!Session \cup {Nothing}] /\ v3' \in Acting!Session \cup {Nothing}
               /\ v4' \subseteq N
    BY <1>1 DEF Acting!SetAt, Acting!TypeOK
  <1>2. ASSUME NEW n \in N, Acting!Fills(n)
        PROVE  /\ v2' \in [N -> Acting!Session \cup {Nothing}] /\ UNCHANGED <<v3, v4>>
    BY <1>2 DEF Acting!Fills, Acting!Got, Acting!TypeOK
  <1>3. ASSUME NEW c \in C, NEW pc \in Acting!Pc, Acting!Goto(c, pc)
        PROVE  v5' \in [C -> Acting!Pc]
    BY <1>3 DEF Acting!Goto, Acting!TypeOK
  <1>4. \A c \in C : On2[c] \in N
    OBVIOUS
  <1>6. ASSUME NEW c \in C, Acting!Start(c) PROVE Acting!TypeOK'
    BY <1>3, <1>6 DEF Acting!Start, Acting!TypeOK
  <1>7. ASSUME NEW c \in C, Acting!Uses(c) PROVE Acting!TypeOK'
    BY <1>7 DEF Acting!Uses, Acting!TypeOK
  <1>8. ASSUME NEW c \in C, Acting!Stores(c) PROVE Acting!TypeOK'
    BY <1>1, <1>3, <1>4, <1>8 DEF Acting!Stores, Acting!TypeOK
  <1>9. ASSUME NEW c \in C, Acting!Verifies(c) PROVE Acting!TypeOK'
    BY <1>2, <1>3, <1>4, <1>9 DEF Acting!Verifies, Acting!TypeOK
  <1>10. ASSUME NEW c \in C, Acting!Drops(c) PROVE Acting!TypeOK'
    BY <1>1, <1>3, <1>4, <1>10 DEF Acting!Drops, Acting!TypeOK
  <1>11. ASSUME NEW c \in C, Acting!Marks(c) PROVE Acting!TypeOK'
    BY <1>1, <1>3, <1>4, <1>11 DEF Acting!Marks, Acting!TypeOK
  <1>12. ASSUME NEW c \in C, Acting!MarkFails(c) PROVE Acting!TypeOK'
    BY <1>3, <1>5, <1>12 DEF Acting!MarkFails, Acting!TypeOK
  <1>13. ASSUME NEW c \in C, NEW pc, NEW found \in Acting!Pc, Acting!LooksFor(c, pc, found)
         PROVE  Acting!TypeOK'
    BY <1>2, <1>3, <1>4, <1>13 DEF Acting!LooksFor, Acting!TypeOK
  <1>14. ASSUME NEW c \in C, Acting!Deletes(c) PROVE Acting!TypeOK'
    BY <1>1, <1>3, <1>4, <1>14 DEF Acting!Deletes, Acting!TypeOK
  <1>15. ASSUME NEW c \in C, NEW pc, NEW action \in {"start", "use", "stop"}, Acting!Logs(c, pc, action)
         PROVE  Acting!TypeOK'
    BY <1>3, <1>5, <1>15 DEF Acting!Logs, Acting!TypeOK
  <1>16. ASSUME NEW c \in C, Acting!CallStep(c) PROVE Acting!TypeOK'
    BY <1>8, <1>9, <1>10, <1>11, <1>12, <1>13, <1>14, <1>15, <1>16 DEF Acting!CallStep
  <1>17. ASSUME NEW n \in N, Acting!Hears(n) PROVE Acting!TypeOK'
    BY <1>17 DEF Acting!Hears, Acting!TypeOK
  <1>18. CASE Acting!Expires
    BY <1>18 DEF Acting!Expires, Acting!TypeOK
  <1>19. CASE Acting!TimeIsUp
    BY <1>19 DEF Acting!TimeIsUp, Acting!TypeOK
  <1> QED
    BY <1>6, <1>7, <1>16, <1>17, <1>18, <1>19 DEF Acting!Next

LEMMA ActingTypesStart ==
  ASSUME Acting!Init PROVE Acting!TypeOK
  <1>1. "idle" \in Acting!Pc
    BY Zenon DEF Acting!Pc
  <1>2. Nothing \in Acting!Session \cup {Nothing} /\ 0 \in 0 .. 0
    OBVIOUS
  <1> QED
    BY <1>1, <1>2 DEF Acting!Init, Acting!TypeOK

\* The circuit breaker of a tenant in one process.
BreakerIs == [state : {"none", "CLOSED", "OPEN", "HALF_OPEN"}, timer : BOOLEAN, failures : 0 .. 1]
BreakersOK ==
  /\ v1 \in BOOLEAN /\ v5 \in {"CLOSED", "OPEN", "HALF_OPEN", "none"}
  /\ v2 \in [{"n1"} -> BreakerIs]
  /\ v3 \in [{"n1"} -> Seq({"CLOSED", "OPEN", "HALF_OPEN"})]
  /\ v4 \in [{"n1"} -> {"none", "asked", "read_open", "read_other"}]
  /\ v6 \in 0 .. 1 /\ v7 \in 0 .. 1 /\ v8 \in 0 .. 1 /\ v9 \in 0 .. 1

LEMMA BreakerShapes ==
  /\ Breakers!NoBreaker \in BreakerIs
  /\ Breakers!Fresh \in BreakerIs /\ Breakers!Fresh.state = "CLOSED"
  /\ Breakers!Opened \in BreakerIs /\ Breakers!Opened.state = "OPEN"
  <1>1. Breakers!NoBreaker \in BreakerIs
    BY DEF Breakers!NoBreaker, BreakerIs
  <1>2. Breakers!Opened \in BreakerIs /\ Breakers!Opened.state = "OPEN"
    BY DEF Breakers!Opened, BreakerIs
  <1>3. PICK b \in BreakerIs : b = Breakers!NoBreaker
    BY <1>1
  <1>4. [b EXCEPT !.state = "CLOSED"] \in BreakerIs /\ [b EXCEPT !.state = "CLOSED"].state = "CLOSED"
    BY DEF BreakerIs
  <1>5. Breakers!Fresh = [b EXCEPT !.state = "CLOSED"]
    BY <1>3, Zenon DEF Breakers!Fresh
  <1> QED
    BY <1>1, <1>2, <1>4, <1>5

LEMMA BreakersAreOfTheirTypes ==
  ASSUME BreakersOK PROVE Breakers!CircuitTypeOK
  <1>1. v2["n1"] \in BreakerIs /\ v3["n1"] \in Seq({"CLOSED", "OPEN", "HALF_OPEN"})
    BY DEF BreakersOK
  <1>2. \A i \in 1 .. Len(v3["n1"]) : v3["n1"][i] \in {"CLOSED", "OPEN", "HALF_OPEN"}
    BY <1>1
  <1> QED
    BY <1>1, <1>2 DEF BreakersOK, BreakerIs, Breakers!CircuitTypeOK, Breakers!BreakerStates, Breakers!Reading

LEMMA BreakersStart ==
  ASSUME Breakers!CircuitInit PROVE BreakersOK
  <1>1. v2 \in [{"n1"} -> BreakerIs]
    BY BreakerShapes DEF Breakers!CircuitInit
  <1> QED
    BY <1>1 DEF Breakers!CircuitInit, BreakersOK, Breakers!BreakerStates

LEMMA BreakersStep ==
  ASSUME BreakersOK, Breakers!CircuitNext PROVE BreakersOK'
  <1> USE DEF Breakers!bounded
  <1>1. PICK me \in BreakerIs : me = v2["n1"]
    BY DEF BreakersOK
  <1>2. PICK pending \in Seq({"CLOSED", "OPEN", "HALF_OPEN"}) : pending = v3["n1"]
    BY DEF BreakersOK
  <1>3. ASSUME NEW new \in BreakerIs, v2' = [v2 EXCEPT !["n1"] = new]
        PROVE  v2' \in [{"n1"} -> BreakerIs]
    BY <1>3 DEF BreakersOK
  <1>4. ASSUME NEW s \in Seq({"CLOSED", "OPEN", "HALF_OPEN"}), v3' = [v3 EXCEPT !["n1"] = s]
        PROVE  v3' \in [{"n1"} -> Seq({"CLOSED", "OPEN", "HALF_OPEN"})]
    BY <1>4 DEF BreakersOK
  <1>5. ASSUME NEW new \in BreakerIs, new.state \in {"CLOSED", "OPEN", "HALF_OPEN"},
               Breakers!Changes("n1", new)
        PROVE  /\ v2' \in [{"n1"} -> BreakerIs]
               /\ v3' \in [{"n1"} -> Seq({"CLOSED", "OPEN", "HALF_OPEN"})]
    <2>1. Append(pending, new.state) \in Seq({"CLOSED", "OPEN", "HALF_OPEN"})
      BY <1>5
    <2>2. v3' = [v3 EXCEPT !["n1"] = Append(pending, new.state)]
      BY <1>2, <1>5 DEF Breakers!Changes
    <2> QED
      BY <1>3, <1>4, <1>5, <2>1, <2>2 DEF Breakers!Changes
  <1>6. ASSUME NEW r \in {"none", "asked", "read_open", "read_other"}, v4' = [v4 EXCEPT !["n1"] = r]
        PROVE  v4' \in [{"n1"} -> {"none", "asked", "read_open", "read_other"}]
    BY <1>6 DEF BreakersOK
  <1>7. CASE Breakers!GetCircuit("n1")
    BY <1>3, <1>6, <1>7, BreakerShapes DEF Breakers!GetCircuit, BreakersOK
  <1>8. CASE Breakers!ReadsKey("n1")
    <2>1. PICK r \in {"read_open", "read_other"} : v4' = [v4 EXCEPT !["n1"] = r]
      BY <1>8 DEF Breakers!ReadsKey
    <2> QED
      BY <1>6, <1>8, <2>1 DEF Breakers!ReadsKey, BreakersOK
  <1>9. CASE Breakers!Restored("n1")
    <2>1. v4' \in [{"n1"} -> {"none", "asked", "read_open", "read_other"}]
      BY <1>6, <1>9 DEF Breakers!Restored
    <2>2. CASE Breakers!Restores("n1")
      <3>1. /\ v2' \in [{"n1"} -> BreakerIs]
            /\ v3' \in [{"n1"} -> Seq({"CLOSED", "OPEN", "HALF_OPEN"})]
        BY <1>5, <2>2, BreakerShapes DEF Breakers!Restores
      <3> QED
        BY <1>9, <2>1, <3>1 DEF Breakers!Restored, BreakersOK
    <2>3. CASE UNCHANGED <<v2, v3>>
      BY <1>9, <2>1, <2>3 DEF Breakers!Restored, BreakersOK
    <2> QED
      BY <1>9, <2>2, <2>3 DEF Breakers!Restored
  <1>10. ASSUME NEW x \in 0 .. 1, x < 1 PROVE x + 1 \in 0 .. 1
    BY <1>10
  <1>11. CASE Breakers!ReadFails("n1")
    BY <1>6, <1>11 DEF Breakers!ReadFails, BreakersOK
  <1>12. CASE Breakers!Call("n1")
    <2>1. CASE Breakers!Changes("n1", IF v1 THEN Breakers!Fresh ELSE Breakers!Opened)
      <3>1. /\ v2' \in [{"n1"} -> BreakerIs]
            /\ v3' \in [{"n1"} -> Seq({"CLOSED", "OPEN", "HALF_OPEN"})]
        BY <1>5, <2>1, BreakerShapes
      <3> QED
        BY <1>12, <3>1 DEF Breakers!Call, BreakersOK
    <2>2. CASE Breakers!Changes("n1", Breakers!Opened)
      <3>1. /\ v2' \in [{"n1"} -> BreakerIs]
            /\ v3' \in [{"n1"} -> Seq({"CLOSED", "OPEN", "HALF_OPEN"})]
        BY <1>5, <2>2, BreakerShapes
      <3> QED
        BY <1>12, <3>1 DEF Breakers!Call, BreakersOK
    <2>3. CASE /\ v2["n1"].state = "CLOSED" /\ ~(~v1 /\ v2["n1"].failures + 1 >= 1)
               /\ v2' = [v2 EXCEPT !["n1"].failures = IF v1 THEN 0 ELSE @ + 1] /\ UNCHANGED v3
      <3>1. me.failures + 1 >= 1
        BY DEF BreakerIs
      <3>2. v1
        BY <1>1, <2>3, <3>1
      <3>3. v2' = [v2 EXCEPT !["n1"] = [me EXCEPT !.failures = 0]]
        BY <1>1, <2>3, <3>2
      <3>4. [me EXCEPT !.failures = 0] \in BreakerIs
        BY DEF BreakerIs
      <3>5. v2' \in [{"n1"} -> BreakerIs]
        BY <1>3, <3>3, <3>4
      <3> QED
        BY <1>12, <2>3, <3>5 DEF Breakers!Call, BreakersOK
    <2> QED
      BY <1>12, <2>1, <2>2, <2>3 DEF Breakers!Call
  <1>13. CASE Breakers!TimeIsUp("n1")
    <2>1. PICK new : new = [me EXCEPT !.state = "HALF_OPEN", !.timer = FALSE]
      OBVIOUS
    <2>2. new \in BreakerIs /\ new.state = "HALF_OPEN"
      BY <2>1 DEF BreakerIs
    <2>3. Breakers!Changes("n1", new)
      BY <1>1, <1>13, <2>1 DEF Breakers!TimeIsUp
    <2>4. /\ v2' \in [{"n1"} -> BreakerIs]
          /\ v3' \in [{"n1"} -> Seq({"CLOSED", "OPEN", "HALF_OPEN"})]
      BY <1>5, <2>2, <2>3
    <2> QED
      BY <1>13, <2>4 DEF Breakers!TimeIsUp, BreakersOK
  <1>14. CASE Breakers!Persists("n1")
    <2>1. pending # <<>>
      BY <1>2, <1>14 DEF Breakers!Persists
    <2>2. /\ Tail(pending) \in Seq({"CLOSED", "OPEN", "HALF_OPEN"})
          /\ Head(pending) \in {"CLOSED", "OPEN", "HALF_OPEN"}
      BY <2>1
    <2>3. v3' = [v3 EXCEPT !["n1"] = Tail(pending)]
      BY <1>2, <1>14 DEF Breakers!Persists
    <2>4. v3' \in [{"n1"} -> Seq({"CLOSED", "OPEN", "HALF_OPEN"})]
      BY <1>4, <2>2, <2>3
    <2>5. v5' \in {"CLOSED", "OPEN", "HALF_OPEN", "none"}
      BY <1>2, <1>14, <2>2 DEF Breakers!Persists, BreakersOK
    <2>6. v9' \in 0 .. 1
      BY <1>14 DEF Breakers!Persists, BreakersOK
    <2>7. UNCHANGED <<v1, v2, v4, v6, v7, v8>>
      BY <1>14 DEF Breakers!Persists
    <2> QED
      BY <2>4, <2>5, <2>6, <2>7 DEF BreakersOK
  <1>15. CASE Breakers!Resets("n1")
    <2>1. PICK more \in {<<"CLOSED">>, <<"CLOSED", "CLOSED">>} :
            v3' = [v3 EXCEPT !["n1"] = pending \o more]
      BY <1>2, <1>15 DEF Breakers!Resets
    <2>2. pending \o more \in Seq({"CLOSED", "OPEN", "HALF_OPEN"})
      <3>1. <<"CLOSED">> \in Seq({"CLOSED", "OPEN", "HALF_OPEN"})
        OBVIOUS
      <3>2. <<"CLOSED", "CLOSED">> \in Seq({"CLOSED", "OPEN", "HALF_OPEN"})
        OBVIOUS
      <3>3. more \in Seq({"CLOSED", "OPEN", "HALF_OPEN"})
        BY <3>1, <3>2
      <3> QED
        BY <3>3
    <2>3. v3' \in [{"n1"} -> Seq({"CLOSED", "OPEN", "HALF_OPEN"})]
      BY <1>4, <2>1, <2>2
    <2>4. v2' \in [{"n1"} -> BreakerIs]
      BY <1>3, <1>15, BreakerShapes DEF Breakers!Resets
    <2>5. v7' \in 0 .. 1 /\ UNCHANGED <<v1, v4, v5, v6, v8, v9>>
      BY <1>15 DEF Breakers!Resets, BreakersOK
    <2> QED
      BY <2>3, <2>4, <2>5 DEF BreakersOK
  <1>16. CASE Breakers!Destroys("n1")
    <2>1. v2' \in [{"n1"} -> BreakerIs]
      BY <1>3, <1>16, BreakerShapes DEF Breakers!Destroys
    <2>2. v7' \in 0 .. 1 /\ v9' \in 0 .. 1 /\ v5' \in {"CLOSED", "OPEN", "HALF_OPEN", "none"}
      BY <1>16 DEF Breakers!Destroys, BreakersOK
    <2> QED
      BY <1>16, <2>1, <2>2 DEF Breakers!Destroys, BreakersOK
  <1>17. CASE Breakers!ProcessExits("n1")
    <2>1. v2' \in [{"n1"} -> BreakerIs]
      BY <1>3, <1>17, BreakerShapes DEF Breakers!ProcessExits
    <2>2. v3' \in [{"n1"} -> Seq({"CLOSED", "OPEN", "HALF_OPEN"})]
      <3>1. <<>> \in Seq({"CLOSED", "OPEN", "HALF_OPEN"})
        OBVIOUS
      <3> QED
        BY <1>4, <1>17, <3>1 DEF Breakers!ProcessExits
    <2>3. v4' \in [{"n1"} -> {"none", "asked", "read_open", "read_other"}]
      BY <1>6, <1>17 DEF Breakers!ProcessExits
    <2> QED
      BY <1>17, <2>1, <2>2, <2>3 DEF Breakers!ProcessExits, BreakersOK
  <1>18. CASE Breakers!KeyExpires
    BY <1>18 DEF Breakers!KeyExpires, BreakersOK
  <1>19. CASE Breakers!DatabaseMoves
    BY <1>19 DEF Breakers!DatabaseMoves, BreakersOK
  <1> QED
    BY <1>7, <1>8, <1>9, <1>11, <1>12, <1>13, <1>14, <1>15, <1>16, <1>17, <1>18, <1>19
    DEF Breakers!CircuitNext, Breakers!Works

-----------------------------------------------------------------------------
(* A component has its turn *)

\* The types of the two components that are not extended, when it is their turn.
InstancesOK ==
  /\ part = "acting" => Acting!TypeOK
  /\ part = "breakers" => BreakersOK

LEMMA InstancesStart ==
  ASSUME Init PROVE InstancesOK
  <1>1. part = "acting" => Acting!Init
    BY DEF Init, Instanced
  <1>2. part = "breakers" => Breakers!CircuitInit
    BY DEF Init, Instanced
  <1> QED
    BY <1>1, <1>2, ActingTypesStart, BreakersStart DEF InstancesOK

LEMMA InstancesStep ==
  ASSUME InstancesOK, [Next]_vars PROVE InstancesOK'
  <1>1. CASE UNCHANGED turn
    <2>1. UNCHANGED <<part, v1, v2, v3, v4, v5, v6, v7, v8, v9>>
      BY <1>1 DEF turn
    <2>2. Acting!TypeOK => Acting!TypeOK'
      BY <2>1 DEF Acting!TypeOK
    <2>3. BreakersOK => BreakersOK'
      BY <2>1 DEF BreakersOK
    <2> QED
      BY <2>1, <2>2, <2>3 DEF InstancesOK
  <1>2. CASE part = "acting" /\ part' = part /\ Acting!Next
    BY <1>2, ActingTypesStep DEF InstancesOK
  <1>3. CASE part = "breakers" /\ part' = part /\ Breakers!CircuitNext
    BY <1>3, BreakersStep DEF InstancesOK
  <1> QED
    BY <1>1, <1>2, <1>3 DEF Next, vars

\* Every component keeps to its type invariant, whichever has its turn.
THEOREM ComponentTypes == Spec => []TypeOK
  <1>1. Init => InstancesOK
    BY InstancesStart
  <1>2. InstancesOK /\ [Next]_vars => InstancesOK'
    BY InstancesStep
  <1>3. /\ QuotaAssumption /\ DeliveryAssumption /\ SsoAssumption /\ ScopeAssumption
        /\ ReconcileAssumption /\ BootAssumption /\ FleetAssumption /\ RateAssumption
        /\ IntakeAssumption /\ SyncAssumption /\ BackupAssumption /\ DoctorAssumption
        /\ SplitsWhatIsSaid
    BY SafetyAssumption
  <1>4. QuotaSpec => []QuotaTypeOK
    BY <1>3, QuotaTypes
  <1>5. DeliverySpec => []DeliveryTypeOK
    BY <1>3, DeliveryTypes
  <1>6. FleetSpec => []FleetTypeOK
    BY <1>3, FleetTypes
  <1>7. ReconcileSpec => []ReconcileTypeOK
    BY <1>3, ReconcileTypes
  <1>8. ScopeSpec => []ScopeTypeOK
    BY <1>3, ScopeTypes
  <1>9. PathSpec => []PathTypeOK
    BY <1>3, PathTypes
  <1>10. SsoSpec => []SsoTypeOK
    BY <1>3, SsoTypes
  <1>11. BootSpec => []BootTypeOK
    BY <1>3, BootTypes
  <1>12. BackupSpec => []BackupTypeOK
    BY <1>3, BackupTypes
  <1>13. DoctorSpec => []DoctorTypeOK
    BY <1>3, DoctorTypes
  <1>14. SyncSpec => []SyncTypeOK
    BY <1>3, SyncTypes
  <1>15. RateSpec => []RateTypeOK
    BY <1>3, RateTypes
  <1>16. IntakeSpec => []IntakeTypeOK
    BY <1>3, IntakeTypes
  <1>17. ImportSpec => []ImportTypeOK
    BY <1>3, ImportTypes
  <1>18. /\ InstancesOK
        /\ QuotaTypeOK /\ DeliveryTypeOK /\ FleetTypeOK /\ ReconcileTypeOK /\ ScopeTypeOK
        /\ PathTypeOK /\ SsoTypeOK /\ BootTypeOK /\ BackupTypeOK /\ DoctorTypeOK /\ SyncTypeOK
        /\ RateTypeOK /\ IntakeTypeOK /\ ImportTypeOK
        => TypeOK
    BY BreakersAreOfTheirTypes DEF InstancesOK, TypeOK
  <1> QED
    BY <1>1, <1>2, <1>4, <1>5, <1>6, <1>7, <1>8, <1>9, <1>10, <1>11, <1>12, <1>13, <1>14, <1>15,
       <1>16, <1>17, <1>18, ComponentsKeepToTheirSpecifications, PTL DEF Spec

\* The safety invariants of the components hold side by side too, each with the cases
\* that it excepts. Those of the mirror need what their own theorems assume besides: one
\* handler at a time.
THEOREM ComponentsAreSafe ==
  Spec => [](/\ GrantsWithinLimit /\ OutcomeIsTrue /\ ReportIsTrue /\ OneCustomer /\ SyncRepairs
             /\ LeavesWhatItEntered /\ ServesItsTenant /\ OpenIsKnown /\ OneLoginPerState
             /\ ServesOnItsOwnBoot /\ NewestAreKept /\ ReportsWhatStays /\ AdmitsWithinLimit
             /\ HandlesWhatWasSigned /\ AppliesTheDump /\ RowsKeepToTheirScope)
  <1>1. /\ QuotaAssumption /\ DeliveryAssumption /\ SsoAssumption /\ ReconcileAssumption
        /\ RateAssumption /\ BackupAssumption /\ DoctorAssumption /\ IntakeAssumption
        /\ SplitsWhatIsSaid /\ ScopeAssumption
    BY SafetyAssumption
  <1>2. QuotaSpec => []GrantsWithinLimit
    BY <1>1, GrantsStayWithinLimit
  <1>3. DeliverySpec => []OutcomeIsTrue
    BY <1>1, OutcomesAreTrue
  <1>4. FleetSpec => []ReportIsTrue
    BY ReportsAreTrue
  <1>5. ReconcileSpec => []OneCustomer
    BY StripeHasOneCustomer
  <1>6. ReconcileSpec => []SyncRepairs
    BY <1>1, SyncRepairsTheMirror
  <1>7. ScopeSpec => []LeavesWhatItEntered
    BY ScopesLeaveWhatTheyEnter
  <1>8. PathSpec => []ServesItsTenant
    BY EveryRequestServesItsTenant
  <1>9. PathSpec => []OpenIsKnown
    BY NoConnectionIsForgotten
  <1>10. SsoSpec => []OneLoginPerState
    BY <1>1, StatesLogInOnce
  <1>11. BootSpec => []ServesOnItsOwnBoot
    BY ServesOnTheBootItMade
  <1>12. BackupSpec => []NewestAreKept
    BY <1>1, NewestArchivesStay
  <1>13. DoctorSpec => []ReportsWhatStays
    BY <1>1, WhatStaysIsReported
  <1>14. RateSpec => []AdmitsWithinLimit
    BY <1>1, LimitsTheWindow
  <1>15. IntakeSpec => []HandlesWhatWasSigned
    BY <1>1, HandlersWorkWithWhatWasSigned
  <1>16. ImportSpec => []AppliesTheDump
    BY <1>1, ImportAppliesTheDump
  <1>17. ScopeSpec => []RowsKeepToTheirScope
    BY <1>1, WritesKeepToTheirScope
  <1> QED
    BY <1>2, <1>3, <1>4, <1>5, <1>6, <1>7, <1>8, <1>9, <1>10, <1>11, <1>12, <1>13, <1>14, <1>15,
       <1>16, <1>17, ComponentsKeepToTheirSpecifications, PTL

=============================================================================
