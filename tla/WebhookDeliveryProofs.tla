------------------------ MODULE WebhookDeliveryProofs ------------------------
(***************************************************************************)
(* What the status of a delivery is worth, for every number of deliveries, *)
(* of processes that send and of attempts.                                 *)
(***************************************************************************)
EXTENDS WebhookDelivery, TLAPS

\* The attempts a row or a copy of it claims were made.
Earned(d, attempt) == attempt <= failures[d] + 1

\* True outcomes are inductive only with what the copies in the workers' hands
\* claim: the last of them to fail writes its own count over the others'.
Claims ==
  /\ \A d \in Deliveries : Earned(d, delivery[d].attempt)
  /\ \A w \in Workers : \A c \in listed[w] \cup sending[w] : Earned(c.id, c.row.attempt)

DeliveryInv == OutcomeIsTrue /\ Claims

\* No answer is taken back.
RowRemembers ==
  /\ acked \subseteq acked'
  /\ \A d \in Deliveries : failures[d] <= failures'[d]

-----------------------------------------------------------------------------
(* Types *)

\* A row that is due was not deleted: so a copy is one of a row.
Typed == DeliveryTypeOK /\ \A d \in due : delivery[d] # NoRow

LEMMA RowTypes ==
  ASSUME DeliveryAssumption, Typed
  PROVE  /\ \A d \in Deliveries :
               /\ delivery[d] \in Row \cup {NoRow}
               /\ delivery[d].attempt \in 0 .. MaxAttempts
               /\ delivery[d] # NoRow => delivery[d] \in Row
               /\ failures[d] \in 0 .. MaxCount
         /\ \A w \in Workers : \A c \in listed[w] \cup sending[w] :
               /\ c \in Copy /\ c.id \in Deliveries
               /\ c.row \in Row /\ c.row.attempt \in 1 .. MaxAttempts
  BY DEF DeliveryAssumption, Typed, DeliveryTypeOK, Row, NoRow, Copy

LEMMA TypeInit == DeliveryAssumption /\ DeliveryInit => Typed
  BY DEF DeliveryAssumption, DeliveryInit, DeliveryTypeOK, Typed

\* save() with the status and the attempt a send has come to.
LEMMA SavesType ==
  ASSUME Typed, NEW c \in Copy, NEW status \in {"success", "failed", "retrying"},
         NEW attempt \in 1 .. MaxAttempts, Saves(c, status, attempt)
  PROVE  /\ delivery' \in [Deliveries -> Row \cup {NoRow}]
         /\ \A d \in Deliveries : delivery'[d] = NoRow <=> delivery[d] = NoRow
  <1>1. c.id \in Deliveries /\ delivery[c.id] \in Row \cup {NoRow}
    BY DEF Typed, DeliveryTypeOK, Copy
  <1>2. /\ Saved(c, status, attempt) \in Row \cup {NoRow}
        /\ Saved(c, status, attempt) = NoRow <=> delivery[c.id] = NoRow
    BY <1>1 DEF Saved, Row, NoRow
  <1> QED
    BY <1>1, <1>2 DEF Saves, Typed, DeliveryTypeOK

LEMMA TypeOfHook ==
  ASSUME Typed,
         \/ \E h \in {"enabled", "disabled"} : Update(h)
         \/ Delete
         \/ \E d \in Deliveries : FallsDue(d)
  PROVE  Typed'
  BY DEF Typed, DeliveryTypeOK, Update, Delete, FallsDue, work, seen, bound, NoRow

LEMMA TypeOfStarts ==
  ASSUME DeliveryAssumption, Typed, NEW w \in Workers,
         \/ \E d \in Deliveries : Dispatch(w, d) \/ RetryByHand(w, d)
         \/ Lists(w) \/ StartsSlice(w) \/ Crashes(w)
  PROVE  Typed'
  <1>1. ASSUME NEW d \in Deliveries, Dispatch(w, d) PROVE Typed'
    <2>1. [status |-> "pending", attempt |-> 1] \in Row
      BY DEF Row, DeliveryAssumption
    <2>2. [id |-> d, row |-> [status |-> "pending", attempt |-> 1]] \in Copy
      BY <2>1 DEF Copy
    <2>3. [status |-> "pending", attempt |-> 1] # NoRow
      BY DEF NoRow
    <2> QED
      BY <1>1, <2>1, <2>2, <2>3 DEF Dispatch, Typed, DeliveryTypeOK, seen, bound
  <1>2. ASSUME NEW d \in Deliveries, RetryByHand(w, d) PROVE Typed'
    <2>1. [id |-> d, row |-> delivery[d]] \in Copy
      BY <1>2, RowTypes DEF RetryByHand, Copy
    <2> QED
      BY <1>2, <2>1 DEF RetryByHand, Typed, DeliveryTypeOK, rows, seen, DeliveryAssumption
  <1>3. CASE Lists(w)
    <2>1. \A d \in due : [id |-> d, row |-> delivery[d]] \in Copy
      BY RowTypes DEF Typed, DeliveryTypeOK, Copy
    <2> QED
      BY <1>3, <2>1 DEF Lists, Typed, DeliveryTypeOK, rows, seen, bound
  <1>4. CASE StartsSlice(w)
    BY <1>4 DEF StartsSlice, Typed, DeliveryTypeOK, rows, seen, bound
  <1>5. CASE Crashes(w)
    BY <1>5 DEF Crashes, Typed, DeliveryTypeOK, rows, seen, DeliveryAssumption
  <1> QED
    BY <1>1, <1>2, <1>3, <1>4, <1>5

LEMMA TypeOfSends ==
  ASSUME DeliveryAssumption, Typed, NEW w \in Workers, NEW c \in sending[w],
         Throws(w, c) \/ Succeeds(w, c) \/ Fails(w, c)
  PROVE  Typed'
  <1>1. /\ c \in Copy /\ c.id \in Deliveries /\ c.row.attempt \in 1 .. MaxAttempts
        /\ sending' \in [Workers -> SUBSET Copy]
    BY RowTypes DEF Throws, Succeeds, Fails, Done, Typed, DeliveryTypeOK
  <1>2. CASE Throws(w, c)
    BY <1>1, <1>2 DEF Throws, Typed, DeliveryTypeOK, rows, seen, bound
  <1>3. CASE Succeeds(w, c)
    <2>1. /\ delivery' \in [Deliveries -> Row \cup {NoRow}]
          /\ \A d \in Deliveries : delivery'[d] = NoRow <=> delivery[d] = NoRow
      BY <1>1, <1>3, SavesType DEF Succeeds
    <2> QED
      BY <1>1, <1>3, <2>1 DEF Succeeds, Typed, DeliveryTypeOK, bound
  <1>4. CASE Fails(w, c)
    <2>1. /\ delivery' \in [Deliveries -> Row \cup {NoRow}]
          /\ \A d \in Deliveries : delivery'[d] = NoRow <=> delivery[d] = NoRow
          /\ due' \subseteq due
      <3>1. CASE TriesAgain(c.row.attempt)
        <4>1. c.row.attempt + 1 \in 1 .. MaxAttempts
          BY <1>1, <3>1 DEF TriesAgain, DeliveryAssumption
        <4> QED
          BY <1>1, <1>4, <3>1, <4>1, SavesType DEF Fails
      <3>2. CASE ~TriesAgain(c.row.attempt)
        BY <1>1, <1>4, <3>2, SavesType DEF Fails
      <3> QED
        BY <3>1, <3>2
    <2>2. failures' \in [Deliveries -> 0 .. MaxCount]
      BY <1>1, <1>4 DEF Fails, Typed, DeliveryTypeOK, DeliveryAssumption
    <2> QED
      BY <1>1, <1>4, <2>1, <2>2 DEF Fails, Typed, DeliveryTypeOK, bound
  <1> QED
    BY <1>2, <1>3, <1>4

LEMMA TypeStep == DeliveryAssumption /\ Typed /\ [DeliveryNext]_deliveryVars => Typed'
  <1> SUFFICES ASSUME DeliveryAssumption, Typed, [DeliveryNext]_deliveryVars PROVE Typed'
    OBVIOUS
  <1>1. CASE UNCHANGED deliveryVars
    BY <1>1 DEF deliveryVars, rows, work, seen, bound, Typed, DeliveryTypeOK
  <1> QED
    BY <1>1, TypeOfHook, TypeOfStarts, TypeOfSends DEF DeliveryNext, SendStep

-----------------------------------------------------------------------------
(* Outcomes *)

LEMMA OutcomeInit == DeliveryAssumption /\ DeliveryInit => DeliveryInv
  BY DEF DeliveryAssumption, DeliveryInit, DeliveryInv, OutcomeIsTrue, Claims, Earned, NoRow

\* A step that writes no row but perhaps hands copies of rows to a worker.
LEMMA OutcomeKept ==
  ASSUME DeliveryAssumption, Typed, DeliveryInv, UNCHANGED <<delivery, seen>>,
         \A w \in Workers : \A c \in (listed[w] \cup sending[w])' :
            \/ c \in listed[w] \cup sending[w]
            \/ c.id \in Deliveries /\ c.row = delivery[c.id]
  PROVE  DeliveryInv'
  BY DEF DeliveryInv, OutcomeIsTrue, Claims, Earned, seen

LEMMA OutcomeOfStarts ==
  ASSUME DeliveryAssumption, Typed, DeliveryInv, NEW w \in Workers,
         \/ \E d \in Deliveries : Dispatch(w, d) \/ RetryByHand(w, d)
         \/ Lists(w) \/ StartsSlice(w) \/ Crashes(w)
  PROVE  DeliveryInv'
  <1>1. ASSUME NEW d \in Deliveries, Dispatch(w, d) PROVE DeliveryInv'
    <2> DEFINE new == [status |-> "pending", attempt |-> 1]
    <2>1. /\ delivery'[d] = new /\ \A x \in Deliveries \ {d} : delivery'[x] = delivery[x]
          /\ sending'[w] = {[id |-> d, row |-> new]} /\ failures[d] = 0
          /\ \A v \in Workers \ {w} : sending'[v] = sending[v]
          /\ UNCHANGED <<listed, acked, failures>>
      BY <1>1 DEF Dispatch, Typed, DeliveryTypeOK, seen
    <2>2. OutcomeIsTrue'
      BY <2>1 DEF DeliveryInv, OutcomeIsTrue
    <2>3. Claims'
      BY <2>1 DEF DeliveryInv, Claims, Earned
    <2> QED
      BY <2>2, <2>3 DEF DeliveryInv
  <1>2. ASSUME NEW d \in Deliveries, RetryByHand(w, d) PROVE DeliveryInv'
    <2>1. /\ sending'[w] = {[id |-> d, row |-> delivery[d]]}
          /\ \A v \in Workers \ {w} : sending'[v] = sending[v]
          /\ UNCHANGED <<listed, delivery, seen>>
      BY <1>2 DEF RetryByHand, Typed, DeliveryTypeOK, rows
    <2> QED
      BY <2>1, OutcomeKept
  <1>3. CASE Lists(w)
    <2>1. /\ \A c \in listed'[w] : c.id \in Deliveries /\ c.row = delivery[c.id]
          /\ \A v \in Workers \ {w} : listed'[v] = listed[v]
          /\ UNCHANGED <<sending, delivery, seen>>
      BY <1>3 DEF Lists, Typed, DeliveryTypeOK, rows
    <2> QED
      BY <2>1, OutcomeKept
  <1>4. CASE StartsSlice(w) \/ Crashes(w)
    <2>1. /\ UNCHANGED <<delivery, seen>>
          /\ \A v \in Workers : (listed[v] \cup sending[v])' \subseteq listed[v] \cup sending[v]
      BY <1>4 DEF StartsSlice, Crashes, Typed, DeliveryTypeOK, rows
    <2> QED
      BY <2>1, OutcomeKept
  <1> QED
    BY <1>1, <1>2, <1>3, <1>4

\* A send that ends with a row that is true, whatever it writes over.
LEMMA OutcomeSaved ==
  ASSUME DeliveryAssumption, Typed, DeliveryInv, RowRemembers,
         NEW w \in Workers, NEW c \in sending[w], Done(w, c), UNCHANGED listed,
         failures' \in [Deliveries -> 0 .. MaxCount],
         NEW status \in {"success", "failed", "retrying"},
         NEW attempt \in 1 .. MaxAttempts, Saves(c, status, attempt),
         attempt <= failures'[c.id] + 1,
         status = "success" => c.id \in acked',
         status = "failed" => failures'[c.id] >= MaxAttempts
  PROVE  DeliveryInv'
  <1>1. /\ c.id \in Deliveries
        /\ delivery'[c.id] = Saved(c, status, attempt)
        /\ \A d \in Deliveries \ {c.id} : delivery'[d] = delivery[d]
        /\ \A v \in Workers : (listed[v] \cup sending[v])' \subseteq listed[v] \cup sending[v]
    BY RowTypes DEF Saves, Done, Typed, DeliveryTypeOK
  <1>2. /\ delivery'[c.id].status \in {delivery[c.id].status, status}
        /\ delivery'[c.id].attempt \in {delivery[c.id].attempt, attempt}
    BY <1>1 DEF Saved, NoRow
  <1>3. \A d \in Deliveries : failures[d] \in Nat /\ failures'[d] \in Nat
    BY RowTypes DEF DeliveryAssumption
  <1>4. OutcomeIsTrue'
    BY <1>1, <1>2, <1>3 DEF DeliveryInv, OutcomeIsTrue, RowRemembers, DeliveryAssumption
  <1>5. Claims'
    <2>1. ASSUME NEW d \in Deliveries PROVE Earned(d, delivery[d].attempt)'
      BY <1>1, <1>2, <1>3, RowTypes DEF DeliveryInv, Claims, Earned, RowRemembers
    <2>2. ASSUME NEW v \in Workers, NEW x \in (listed[v] \cup sending[v])'
          PROVE  x.row.attempt <= failures'[x.id] + 1
      <3>1. x \in listed[v] \cup sending[v] /\ x.id \in Deliveries /\ x.row.attempt \in Nat
        BY <1>1, RowTypes
      <3> QED
        BY <1>3, <3>1 DEF DeliveryInv, Claims, Earned, RowRemembers
    <2> QED
      BY <2>1, <2>2 DEF Claims, Earned
  <1> QED
    BY <1>4, <1>5 DEF DeliveryInv

LEMMA OutcomeOfSends ==
  ASSUME DeliveryAssumption, Typed, DeliveryInv, NEW w \in Workers,
         NEW c \in sending[w], Throws(w, c) \/ Succeeds(w, c) \/ Fails(w, c)
  PROVE  DeliveryInv'
  <1>1. /\ c.id \in Deliveries /\ c.row.attempt \in 1 .. MaxAttempts
        /\ failures[c.id] \in 0 .. MaxCount /\ c.row.attempt <= failures[c.id] + 1
    BY RowTypes DEF DeliveryInv, Claims, Earned
  <1>2. CASE Throws(w, c)
    <2>1. /\ UNCHANGED <<delivery, seen>>
          /\ \A v \in Workers : (listed[v] \cup sending[v])' \subseteq listed[v] \cup sending[v]
      BY <1>2 DEF Throws, Done, Typed, DeliveryTypeOK, rows
    <2> QED
      BY <2>1, OutcomeKept
  <1>3. CASE Succeeds(w, c)
    <2>1. RowRemembers /\ failures' = failures
      BY <1>3, RowTypes DEF Succeeds, RowRemembers
    <2> QED
      BY <1>1, <1>3, <2>1, OutcomeSaved DEF Succeeds, Typed, DeliveryTypeOK
  <1>4. CASE Fails(w, c)
    <2>1. /\ failures' \in [Deliveries -> 0 .. MaxCount]
          /\ failures'[c.id] = IF failures[c.id] < MaxCount THEN failures[c.id] + 1
                               ELSE failures[c.id]
          /\ \A d \in Deliveries \ {c.id} : failures'[d] = failures[d]
      BY <1>1, <1>4 DEF Fails, Typed, DeliveryTypeOK, DeliveryAssumption
    <2>2. /\ c.row.attempt <= failures'[c.id] /\ failures'[c.id] \in Nat
          /\ MaxAttempts \in Nat
      BY <1>1, <2>1 DEF DeliveryAssumption
    <2>3. RowRemembers
      <3>1. failures[c.id] <= failures'[c.id]
        BY <1>1, <2>1 DEF DeliveryAssumption
      <3> QED
        BY <1>4, <2>1, <3>1, RowTypes DEF Fails, RowRemembers
    <2>4. Done(w, c) /\ UNCHANGED listed
      BY <1>4 DEF Fails
    <2>5. CASE TriesAgain(c.row.attempt)
      <3>1. c.row.attempt + 1 \in 1 .. MaxAttempts /\ c.row.attempt + 1 <= failures'[c.id] + 1
        BY <1>1, <2>2, <2>5 DEF TriesAgain
      <3>2. Saves(c, "retrying", c.row.attempt + 1)
        BY <1>4, <2>5 DEF Fails
      <3> QED
        BY <2>1, <2>3, <2>4, <3>1, <3>2, OutcomeSaved
    <2>6. CASE ~TriesAgain(c.row.attempt)
      <3>1. failures'[c.id] >= MaxAttempts /\ c.row.attempt <= failures'[c.id] + 1
        BY <1>1, <2>2, <2>6 DEF TriesAgain
      <3>2. Saves(c, "failed", c.row.attempt)
        BY <1>4, <2>6 DEF Fails
      <3> QED
        BY <1>1, <2>1, <2>3, <2>4, <3>1, <3>2, OutcomeSaved
    <2> QED
      BY <2>5, <2>6
  <1> QED
    BY <1>2, <1>3, <1>4

LEMMA OutcomeStep == DeliveryAssumption /\ Typed /\ DeliveryInv /\ [DeliveryNext]_deliveryVars => DeliveryInv'
  <1> SUFFICES ASSUME DeliveryAssumption, Typed, DeliveryInv, [DeliveryNext]_deliveryVars PROVE DeliveryInv'
    OBVIOUS
  <1>1. CASE UNCHANGED <<delivery, work, seen>>
    BY <1>1, OutcomeKept DEF work
  <1>2. CASE UNCHANGED deliveryVars \/ (\E h \in {"enabled", "disabled"} : Update(h))
             \/ (\E d \in Deliveries : FallsDue(d))
    BY <1>1, <1>2 DEF deliveryVars, rows, Update, FallsDue
  <1>3. CASE Delete
    <2>1. /\ \A d \in Deliveries : delivery'[d] = NoRow
          /\ UNCHANGED <<listed, sending, acked, failures>>
      BY <1>3 DEF Delete, work, seen
    <2> QED
      BY <2>1, RowTypes DEF DeliveryInv, OutcomeIsTrue, Claims, Earned, NoRow
  <1> QED
    BY <1>2, <1>3, OutcomeOfStarts, OutcomeOfSends DEF DeliveryNext, SendStep

\* Type correctness of the rows, the copies of them in the workers' hands and the counts.
THEOREM DeliveryTypes ==
  ASSUME DeliveryAssumption
  PROVE  DeliverySpec => []DeliveryTypeOK
  <1>1. DeliveryInit => Typed
    BY TypeInit
  <1>2. Typed /\ [DeliveryNext]_deliveryVars => Typed'
    BY TypeStep
  <1>3. Typed => DeliveryTypeOK
    BY DEF Typed
  <1> QED
    BY <1>1, <1>2, <1>3, PTL DEF DeliverySpec

\* A delivery says success only when the receiver has acknowledged it, and failed
\* only after the whole schedule, whichever workers hold old copies of its row.
THEOREM OutcomesAreTrue ==
  ASSUME DeliveryAssumption
  PROVE  DeliverySpec => []OutcomeIsTrue
  <1>1. DeliveryInit => Typed /\ DeliveryInv
    BY TypeInit, OutcomeInit
  <1>2. Typed /\ DeliveryInv /\ [DeliveryNext]_deliveryVars => (Typed /\ DeliveryInv)'
    BY TypeStep, OutcomeStep
  <1>3. Typed /\ DeliveryInv => OutcomeIsTrue
    BY DEF DeliveryInv
  <1> QED
    BY <1>1, <1>2, <1>3, PTL DEF DeliverySpec

=============================================================================
