------------------------ MODULE UsageMeteringProofs ------------------------
(***************************************************************************)
(* The type invariant of metered usage, what the audit rows are worth, and *)
(* that no use is forgotten or in two batches, for every number of         *)
(* servers, uses, minutes, workers, tries and faults.                      *)
(***************************************************************************)
EXTENDS UsageMetering, FiniteSetTheorems, TLAPS

-----------------------------------------------------------------------------
(* What the helpers that write a job return *)

LEMMA JobType ==
  ASSUME TypeOK, NEW B \in Batches
  PROVE  /\ job[B] \in Job
         /\ job[B].pc \in {"none", "queued"} \cup Active \cup Ended
         /\ job[B].minute \in Minutes
         /\ job[B].tries \in 0 .. MaxAttempts - 1
         /\ job[B].seen \in RowStatus
  BY DEF TypeOK, Job

LEMMA GotoType ==
  ASSUME TypeOK, NEW B \in Batches,
         NEW pc \in {"none", "queued"} \cup Active \cup Ended, Goto(B, pc)
  PROVE  job' \in [Batches -> Job]
  BY JobType DEF Goto, TypeOK, Job

LEMMA ThrowType ==
  ASSUME TypeOK, NEW B \in Batches, Throw(B)
  PROVE  job' \in [Batches -> Job]
  <1>1. CASE job[B].tries + 1 < MaxAttempts
    <2>1. job[B].tries + 1 \in 0 .. MaxAttempts - 1
      BY <1>1, JobType, UsageAssumption
    <2>2. [job[B] EXCEPT !.pc = "queued", !.tries = job[B].tries + 1, !.seen = "none"] \in Job
      BY <2>1, JobType DEF Job, RowStatus
    <2> QED
      BY <1>1, <2>2 DEF Throw, TypeOK
  <1>2. CASE ~(job[B].tries + 1 < MaxAttempts)
    <2>1. [job[B] EXCEPT !.pc = "exhausted", !.seen = "none"] \in Job
      BY JobType DEF Job, RowStatus, Active
    <2> QED
      BY <1>2, <2>1 DEF Throw, TypeOK
  <1> QED
    BY <1>1, <1>2

LEMMA FollowRowType ==
  ASSUME TypeOK, NEW B \in Batches, FollowRow(B)
  PROVE  job' \in [Batches -> Job]
  <1> DEFINE seen == row[job[B].minute].status
             pc   == CASE seen = "sent" -> "done"
                       [] seen = "none" -> "insert"
                       [] OTHER -> "call"
             keep == IF seen = "sent" THEN "none" ELSE seen
  <1>1. seen \in RowStatus
    BY JobType DEF TypeOK
  <1>2. pc \in Active \cup Ended /\ keep \in RowStatus
    BY <1>1 DEF Active, Ended, RowStatus
  <1>3. job' = [job EXCEPT ![B] = [job[B] EXCEPT !.pc = pc, !.seen = keep]]
    BY DEF FollowRow
  <1> HIDE DEF seen, pc, keep
  <1>4. [job[B] EXCEPT !.pc = pc, !.seen = keep] \in Job
    BY <1>2, JobType DEF Job
  <1> QED
    BY <1>3, <1>4 DEF TypeOK

LEMMA RowType ==
  ASSUME TypeOK, NEW m \in Minutes, NEW s \in RowStatus
  PROVE  [row EXCEPT ![m].status = s] \in [Minutes -> [status : RowStatus, of : SUBSET Uses]]
  BY DEF TypeOK

LEMMA FaultType ==
  ASSUME TypeOK, Fault
  PROVE  faults' \in 0 .. MaxFaults
  BY UsageAssumption DEF TypeOK, Fault

-----------------------------------------------------------------------------
(* Type correctness *)

LEMMA TypeInit == Init => TypeOK
  <1> SUFFICES ASSUME Init PROVE TypeOK
    OBVIOUS
  <1>1. NoJob \in Job /\ 0 \in Minutes
    BY UsageAssumption DEF NoJob, Job, Minutes, RowStatus
  <1> QED
    BY <1>1, UsageAssumption DEF Init, TypeOK, RowStatus, Uses, Batches

LEMMA TypeOfServers ==
  ASSUME TypeOK, NEW p \in Processes, Server(p)
  PROVE  TypeOK'
  <1>1. CASE Track(p)
    <2>1. used + 1 \in Uses /\ used' \in 0 .. MaxUses
      BY <1>1, UsageAssumption DEF Track, TypeOK, Uses
    <2> QED
      BY <1>1, <2>1 DEF Track, TypeOK, audit
  <1>2. CASE Flush(p)
    <2>1. bucket[p] \in Batches
      BY <1>2 DEF Flush, TypeOK, Batches
    <2> QED
      BY <1>2, <2>1 DEF Flush, TypeOK, audit
  <1>3. CASE ProcessDies(p)
    <2>1. UNION sending[p] \subseteq Uses
      BY DEF TypeOK, Batches
    <2>2. lost' \subseteq Uses
      BY <1>3, <2>1 DEF ProcessDies, TypeOK
    <2>3. faults' \in 0 .. MaxFaults
      BY <1>3, FaultType DEF ProcessDies
    <2> QED
      BY <1>3, <2>2, <2>3 DEF ProcessDies, TypeOK, audit
  <1>4. ASSUME NEW B \in Batches, Dispatch(p, B) PROVE TypeOK'
    <2>1. job' \in [Batches -> Job]
      BY <1>4, JobType DEF Dispatch, TypeOK, Job
    <2> QED
      BY <1>4, <2>1 DEF Dispatch, TypeOK, audit
  <1>5. ASSUME NEW B \in Batches, DispatchRefused(p, B) PROVE TypeOK'
    <2>1. faults' \in 0 .. MaxFaults
      BY <1>5, FaultType DEF DispatchRefused
    <2>2. lost' \subseteq Uses
      BY <1>5 DEF DispatchRefused, TypeOK, Batches
    <2> QED
      BY <1>5, <2>1, <2>2 DEF DispatchRefused, TypeOK, audit
  <1> QED
    BY <1>1, <1>2, <1>3, <1>4, <1>5 DEF Server

LEMMA TypeOfProgress ==
  ASSUME TypeOK, NEW B \in Batches, Progress(B)
  PROVE  TypeOK'
  <1> USE DEF memory, audit
  <1>1. CASE Start(B)
    <2>1. job' \in [Batches -> Job]
      <3>1. CASE Goto(B, "dropped")
        BY <3>1, GotoType DEF Ended
      <3>2. CASE Throw(B)
        BY <3>2, ThrowType
      <3>3. CASE job' = [job EXCEPT ![B] = [@ EXCEPT !.pc = "lookup", !.minute = minute]]
        <4>1. [job[B] EXCEPT !.pc = "lookup", !.minute = minute] \in Job
          BY JobType DEF Job, Active, TypeOK
        <4> QED
          BY <3>3, <4>1 DEF TypeOK
      <3> QED
        BY <1>1, <3>1, <3>2, <3>3 DEF Start
    <2> QED
      BY <1>1, <2>1 DEF Start, TypeOK
  <1>2. CASE Lookup(B) \/ InsertLoses(B)
    BY <1>2, FollowRowType DEF Lookup, InsertLoses, TypeOK
  <1>3. CASE Insert(B)
    <2>1. job[B].minute \in Minutes /\ order' \in Seq(Minutes)
      BY <1>3, JobType DEF Insert, TypeOK
    <2>2. row' \in [Minutes -> [status : RowStatus, of : SUBSET Uses]]
      BY <1>3 DEF Insert, TypeOK, RowStatus, Batches
    <2>3. [job[B] EXCEPT !.pc = "call", !.seen = "pending"] \in Job
      BY JobType DEF Job, Active, RowStatus
    <2>4. job' \in [Batches -> Job]
      BY <1>3, <2>3 DEF Insert, TypeOK
    <2> QED
      BY <1>3, <2>1, <2>2, <2>4 DEF Insert, TypeOK
  <1>4. CASE Counted(B)
    <2>1. job' \in [Batches -> Job]
      BY <1>4, GotoType DEF Counted, Active
    <2> QED
      BY <1>4, <2>1 DEF Counted, TypeOK, Batches
  <1>5. CASE Repeated(B)
    <2>1. job' \in [Batches -> Job]
      BY <1>5, GotoType DEF Repeated, Active
    <2> QED
      BY <1>5, <2>1 DEF Repeated, TypeOK
  <1>6. CASE SaveSent(B)
    <2>1. [job[B] EXCEPT !.pc = "done", !.seen = "none"] \in Job
      BY JobType DEF Job, Ended, RowStatus
    <2>2. job' \in [Batches -> Job]
      BY <1>6, <2>1 DEF SaveSent, TypeOK
    <2>3. row' \in [Minutes -> [status : RowStatus, of : SUBSET Uses]]
      BY <1>6, JobType, RowType DEF SaveSent, RowStatus
    <2> QED
      BY <1>6, <2>2, <2>3 DEF SaveSent, TypeOK
  <1>7. CASE SaveFailed(B)
    <2>1. row' \in [Minutes -> [status : RowStatus, of : SUBSET Uses]]
      BY <1>7, JobType, RowType DEF SaveFailed, RowStatus, TypeOK
    <2>2. job' \in [Batches -> Job]
      BY <1>7, ThrowType DEF SaveFailed
    <2> QED
      BY <1>7, <2>1, <2>2 DEF SaveFailed, TypeOK
  <1>8. CASE Exhausted(B)
    <2>1. job' \in [Batches -> Job]
      <3>1. CASE Goto(B, "dead")
        BY <3>1, GotoType DEF Ended
      <3>2. ASSUME NEW i \in DOMAIN order,
                   job' = [job EXCEPT ![B] = [@ EXCEPT !.pc = "giveUp", !.minute = order[i]]]
            PROVE  job' \in [Batches -> Job]
        <4>1. order[i] \in Minutes
          BY DEF TypeOK
        <4>2. [job[B] EXCEPT !.pc = "giveUp", !.minute = order[i]] \in Job
          BY <4>1, JobType DEF Job, Active
        <4> QED
          BY <3>2, <4>2 DEF TypeOK
      <3> QED
        BY <1>8, <3>1, <3>2 DEF Exhausted
    <2> QED
      BY <1>8, <2>1 DEF Exhausted, TypeOK
  <1>9. CASE GiveUp(B)
    <2>1. row' \in [Minutes -> [status : RowStatus, of : SUBSET Uses]]
      BY <1>9, JobType, RowType DEF GiveUp, RowStatus
    <2>2. job' \in [Batches -> Job]
      BY <1>9, GotoType DEF GiveUp, Ended
    <2> QED
      BY <1>9, <2>1, <2>2 DEF GiveUp, TypeOK
  <1> QED
    BY <1>1, <1>2, <1>3, <1>4, <1>5, <1>6, <1>7, <1>8, <1>9 DEF Progress

LEMMA TypeOfTrouble ==
  ASSUME TypeOK, NEW B \in Batches, Trouble(B)
  PROVE  TypeOK'
  <1> USE DEF memory, audit
  <1>1. faults' \in 0 .. MaxFaults
    BY FaultType
    DEF Trouble, CallFails, SaveSentFails, SaveFailedFails, HookFails, DatabaseFails, Crash
  <1>2. CASE CallFails(B)
    <2>1. job' \in [Batches -> Job]
      BY <1>2, GotoType DEF CallFails, Active
    <2>2. meter' \in [Minutes -> SUBSET Uses]
      BY <1>2 DEF CallFails, TypeOK, Batches
    <2> QED
      BY <1>1, <1>2, <2>1, <2>2 DEF CallFails, TypeOK
  <1>3. CASE SaveSentFails(B) \/ HookFails(B)
    <2>1. job' \in [Batches -> Job]
      BY <1>3, GotoType DEF SaveSentFails, HookFails, Active, Ended
    <2> QED
      BY <1>1, <1>3, <2>1 DEF SaveSentFails, HookFails, TypeOK
  <1>4. CASE SaveFailedFails(B) \/ DatabaseFails(B)
    <2>1. job' \in [Batches -> Job]
      BY <1>4, ThrowType DEF SaveFailedFails, DatabaseFails
    <2> QED
      BY <1>1, <1>4, <2>1 DEF SaveFailedFails, DatabaseFails, TypeOK
  <1>5. CASE Crash(B)
    <2>1. [job[B] EXCEPT !.pc = "queued", !.seen = "none"] \in Job
      BY JobType DEF Job, RowStatus
    <2> QED
      BY <1>1, <1>5, <2>1 DEF Crash, TypeOK
  <1> QED
    BY <1>2, <1>3, <1>4, <1>5 DEF Trouble

LEMMA TypeStep == TypeOK /\ [Next]_vars => TypeOK'
  <1> SUFFICES ASSUME TypeOK, [Next]_vars PROVE TypeOK'
    OBVIOUS
  <1>1. CASE NextMinute
    BY <1>1, UsageAssumption DEF NextMinute, TypeOK, Minutes, memory, audit
  <1>2. CASE Unlink \/ Destroy
    BY <1>2 DEF Unlink, Destroy, TypeOK, memory, audit
  <1>3. CASE UNCHANGED vars
    BY <1>3 DEF vars, TypeOK, memory, audit
  <1> QED
    BY <1>1, <1>2, <1>3, TypeOfServers, TypeOfProgress, TypeOfTrouble DEF Next

\* Jobs, rows, buckets and Stripe's counts keep their types, for every number
\* of servers, uses, minutes, workers, tries and faults.
THEOREM MeteringTypes == Spec => []TypeOK
  BY TypeInit, TypeStep, PTL DEF Spec

-----------------------------------------------------------------------------
(* The audit rows *)

\* What a job relies on: the row it is going to write exists, and Stripe has
\* counted under its key once it says so.
JobIsSound(B) ==
  /\ job[B].pc \in {"call", "saveSent", "saveFailed", "giveUp"}
       => row[job[B].minute].status # "none"
  /\ job[B].pc \in {"saveSent", "done"} => meter[job[B].minute] # {}

\* The two promises are inductive only with what every job relies on.
AuditTrail ==
  /\ CountedIsAudited
  /\ \A m \in Minutes : row[m].status = "sent" => meter[m] # {}
  /\ \A B \in Batches : JobIsSound(B)

\* A step that deletes no row, takes no count back, counts only where there is
\* a row, and marks a row sent only where Stripe has counted.
KeepsAudit ==
  \A m \in Minutes :
    /\ row[m].status # "none" => row'[m].status # "none"
    /\ meter[m] # {} => meter'[m] # {}
    /\ meter'[m] # {} => meter[m] # {} \/ row[m].status # "none"
    /\ row'[m].status = "sent" => row[m].status = "sent" \/ meter[m] # {}

LEMMA TrailKept ==
  ASSUME TypeOK, AuditTrail, KeepsAudit,
         NEW B \in Batches, JobIsSound(B)',
         \A C \in Batches \ {B} : job'[C] = job[C]
  PROVE  AuditTrail'
  <1>1. CountedIsAudited'
    BY DEF AuditTrail, CountedIsAudited, KeepsAudit
  <1>2. (\A m \in Minutes : row[m].status = "sent" => meter[m] # {})'
    BY DEF AuditTrail, KeepsAudit
  <1>3. ASSUME NEW C \in Batches, C # B PROVE JobIsSound(C)'
    <2>1. job'[C] = job[C] /\ job[C].minute \in Minutes /\ JobIsSound(C)
      BY <1>3, JobType DEF AuditTrail
    <2> QED
      BY <2>1 DEF JobIsSound, KeepsAudit
  <1> QED
    BY <1>1, <1>2, <1>3 DEF AuditTrail

LEMMA AuditUntouched ==
  ASSUME UNCHANGED <<row, meter>>
  PROVE  KeepsAudit
  BY DEF KeepsAudit

\* A step to `pc' that leaves the minute of the job alone.
LEMMA GotoIs ==
  ASSUME TypeOK, NEW B \in Batches, NEW pc, Goto(B, pc)
  PROVE  /\ job'[B].pc = pc /\ job'[B].minute = job[B].minute
         /\ \A C \in Batches \ {B} : job'[C] = job[C]
  BY JobType DEF Goto, TypeOK, Job

LEMMA ThrowIs ==
  ASSUME TypeOK, NEW B \in Batches, Throw(B)
  PROVE  /\ job'[B].pc \in {"queued", "exhausted"}
         /\ \A C \in Batches \ {B} : job'[C] = job[C]
  BY JobType DEF Throw, TypeOK, Job

LEMMA ThrowIsSound ==
  ASSUME TypeOK, NEW B \in Batches, Throw(B)
  PROVE  JobIsSound(B)'
  BY ThrowIs DEF JobIsSound

LEMMA FollowRowIs ==
  ASSUME TypeOK, AuditTrail, NEW B \in Batches, FollowRow(B), UNCHANGED <<row, meter>>
  PROVE  AuditTrail'
  <1> DEFINE seen == row[job[B].minute].status
             pc   == CASE seen = "sent" -> "done"
                       [] seen = "none" -> "insert"
                       [] OTHER -> "call"
  <1>1. /\ job'[B].pc = pc /\ job'[B].minute = job[B].minute
        /\ \A C \in Batches \ {B} : job'[C] = job[C]
    BY JobType DEF FollowRow, TypeOK, Job
  <1>2. /\ seen = "sent" => pc = "done"
        /\ seen = "none" => pc = "insert"
        /\ seen \notin {"sent", "none"} => pc = "call"
    OBVIOUS
  <1>3. JobIsSound(B)'
    BY <1>1, <1>2, JobType DEF JobIsSound, AuditTrail
  <1> QED
    BY <1>1, <1>3, AuditUntouched, TrailKept

LEMMA TrailInit == Init => AuditTrail
  BY UsageAssumption DEF Init, AuditTrail, CountedIsAudited, JobIsSound, NoJob

LEMMA TrailOfServers ==
  ASSUME TypeOK, AuditTrail, NEW p \in Processes, Server(p)
  PROVE  AuditTrail'
  <1>1. CASE Track(p) \/ Flush(p) \/ ProcessDies(p) \/ \E B \in Batches : DispatchRefused(p, B)
    BY <1>1 DEF Track, Flush, ProcessDies, DispatchRefused, audit,
                AuditTrail, CountedIsAudited, JobIsSound
  <1>2. ASSUME NEW B \in Batches, Dispatch(p, B) PROVE AuditTrail'
    <2>1. job'[B].pc = "queued" /\ \A C \in Batches \ {B} : job'[C] = job[C]
      BY <1>2, JobType DEF Dispatch, TypeOK, Job
    <2> QED
      BY <1>2, <2>1, AuditUntouched, TrailKept DEF Dispatch, audit, JobIsSound
  <1> QED
    BY <1>1, <1>2 DEF Server

LEMMA TrailOfProgress ==
  ASSUME TypeOK, AuditTrail, NEW B \in Batches, Progress(B)
  PROVE  AuditTrail'
  <1> USE DEF audit, At
  <1>1. CASE Start(B)
    <2>1. KeepsAudit
      BY <1>1, AuditUntouched DEF Start
    <2>2. CASE Goto(B, "dropped")
      BY <2>1, <2>2, GotoIs, TrailKept DEF JobIsSound
    <2>3. CASE Throw(B)
      BY <2>1, <2>3, ThrowIs, ThrowIsSound, TrailKept
    <2>4. CASE job' = [job EXCEPT ![B] = [@ EXCEPT !.pc = "lookup", !.minute = minute]]
      <3>1. job'[B].pc = "lookup" /\ \A C \in Batches \ {B} : job'[C] = job[C]
        BY <2>4, JobType DEF TypeOK, Job
      <3> QED
        BY <2>1, <3>1, TrailKept DEF JobIsSound
    <2> QED
      BY <1>1, <2>2, <2>3, <2>4 DEF Start
  <1>2. CASE Lookup(B) \/ InsertLoses(B)
    BY <1>2, FollowRowIs DEF Lookup, InsertLoses
  <1>3. CASE Insert(B)
    <2>1. job[B].minute \in Minutes /\ row[job[B].minute].status = "none"
      BY <1>3, JobType DEF Insert
    <2>2. row'[job[B].minute].status = "pending"
      BY <1>3, <2>1 DEF Insert, TypeOK
    <2>3. \A m \in Minutes \ {job[B].minute} : row'[m] = row[m]
      BY <1>3, <2>1 DEF Insert, TypeOK
    <2>4. KeepsAudit
      BY <1>3, <2>2, <2>3 DEF Insert, KeepsAudit
    <2>5. /\ job'[B].pc = "call" /\ job'[B].minute = job[B].minute
          /\ \A C \in Batches \ {B} : job'[C] = job[C]
      BY <1>3, JobType DEF Insert, TypeOK, Job
    <2> QED
      BY <2>2, <2>4, <2>5, TrailKept DEF JobIsSound
  <1>4. CASE Counted(B)
    <2>1. job[B].minute \in Minutes /\ row[job[B].minute].status # "none"
      BY <1>4, JobType DEF Counted, AuditTrail, JobIsSound
    <2>2. meter'[job[B].minute] = B /\ B # {}
      BY <1>4, <2>1 DEF Counted, TypeOK, Batches
    <2>3. \A m \in Minutes \ {job[B].minute} : meter'[m] = meter[m]
      BY <1>4, <2>1 DEF Counted, TypeOK
    <2>4. KeepsAudit
      BY <1>4, <2>1, <2>2, <2>3 DEF Counted, KeepsAudit
    <2>5. JobIsSound(B)'
      BY <1>4, <2>1, <2>2, GotoIs DEF Counted, JobIsSound
    <2> QED
      BY <1>4, <2>4, <2>5, GotoIs, TrailKept DEF Counted
  <1>5. CASE Repeated(B)
    <2>1. JobIsSound(B)'
      BY <1>5, GotoIs DEF Repeated, AuditTrail, JobIsSound
    <2> QED
      BY <1>5, <2>1, GotoIs, AuditUntouched, TrailKept DEF Repeated
  <1>6. CASE SaveSent(B)
    <2>1. job[B].minute \in Minutes /\ meter[job[B].minute] # {}
      BY <1>6, JobType DEF SaveSent, AuditTrail, JobIsSound
    <2>2. \A m \in Minutes : row'[m].status =
            IF m = job[B].minute THEN "sent" ELSE row[m].status
      BY <1>6, <2>1 DEF SaveSent, TypeOK
    <2>3. KeepsAudit
      BY <1>6, <2>1, <2>2 DEF SaveSent, KeepsAudit
    <2>4. /\ job'[B].pc = "done" /\ job'[B].minute = job[B].minute
          /\ \A C \in Batches \ {B} : job'[C] = job[C]
      BY <1>6, JobType DEF SaveSent, TypeOK, Job
    <2> QED
      BY <1>6, <2>1, <2>3, <2>4, TrailKept DEF SaveSent, JobIsSound
  <1>7. CASE SaveFailed(B)
    <2>1. job[B].minute \in Minutes
      BY JobType
    <2>2. \A m \in Minutes : row'[m].status \in {"failed", row[m].status}
      BY <1>7, <2>1 DEF SaveFailed, TypeOK
    <2>3. KeepsAudit
      BY <1>7, <2>2 DEF SaveFailed, KeepsAudit
    <2> QED
      BY <1>7, <2>3, ThrowIs, ThrowIsSound, TrailKept DEF SaveFailed
  <1>8. CASE Exhausted(B)
    <2>1. KeepsAudit
      BY <1>8, AuditUntouched DEF Exhausted
    <2>2. CASE Goto(B, "dead")
      BY <2>1, <2>2, GotoIs, TrailKept DEF JobIsSound
    <2>3. ASSUME NEW i \in DOMAIN order, row[order[i]].status = "pending",
                 job' = [job EXCEPT ![B] = [@ EXCEPT !.pc = "giveUp", !.minute = order[i]]]
          PROVE  AuditTrail'
      <3>1. /\ job'[B].pc = "giveUp" /\ job'[B].minute = order[i]
            /\ \A C \in Batches \ {B} : job'[C] = job[C]
        BY <2>3, JobType DEF TypeOK, Job
      <3>2. UNCHANGED <<row, meter>>
        BY <1>8 DEF Exhausted
      <3> QED
        BY <2>1, <2>3, <3>1, <3>2, TrailKept DEF JobIsSound
    <2> QED
      BY <1>8, <2>2, <2>3 DEF Exhausted
  <1>9. CASE GiveUp(B)
    <2>1. job[B].minute \in Minutes
      BY JobType
    <2>2. \A m \in Minutes : row'[m].status \in {"failed", row[m].status}
      BY <1>9, <2>1 DEF GiveUp, TypeOK
    <2>3. KeepsAudit
      BY <1>9, <2>2 DEF GiveUp, KeepsAudit
    <2> QED
      BY <1>9, <2>3, GotoIs, TrailKept DEF GiveUp, JobIsSound
  <1> QED
    BY <1>1, <1>2, <1>3, <1>4, <1>5, <1>6, <1>7, <1>8, <1>9 DEF Progress

LEMMA TrailOfTrouble ==
  ASSUME TypeOK, AuditTrail, NEW B \in Batches, Trouble(B)
  PROVE  AuditTrail'
  <1> USE DEF audit, At
  <1>1. CASE CallFails(B)
    <2>1. job[B].minute \in Minutes /\ row[job[B].minute].status # "none"
      BY <1>1, JobType DEF CallFails, AuditTrail, JobIsSound
    <2>2. \A m \in Minutes : meter'[m] = meter[m] \/ (m = job[B].minute /\ meter'[m] = B)
      <3>1. CASE UNCHANGED meter
        BY <3>1
      <3>2. CASE meter' = [meter EXCEPT ![job[B].minute] = B]
        BY <2>1, <3>2 DEF TypeOK
      <3> QED
        BY <1>1, <3>1, <3>2 DEF CallFails
    <2>3. KeepsAudit
      BY <1>1, <2>1, <2>2 DEF CallFails, KeepsAudit, Batches
    <2>4. JobIsSound(B)'
      BY <1>1, <2>1, GotoIs DEF CallFails, JobIsSound
    <2> QED
      BY <1>1, <2>3, <2>4, GotoIs, TrailKept DEF CallFails
  <1>2. CASE SaveSentFails(B)
    <2>1. JobIsSound(B)'
      BY <1>2, GotoIs DEF SaveSentFails, AuditTrail, JobIsSound
    <2> QED
      BY <1>2, <2>1, GotoIs, AuditUntouched, TrailKept DEF SaveSentFails
  <1>3. CASE HookFails(B)
    BY <1>3, GotoIs, AuditUntouched, TrailKept DEF HookFails, JobIsSound
  <1>4. CASE SaveFailedFails(B) \/ DatabaseFails(B)
    BY <1>4, ThrowIs, ThrowIsSound, AuditUntouched, TrailKept
    DEF SaveFailedFails, DatabaseFails
  <1>5. CASE Crash(B)
    <2>1. job'[B].pc = "queued" /\ \A C \in Batches \ {B} : job'[C] = job[C]
      BY <1>5, JobType DEF Crash, TypeOK, Job
    <2> QED
      BY <1>5, <2>1, AuditUntouched, TrailKept DEF Crash, JobIsSound
  <1> QED
    BY <1>1, <1>2, <1>3, <1>4, <1>5 DEF Trouble

LEMMA TrailStep == TypeOK /\ AuditTrail /\ [Next]_vars => AuditTrail'
  <1> SUFFICES ASSUME TypeOK, AuditTrail, [Next]_vars PROVE AuditTrail'
    OBVIOUS
  <1>1. CASE NextMinute \/ Unlink \/ Destroy \/ UNCHANGED vars
    BY <1>1 DEF NextMinute, Unlink, Destroy, vars, audit,
                AuditTrail, CountedIsAudited, JobIsSound
  <1> QED
    BY <1>1, TrailOfServers, TrailOfProgress, TrailOfTrouble DEF Next

\* Stripe never counts a batch that the audit table does not show: the row is
\* there before the call, whichever workers die and whichever inserts race.
THEOREM NothingCountedUnaudited == Spec => []CountedIsAudited
  <1>1. AuditTrail => CountedIsAudited
    BY DEF AuditTrail
  <1> QED
    BY <1>1, TypeInit, TypeStep, TrailInit, TrailStep, PTL DEF Spec

\* A row says sent, and a job ends well, only when Stripe has counted a batch
\* under the key, whichever saves fail and whichever jobs share the row.
THEOREM NothingSentUncounted == Spec => []SentIsCounted
  <1>1. AuditTrail => SentIsCounted
    BY DEF AuditTrail, SentIsCounted, JobIsSound, At
  <1> QED
    BY <1>1, TypeInit, TypeStep, TrailInit, TrailStep, PTL DEF Spec

-----------------------------------------------------------------------------
(* Where the uses are *)

NoBucket(u)  == \A p \in Processes : u \notin bucket[p]
NoSending(u) == \A p \in Processes : \A B \in sending[p] : u \notin B
NoJobOf(u)   == \A B \in Batches : u \in B => job[B].pc = "none"
Nowhere(u)   == NoBucket(u) /\ NoSending(u) /\ NoJobOf(u) /\ u \notin lost

InBucket(u, p) ==
  /\ u \in bucket[p] /\ \A q \in Processes \ {p} : u \notin bucket[q]
  /\ NoSending(u) /\ NoJobOf(u) /\ u \notin lost
InSending(u, p, B) ==
  /\ B \in sending[p] /\ u \in B
  /\ \A q \in Processes : \A C \in sending[q] : u \in C => q = p /\ C = B
  /\ NoBucket(u) /\ NoJobOf(u) /\ u \notin lost
InJob(u, B) ==
  /\ u \in B /\ job[B].pc # "none"
  /\ \A C \in Batches \ {B} : u \in C => job[C].pc = "none"
  /\ NoBucket(u) /\ NoSending(u) /\ u \notin lost
IsLost(u) == NoBucket(u) /\ NoSending(u) /\ NoJobOf(u) /\ u \in lost

\* One place and no other, said without counting.
IsHeld(u) ==
  \/ \E p \in Processes : InBucket(u, p)
  \/ \E p \in Processes, B \in Batches : InSending(u, p, B)
  \/ \E B \in Batches : InJob(u, B)
  \/ IsLost(u)

\* A use that is still to come must be nowhere: Track puts it into a bucket.
Handed == \A u \in Uses : IF u <= used THEN IsHeld(u) ELSE Nowhere(u)

LEMMA HeldOnce ==
  ASSUME TypeOK, NEW u \in Uses, IsHeld(u)
  PROVE  Cardinality(Places(u)) = 1
  <1>1. ASSUME NEW p \in Processes, InBucket(u, p) PROVE Places(u) = {<<"bucket", p>>}
    BY <1>1 DEF Places, InBucket, NoSending, NoJobOf, At
  <1>2. ASSUME NEW p \in Processes, NEW B \in Batches, InSending(u, p, B)
        PROVE  Places(u) = {<<"sending", <<p, B>>>>}
    <2>1. {y \in Processes \X Batches : y[2] \in sending[y[1]] /\ u \in y[2]} = {<<p, B>>}
      BY <1>2 DEF InSending
    <2>2. {q \in Processes : u \in bucket[q]} = {} /\ {u} \cap lost = {}
          /\ {C \in Batches : u \in C /\ ~At(C, "none")} = {}
      BY <1>2 DEF InSending, NoBucket, NoJobOf, At
    <2> QED
      BY <2>1, <2>2 DEF Places
  <1>3. ASSUME NEW B \in Batches, InJob(u, B) PROVE Places(u) = {<<"job", B>>}
    BY <1>3 DEF Places, InJob, NoBucket, NoSending, At
  <1>4. CASE IsLost(u)
    <2>1. Places(u) = {<<"lost">>}
      BY <1>4 DEF Places, IsLost, NoBucket, NoSending, NoJobOf, At
    <2> QED
      BY <2>1, FS_Singleton
  <1> QED
    BY <1>1, <1>2, <1>3, <1>4, FS_Singleton DEF IsHeld

LEMMA HandedInit == Init => Handed
  BY DEF Init, Handed, Nowhere, NoBucket, NoSending, NoJobOf, NoJob, Uses, Batches

LEMMA HandedByTrack ==
  ASSUME TypeOK, Handed, NEW p \in Processes, Track(p)
  PROVE  Handed'
  <1> SUFFICES ASSUME NEW u \in Uses
               PROVE  IF u <= used' THEN IsHeld(u)' ELSE Nowhere(u)'
    BY DEF Handed
  <1>1. CASE u = used + 1
    <2>1. Nowhere(u) /\ used' = used + 1
      BY <1>1 DEF Handed, Track, TypeOK, Uses
    <2>2. InBucket(u, p)'
      BY <1>1, <2>1
      DEF Track, TypeOK, Nowhere, NoBucket, NoSending, NoJobOf, InBucket
    <2> QED
      BY <1>1, <2>1, <2>2 DEF IsHeld
  <1>2. CASE u # used + 1
    <2>1. /\ \A q \in Processes : u \in bucket'[q] <=> u \in bucket[q]
          /\ UNCHANGED <<sending, job, lost>>
          /\ u <= used' <=> u <= used
      BY <1>2 DEF Track, TypeOK, Uses
    <2> QED
      BY <2>1 DEF Handed, IsHeld, Nowhere, InBucket, InSending, InJob, IsLost,
                  NoBucket, NoSending, NoJobOf
  <1> QED
    BY <1>1, <1>2

LEMMA HandedByFlush ==
  ASSUME TypeOK, Handed, NEW p \in Processes, Flush(p)
  PROVE  Handed'
  <1> SUFFICES ASSUME NEW u \in Uses
               PROVE  IF u <= used' THEN IsHeld(u)' ELSE Nowhere(u)'
    BY DEF Handed
  <1>1. /\ bucket[p] \in Batches
        /\ bucket'[p] = {} /\ \A q \in Processes \ {p} : bucket'[q] = bucket[q]
        /\ sending'[p] = sending[p] \cup {bucket[p]}
        /\ \A q \in Processes \ {p} : sending'[q] = sending[q]
        /\ UNCHANGED <<used, job, lost>>
    BY DEF Flush, TypeOK, Batches
  <1>2. CASE u \in bucket[p]
    <2> PICK B \in Batches : B = bucket[p]
      BY <1>1
    <2>1. IsHeld(u) /\ u <= used
      BY <1>2 DEF Handed, Nowhere, NoBucket
    <2>2. InBucket(u, p)
      BY <1>1, <1>2, <2>1 DEF IsHeld, InBucket, InSending, InJob, IsLost, NoBucket
    <2>3. InSending(u, p, B)'
      BY <1>1, <1>2, <2>2 DEF InBucket, InSending, NoBucket, NoSending, NoJobOf
    <2> QED
      BY <1>1, <2>1, <2>3 DEF IsHeld
  <1>3. CASE u \notin bucket[p]
    <2>1. /\ \A q \in Processes : u \in bucket'[q] <=> u \in bucket[q]
          /\ \A q \in Processes, C \in Batches :
               u \in C => (C \in sending'[q] <=> C \in sending[q])
          /\ \A q \in Processes : sending[q] \subseteq Batches /\ sending'[q] \subseteq Batches
      BY <1>1, <1>3 DEF TypeOK
    <2> QED
      BY <1>1, <2>1 DEF Handed, IsHeld, Nowhere, InBucket, InSending, InJob, IsLost,
                        NoBucket, NoSending, NoJobOf
  <1> QED
    BY <1>2, <1>3

LEMMA HandedByDispatch ==
  ASSUME TypeOK, Handed, NEW p \in Processes, NEW B \in Batches, Dispatch(p, B)
  PROVE  Handed'
  <1> SUFFICES ASSUME NEW u \in Uses
               PROVE  IF u <= used' THEN IsHeld(u)' ELSE Nowhere(u)'
    BY DEF Handed
  <1>1. /\ B \in sending[p] /\ sending'[p] = sending[p] \ {B}
        /\ \A q \in Processes \ {p} : sending'[q] = sending[q]
        /\ job'[B].pc = "queued" /\ \A C \in Batches \ {B} : job'[C] = job[C]
        /\ UNCHANGED <<used, bucket, lost>>
    BY JobType DEF Dispatch, TypeOK, Job
  <1>2. CASE u \in B
    <2>1. IsHeld(u) /\ u <= used
      BY <1>1, <1>2 DEF Handed, Nowhere, NoSending
    <2>2. InSending(u, p, B)
      BY <1>1, <1>2, <2>1 DEF IsHeld, InBucket, InSending, InJob, IsLost, NoSending
    <2>3. InJob(u, B)'
      BY <1>1, <1>2, <2>2 DEF InSending, InJob, NoBucket, NoSending, NoJobOf
    <2> QED
      BY <1>1, <2>1, <2>3 DEF IsHeld
  <1>3. CASE u \notin B
    <2>1. /\ \A q \in Processes, C \in Batches :
               u \in C => (C \in sending'[q] <=> C \in sending[q])
          /\ \A q \in Processes : sending[q] \subseteq Batches /\ sending'[q] \subseteq Batches
          /\ \A C \in Batches : u \in C => job'[C] = job[C]
      BY <1>1, <1>3 DEF TypeOK
    <2> QED
      BY <1>1, <2>1 DEF Handed, IsHeld, Nowhere, InBucket, InSending, InJob, IsLost,
                        NoBucket, NoSending, NoJobOf
  <1> QED
    BY <1>2, <1>3

LEMMA HandedByRefusal ==
  ASSUME TypeOK, Handed, NEW p \in Processes, NEW B \in Batches, DispatchRefused(p, B)
  PROVE  Handed'
  <1> SUFFICES ASSUME NEW u \in Uses
               PROVE  IF u <= used' THEN IsHeld(u)' ELSE Nowhere(u)'
    BY DEF Handed
  <1>1. /\ B \in sending[p] /\ sending'[p] = sending[p] \ {B}
        /\ \A q \in Processes \ {p} : sending'[q] = sending[q]
        /\ lost' = lost \cup B
        /\ UNCHANGED <<used, bucket, job>>
    BY DEF DispatchRefused, TypeOK
  <1>2. CASE u \in B
    <2>1. IsHeld(u) /\ u <= used
      BY <1>1, <1>2 DEF Handed, Nowhere, NoSending
    <2>2. InSending(u, p, B)
      BY <1>1, <1>2, <2>1 DEF IsHeld, InBucket, InSending, InJob, IsLost, NoSending
    <2>3. IsLost(u)'
      BY <1>1, <1>2, <2>2 DEF InSending, IsLost, NoBucket, NoSending, NoJobOf
    <2> QED
      BY <1>1, <2>1, <2>3 DEF IsHeld
  <1>3. CASE u \notin B
    <2>1. /\ \A q \in Processes, C \in Batches :
               u \in C => (C \in sending'[q] <=> C \in sending[q])
          /\ \A q \in Processes : sending[q] \subseteq Batches /\ sending'[q] \subseteq Batches
          /\ u \in lost' <=> u \in lost
      BY <1>1, <1>3 DEF TypeOK
    <2> QED
      BY <1>1, <2>1 DEF Handed, IsHeld, Nowhere, InBucket, InSending, InJob, IsLost,
                        NoBucket, NoSending, NoJobOf
  <1> QED
    BY <1>2, <1>3

LEMMA HandedByDeath ==
  ASSUME TypeOK, Handed, NEW p \in Processes, ProcessDies(p)
  PROVE  Handed'
  <1> SUFFICES ASSUME NEW u \in Uses
               PROVE  IF u <= used' THEN IsHeld(u)' ELSE Nowhere(u)'
    BY DEF Handed
  <1>1. /\ bucket'[p] = {} /\ \A q \in Processes \ {p} : bucket'[q] = bucket[q]
        /\ sending'[p] = {} /\ \A q \in Processes \ {p} : sending'[q] = sending[q]
        /\ lost' = lost \cup bucket[p] \cup UNION sending[p]
        /\ UNCHANGED <<used, job>>
        /\ \A q \in Processes : sending[q] \subseteq Batches
    BY DEF ProcessDies, TypeOK
  <1>2. CASE u \in bucket[p]
    <2>1. IsHeld(u) /\ u <= used
      BY <1>2 DEF Handed, Nowhere, NoBucket
    <2>2. InBucket(u, p)
      BY <1>2, <2>1 DEF IsHeld, InBucket, InSending, InJob, IsLost, NoBucket
    <2>3. IsLost(u)'
      BY <1>1, <1>2, <2>2 DEF InBucket, IsLost, NoBucket, NoSending, NoJobOf
    <2> QED
      BY <1>1, <2>1, <2>3 DEF IsHeld
  <1>3. ASSUME NEW B \in sending[p], u \in B
        PROVE  IF u <= used' THEN IsHeld(u)' ELSE Nowhere(u)'
    <2>1. IsHeld(u) /\ u <= used
      BY <1>3 DEF Handed, Nowhere, NoSending
    <2>2. InSending(u, p, B)
      BY <1>1, <1>3, <2>1 DEF IsHeld, InBucket, InSending, InJob, IsLost, NoSending
    <2>3. IsLost(u)'
      BY <1>1, <1>3, <2>2 DEF InSending, IsLost, NoBucket, NoSending, NoJobOf
    <2> QED
      BY <1>1, <2>1, <2>3 DEF IsHeld
  <1>4. CASE u \notin bucket[p] /\ \A B \in sending[p] : u \notin B
    <2>1. /\ \A q \in Processes : u \in bucket'[q] <=> u \in bucket[q]
          /\ \A q \in Processes, C \in Batches :
               u \in C => (C \in sending'[q] <=> C \in sending[q])
          /\ \A q \in Processes : sending'[q] \subseteq Batches
          /\ u \in lost' <=> u \in lost
      BY <1>1, <1>4
    <2> QED
      BY <1>1, <2>1 DEF Handed, IsHeld, Nowhere, InBucket, InSending, InJob, IsLost,
                        NoBucket, NoSending, NoJobOf
  <1> QED
    BY <1>2, <1>3, <1>4

\* What a job does, and what happens around it, moves no use: a batch that is
\* with the queue stays there, and no other gets there.
LEMMA HandedElsewhere ==
  ASSUME Handed, UNCHANGED memory,
         \A C \in Batches : job'[C].pc = "none" <=> job[C].pc = "none"
  PROVE  Handed'
  BY DEF Handed, IsHeld, Nowhere, InBucket, InSending, InJob, IsLost,
         NoBucket, NoSending, NoJobOf, memory

LEMMA HandedByJob ==
  ASSUME TypeOK, Handed, UNCHANGED memory, NEW B \in Batches,
         job[B].pc # "none", job'[B].pc # "none",
         \A C \in Batches \ {B} : job'[C] = job[C]
  PROVE  Handed'
  BY HandedElsewhere

LEMMA HandedByProgress ==
  ASSUME TypeOK, Handed, NEW B \in Batches, Progress(B)
  PROVE  Handed'
  <1>1. CASE Start(B)
    <2>1. job'[B].pc # "none" /\ \A C \in Batches \ {B} : job'[C] = job[C]
      <3>1. CASE Goto(B, "dropped") \/ Throw(B)
        BY <3>1, GotoIs, ThrowIs
      <3>2. CASE job' = [job EXCEPT ![B] = [@ EXCEPT !.pc = "lookup", !.minute = minute]]
        BY <3>2, JobType DEF TypeOK, Job
      <3> QED
        BY <1>1, <3>1, <3>2 DEF Start
    <2> QED
      BY <1>1, <2>1, HandedByJob DEF Start, At
  <1>2. CASE Lookup(B) \/ InsertLoses(B)
    <2>1. /\ FollowRow(B) /\ UNCHANGED memory
          /\ job[B].pc # "none"
      BY <1>2 DEF Lookup, InsertLoses, At
    <2> DEFINE seen == row[job[B].minute].status
               pc   == CASE seen = "sent" -> "done"
                         [] seen = "none" -> "insert"
                         [] OTHER -> "call"
    <2>2. /\ job'[B].pc = pc
          /\ \A C \in Batches \ {B} : job'[C] = job[C]
      BY <2>1, JobType DEF FollowRow, TypeOK, Job
    <2>3. pc # "none"
      OBVIOUS
    <2> QED
      BY <2>1, <2>2, <2>3, HandedByJob
  <1>3. CASE Insert(B)
    <2>1. job'[B].pc = "call" /\ \A C \in Batches \ {B} : job'[C] = job[C]
      BY <1>3, JobType DEF Insert, TypeOK, Job
    <2> QED
      BY <1>3, <2>1, HandedByJob DEF Insert, At
  <1>4. CASE Counted(B) \/ Repeated(B)
    BY <1>4, GotoIs, HandedByJob DEF Counted, Repeated, At
  <1>5. CASE SaveSent(B)
    <2>1. job'[B].pc = "done" /\ \A C \in Batches \ {B} : job'[C] = job[C]
      BY <1>5, JobType DEF SaveSent, TypeOK, Job
    <2> QED
      BY <1>5, <2>1, HandedByJob DEF SaveSent, At
  <1>6. CASE SaveFailed(B)
    BY <1>6, ThrowIs, HandedByJob DEF SaveFailed, At
  <1>7. CASE Exhausted(B)
    <2>1. job'[B].pc # "none" /\ \A C \in Batches \ {B} : job'[C] = job[C]
      <3>1. CASE Goto(B, "dead")
        BY <3>1, GotoIs
      <3>2. ASSUME NEW i \in DOMAIN order,
                   job' = [job EXCEPT ![B] = [@ EXCEPT !.pc = "giveUp", !.minute = order[i]]]
            PROVE  job'[B].pc # "none" /\ \A C \in Batches \ {B} : job'[C] = job[C]
        BY <3>2, JobType DEF TypeOK, Job
      <3> QED
        BY <1>7, <3>1, <3>2 DEF Exhausted
    <2> QED
      BY <1>7, <2>1, HandedByJob DEF Exhausted, At
  <1>8. CASE GiveUp(B)
    BY <1>8, GotoIs, HandedByJob DEF GiveUp, At
  <1> QED
    BY <1>1, <1>2, <1>3, <1>4, <1>5, <1>6, <1>7, <1>8 DEF Progress

LEMMA HandedByTrouble ==
  ASSUME TypeOK, Handed, NEW B \in Batches, Trouble(B)
  PROVE  Handed'
  <1>1. CASE CallFails(B) \/ SaveSentFails(B) \/ HookFails(B)
    BY <1>1, GotoIs, HandedByJob DEF CallFails, SaveSentFails, HookFails, At
  <1>2. CASE SaveFailedFails(B) \/ DatabaseFails(B)
    BY <1>2, ThrowIs, HandedByJob DEF SaveFailedFails, DatabaseFails, At
  <1>3. CASE Crash(B)
    <2>1. job'[B].pc = "queued" /\ \A C \in Batches \ {B} : job'[C] = job[C]
      BY <1>3, JobType DEF Crash, TypeOK, Job
    <2> QED
      BY <1>3, <2>1, HandedByJob DEF Crash, Active
  <1> QED
    BY <1>1, <1>2, <1>3 DEF Trouble

LEMMA HandedStep == TypeOK /\ Handed /\ [Next]_vars => Handed'
  <1> SUFFICES ASSUME TypeOK, Handed, [Next]_vars PROVE Handed'
    OBVIOUS
  <1>1. CASE NextMinute \/ Unlink \/ Destroy \/ UNCHANGED vars
    BY <1>1, HandedElsewhere DEF NextMinute, Unlink, Destroy, vars
  <1>2. ASSUME NEW p \in Processes, Server(p) PROVE Handed'
    BY <1>2, HandedByTrack, HandedByFlush, HandedByDeath, HandedByDispatch,
       HandedByRefusal DEF Server
  <1> QED
    BY <1>1, <1>2, HandedByProgress, HandedByTrouble DEF Next

\* Every use that was tracked is in one bucket, in one batch that is being
\* dispatched, in one job, or lost, whatever is tracked while a dispatch is
\* awaited and whichever server dies in it.
THEOREM UsesAreInOnePlace == Spec => []UseIsInOnePlace
  <1>1. TypeOK /\ Handed => UseIsInOnePlace
    <2> SUFFICES ASSUME TypeOK, Handed, NEW u \in 1 .. used
                 PROVE  Cardinality(Places(u)) = 1
      BY DEF UseIsInOnePlace
    <2>1. u \in Uses /\ u <= used
      BY UsageAssumption DEF TypeOK, Uses
    <2> QED
      BY <2>1, HeldOnce DEF Handed
  <1> QED
    BY <1>1, TypeInit, TypeStep, HandedInit, HandedStep, PTL DEF Spec

=============================================================================
