--------------------------- MODULE CircuitBreaker ---------------------------
(***************************************************************************)
(* The circuit breaker of one tenant in each process that asks for it, and *)
(* the state all of them keep in Redis under one key.  A breaker writes    *)
(* its state at every change, and a new one reads it once; both go on      *)
(* beside the breaker, so that what is read may be what another process    *)
(* wrote, or this one before a reset.  Opening, half-opening and closing   *)
(* is opossum's.                                                           *)
(***************************************************************************)
EXTENDS Naturals, Sequences

CONSTANTS
  Nodes,     \* processes
  Volume,    \* failures that open a closed breaker
  MaxPending,  \* bound: writes of a process that have not ended
  MaxExits, MaxResets, MaxOutages, MaxFaults  \* bounds

VARIABLES
  up,        \* the tenant's database answers
  breaker,   \* [Nodes -> the breaker in the memory of the process]
  writes,    \* [Nodes -> the states it has still to write]
  restore,   \* [Nodes -> what its new breaker has read: see Reading]
  key,       \* the state in Redis
  exits, resets, outages, faults

circuit == <<up, breaker, writes, restore, key, exits, resets, outages, faults>>
bounded == <<exits, resets, outages, faults>>

BreakerStates == {"CLOSED", "OPEN", "HALF_OPEN"}
Reading == {"none", "asked", "read_open", "read_other"}

\* timer: opossum's timer runs, after which an open breaker is half open.
NoBreaker == [state |-> "none", timer |-> FALSE, failures |-> 0]
Fresh == [NoBreaker EXCEPT !.state = "CLOSED"]
CircuitInit ==
  /\ up \in BOOLEAN /\ key \in BreakerStates \cup {"none"}
  /\ breaker = [n \in Nodes |-> NoBreaker]
  /\ writes = [n \in Nodes |-> <<>>] /\ restore = [n \in Nodes |-> "none"]
  /\ exits = 0 /\ resets = 0 /\ outages = 0 /\ faults = 0

\* The handlers of open, close and halfOpen write the new state.
Changes(n, new) ==
  /\ Len(writes[n]) < MaxPending
  /\ breaker' = [breaker EXCEPT ![n] = new]
  /\ writes' = [writes EXCEPT ![n] = Append(@, new.state)]
Opened == [state |-> "OPEN", timer |-> TRUE, failures |-> 0]

GetCircuit(n) ==
  /\ breaker[n].state = "none"
  /\ breaker' = [breaker EXCEPT ![n] = Fresh]
  /\ restore' = [restore EXCEPT ![n] = "asked"]
  /\ UNCHANGED <<up, writes, key, bounded>>

ReadsKey(n) ==
  /\ restore[n] = "asked"
  /\ restore' = [restore EXCEPT ![n] = IF key = "OPEN" THEN "read_open" ELSE "read_other"]
  /\ UNCHANGED <<up, breaker, writes, key, bounded>>
\* The state is put back without opening the breaker (a mutant).
PutsBack(n) ==
  /\ restore[n] = "read_open"
  /\ breaker' = [breaker EXCEPT ![n] = [Opened EXCEPT !.timer = FALSE]]
  /\ UNCHANGED writes
Restores(n) ==
  /\ restore[n] = "read_open" /\ breaker[n].state # "OPEN"
  /\ Changes(n, Opened)
Restored(n) ==
  /\ restore[n] \in {"read_open", "read_other"}
  /\ restore' = [restore EXCEPT ![n] = "none"]
  /\ \/ Restores(n)
     \/ /\ restore[n] = "read_other" \/ breaker[n].state \in {"OPEN", "none"}
        /\ UNCHANGED <<breaker, writes>>
  /\ UNCHANGED <<up, key, bounded>>
ReadFails(n) ==
  /\ faults < MaxFaults /\ faults' = faults + 1 /\ restore[n] = "asked"
  /\ restore' = [restore EXCEPT ![n] = "none"]
  /\ UNCHANGED <<up, breaker, writes, key, exits, resets, outages>>

\* A call: an open breaker answers without it, a half-open one closes or opens
\* with its outcome, a closed one opens when it has failed often enough.
Call(n) ==
  /\ breaker[n].state \in {"CLOSED", "HALF_OPEN"}
  /\ CASE breaker[n].state = "HALF_OPEN" -> Changes(n, IF up THEN Fresh ELSE Opened)
       [] breaker[n].state = "CLOSED" /\ ~up /\ breaker[n].failures + 1 >= Volume -> Changes(n, Opened)
       [] OTHER -> /\ breaker' = [breaker EXCEPT ![n].failures = IF up THEN 0 ELSE @ + 1]
                   /\ UNCHANGED writes
  /\ UNCHANGED <<up, restore, key, bounded>>

TimeIsUp(n) ==
  /\ breaker[n].state = "OPEN" /\ breaker[n].timer
  /\ Changes(n, [breaker[n] EXCEPT !.state = "HALF_OPEN", !.timer = FALSE])
  /\ UNCHANGED <<up, restore, key, bounded>>

\* One state is written, or the write fails and is logged.
Persists(n) ==
  /\ writes[n] # <<>>
  /\ writes' = [writes EXCEPT ![n] = Tail(@)]
  /\ \/ key' = Head(writes[n]) /\ UNCHANGED faults
     \/ faults < MaxFaults /\ faults' = faults + 1 /\ UNCHANGED key
  /\ UNCHANGED <<up, breaker, restore, exits, resets, outages>>

\* An operator resets the breaker: it closes, which writes, and the reset
\* writes once more.
Resets(n) ==
  /\ resets < MaxResets /\ resets' = resets + 1
  /\ breaker[n].state # "none" /\ Len(writes[n]) < MaxPending
  /\ breaker' = [breaker EXCEPT ![n] = Fresh]
  /\ writes' = [writes EXCEPT ![n] =
       @ \o IF breaker[n].state = "CLOSED" THEN <<"CLOSED">> ELSE <<"CLOSED", "CLOSED">>]
  /\ UNCHANGED <<up, restore, key, exits, outages, faults>>

\* The tenant is destroyed here: the breaker is shut down and the key deleted;
\* writes under way still come.
Destroys(n) ==
  /\ resets < MaxResets /\ resets' = resets + 1
  /\ breaker' = [breaker EXCEPT ![n] = NoBreaker]
  /\ \/ key' = "none" /\ UNCHANGED faults
     \/ faults < MaxFaults /\ faults' = faults + 1 /\ UNCHANGED key
  /\ UNCHANGED <<up, writes, restore, exits, outages>>

ProcessExits(n) ==
  /\ exits < MaxExits /\ exits' = exits + 1
  /\ breaker' = [breaker EXCEPT ![n] = NoBreaker]
  /\ writes' = [writes EXCEPT ![n] = <<>>]
  /\ restore' = [restore EXCEPT ![n] = "none"]
  /\ UNCHANGED <<up, key, resets, outages, faults>>

\* The key is forgotten an hour after its last write.
KeyExpires ==
  /\ key # "none" /\ key' = "none"
  /\ UNCHANGED <<up, breaker, writes, restore, bounded>>
DatabaseMoves ==
  /\ outages < MaxOutages /\ outages' = outages + 1 /\ up' = ~up
  /\ UNCHANGED <<breaker, writes, restore, key, exits, resets, faults>>

Works(n) == Restored(n) \/ ReadsKey(n) \/ Persists(n)
CircuitNext ==
  \/ \E n \in Nodes : GetCircuit(n) \/ Works(n) \/ ReadFails(n) \/ Call(n) \/ TimeIsUp(n)
                      \/ Resets(n) \/ Destroys(n) \/ ProcessExits(n)
  \/ KeyExpires \/ DatabaseMoves

\* Timers fire, reads end, and the application goes on asking: a breaker is
\* only tried when it is called.
CircuitFairness ==
  \A n \in Nodes : WF_circuit(Works(n)) /\ WF_circuit(Call(n)) /\ WF_circuit(TimeIsUp(n))
-----------------------------------------------------------------------------
CircuitTypeOK ==
  /\ up \in BOOLEAN /\ key \in BreakerStates \cup {"none"}
  /\ \A n \in Nodes :
       /\ breaker[n].state \in BreakerStates \cup {"none"} /\ breaker[n].timer \in BOOLEAN
       /\ breaker[n].failures \in 0..Volume
       /\ restore[n] \in Reading
       /\ \A i \in 1..Len(writes[n]) : writes[n][i] \in BreakerStates
  /\ exits \in 0..MaxExits /\ resets \in 0..MaxResets
  /\ outages \in 0..MaxOutages /\ faults \in 0..MaxFaults

ClosedAt(n) == breaker[n].state \in {"CLOSED", "none"}

\* Once the database answers for good, no breaker stays open, whatever stale
\* state of another process, or from before a restart or a reset, it was
\* restored from (circuit_breaker_service.ts:82-87: it heals from OPEN through
\* HALF_OPEN to CLOSED).
ClosesAgain == \A n \in Nodes : <>[]up => []<>ClosedAt(n)
=============================================================================
