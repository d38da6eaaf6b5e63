---------------------------- MODULE Impersonation ---------------------------
(***************************************************************************)
(* services/impersonation_service.ts: one session in which an admin acts   *)
(* for a user of a tenant. It lives in the cache only, a memory layer per  *)
(* server over Redis with a bus between them, until it is revoked or its   *)
(* time is over. Signing and checking the token is left out: a call is     *)
(* made with a token whose signature is right.                             *)
(***************************************************************************)
EXTENDS Naturals, FiniteSets

CONSTANTS
    Nodes,     \* server processes
    Calls,     \* callers of the service, one call each at a time
    On,        \* the server of each caller
    MaxFaults, \* bound: failed writes of the cache or of the audit log
    Nothing

ImpersonationAssumption ==
    On \in [Calls -> Nodes] /\ MaxFaults \in Nat

VARIABLES
    time,     \* of the session: before, live, or over
    memory,   \* per server: the session in the memory layer
    shared,   \* the session in Redis
    bus,      \* servers a message of the bus has not reached yet
    call,     \* calls in progress
    revoked,  \* stop or revokeById has returned true
    audited,  \* actions in the audit log
    faults    \* failures so far

cache == <<memory, shared, bus>>
facts == <<revoked, audited>>
vars  == <<time, cache, call, facts, faults>>

\* The session as cached: whether its firstVerifyAt is set.
Session == {"unused", "used"}

Pc == {"idle", "set", "log start", "verify", "mark", "log use", "drop",
       "stop", "revoke", "delete", "delete by id", "log stop"}

TypeOK ==
    /\ time \in {"before", "live", "over"}
    /\ memory \in [Nodes -> Session \cup {Nothing}]
    /\ shared \in Session \cup {Nothing}
    /\ bus \subseteq Nodes
    /\ call \in [Calls -> Pc]
    /\ revoked \in BOOLEAN
    /\ audited \subseteq {"start", "use", "stop"}
    /\ faults \in 0 .. MaxFaults

Init ==
    /\ time = "before"
    /\ memory = [n \in Nodes |-> Nothing] /\ shared = Nothing /\ bus = {}
    /\ call = [c \in Calls |-> "idle"]
    /\ revoked = FALSE /\ audited = {}
    /\ faults = 0

Goto(c, pc) == call' = [call EXCEPT ![c] = pc]
Fault == faults < MaxFaults /\ faults' = faults + 1

-----------------------------------------------------------------------------
(* The cache *)

SetAt(n, v) ==
    /\ memory' = [memory EXCEPT ![n] = v]
    /\ shared' = v
    /\ bus' = Nodes \ {n}

\* get: the memory of the server, else Redis, which fills the memory.
Got(n) == IF memory[n] # Nothing THEN memory[n] ELSE shared
Fills(n) == memory' = [memory EXCEPT ![n] = Got(n)] /\ UNCHANGED <<shared, bus>>

Hears(n) ==
    /\ n \in bus
    /\ bus' = bus \ {n}
    /\ memory' = [memory EXCEPT ![n] = Nothing]
    /\ UNCHANGED <<time, shared, call, facts, faults>>

\* A session cached without a lifetime (a mutant).
Stays == FALSE /\ UNCHANGED vars

\* The lifetime in the cache is what is left of the session's.
Expires ==
    /\ time = "over"
    /\ \/ \E n \in Nodes : memory[n] # Nothing /\ memory' = [memory EXCEPT ![n] = Nothing]
                           /\ UNCHANGED shared
       \/ shared # Nothing /\ shared' = Nothing /\ UNCHANGED memory
    /\ UNCHANGED <<time, bus, call, facts, faults>>

TimeIsUp ==
    /\ time = "live"
    /\ time' = "over"
    /\ UNCHANGED <<cache, call, facts, faults>>

-----------------------------------------------------------------------------
(* start *)

Start(c) ==
    /\ call[c] = "idle" /\ time = "before"
    /\ time' = "live"
    /\ Goto(c, "set")
    /\ UNCHANGED <<cache, facts, faults>>

Stores(c) ==
    /\ call[c] = "set"
    /\ SetAt(On[c], "unused")
    /\ Goto(c, "log start")
    /\ UNCHANGED <<time, facts, faults>>

\* #audit: an entry that cannot be written is an entry less, and no error.
Logs(c, pc, action) ==
    /\ call[c] = pc
    /\ \/ audited' = audited \cup {action} /\ UNCHANGED faults
       \/ Fault /\ UNCHANGED audited
    /\ Goto(c, "idle")
    /\ UNCHANGED <<time, cache, revoked>>

-----------------------------------------------------------------------------
(* verify *)

\* The token is known from when start has returned it.
Uses(c) ==
    /\ call[c] = "idle" /\ time # "before"
    /\ "set" \notin {call[d] : d \in Calls}
    /\ call' \in {[call EXCEPT ![c] = pc] : pc \in {"verify", "stop", "revoke"}}
    /\ UNCHANGED <<time, cache, facts, faults>>

\* Not there: refused. Over: deleted and refused. Used: accepted.
Verifies(c) ==
    LET v == Got(On[c])
    IN  /\ call[c] = "verify"
        /\ Fills(On[c])
        /\ Goto(c, IF v # Nothing /\ time = "over" THEN "drop"
                   ELSE IF v = "unused" THEN "mark" ELSE "idle")
        /\ UNCHANGED <<time, facts, faults>>

Drops(c) ==
    /\ call[c] = "drop"
    /\ SetAt(On[c], Nothing)
    /\ Goto(c, "idle")
    /\ UNCHANGED <<time, facts, faults>>

\* The first use writes the whole session back, over a revocation since it was read.
Marks(c) ==
    /\ call[c] = "mark"
    /\ SetAt(On[c], "used")
    /\ Goto(c, "log use")
    /\ UNCHANGED <<time, facts, faults>>

\* The write fails: accepted all the same, and the next use is the first again.
MarkFails(c) ==
    /\ call[c] = "mark"
    /\ Fault
    /\ Goto(c, "idle")
    /\ UNCHANGED <<time, cache, facts>>

-----------------------------------------------------------------------------
(* stop, revokeById *)

LooksFor(c, pc, found) ==
    /\ call[c] = pc
    /\ Fills(On[c])
    /\ Goto(c, IF Got(On[c]) = Nothing THEN "idle" ELSE found)
    /\ UNCHANGED <<time, facts, faults>>

Deletes(c) ==
    /\ call[c] \in {"delete", "delete by id"}
    /\ SetAt(On[c], Nothing)
    /\ revoked' = TRUE
    /\ Goto(c, IF call[c] = "delete" THEN "log stop" ELSE "idle")
    /\ UNCHANGED <<time, audited, faults>>

-----------------------------------------------------------------------------
CallStep(c) ==
    \/ Stores(c) \/ Verifies(c) \/ Drops(c) \/ Marks(c) \/ MarkFails(c)
    \/ LooksFor(c, "stop", "delete") \/ LooksFor(c, "revoke", "delete by id")
    \/ Deletes(c)
    \/ Logs(c, "log start", "start") \/ Logs(c, "log use", "use") \/ Logs(c, "log stop", "stop")

Next ==
    \/ \E c \in Calls : Start(c) \/ Uses(c) \/ CallStep(c)
    \/ \E n \in Nodes : Hears(n)
    \/ Expires \/ TimeIsUp

Spec == Init /\ [][Next]_vars

-----------------------------------------------------------------------------
(* Properties *)

Gone == shared = Nothing /\ \A n \in Nodes : memory[n] = Nothing

\* A session that was revoked ends on every server: also when a first use has written
\* it back behind the revocation, no later than its time.
RevokedEnds == revoked ~> Gone

=============================================================================
