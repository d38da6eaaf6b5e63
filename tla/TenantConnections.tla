-------------------------- MODULE TenantConnections -------------------------
(***************************************************************************)
(* The connections of one process to its tenants' schemas or databases:    *)
(* connect() and disconnect() of services/isolation/schema_pg_driver.ts    *)
(* and database_pg_driver.ts, which keep the least recently used order     *)
(* beside Lucid's connection manager. A release is awaited by nobody, or   *)
(* only by its caller, and the manager has the connection until it ends.   *)
(***************************************************************************)
EXTENDS Naturals, Sequences, FiniteSets, SequencesExt

CONSTANTS
    Tenants,
    MaxConns,    \* MAX_TENANT_CONNECTIONS
    MaxClosing,  \* bound: releases of one connection under way
    MaxFailures  \* bound: releases that fail

ASSUME ConnectionAssumption ==
    MaxConns \in Nat \ {0} /\ MaxClosing \in Nat \ {0} /\ MaxFailures \in Nat

VARIABLES
    manager,   \* tenants whose connection Lucid's manager has
    lru,       \* #lru, the least recently used first
    closing,   \* per tenant: releases under way
    lingering, \* connections whose release failed
    failedReleases   \* failed releases so far

conns == <<manager, lru, closing, lingering, failedReleases>>

ConnsTypeOK ==
    /\ manager \subseteq Tenants
    /\ lru \in Seq(Tenants) /\ IsInjective(lru)
    /\ closing \in [Tenants -> 0 .. MaxClosing]
    /\ lingering \subseteq Tenants
    /\ failedReleases \in 0 .. MaxFailures

ConnsInit ==
    /\ manager = {} /\ lru = << >>
    /\ closing = [t \in Tenants |-> 0]
    /\ lingering = {} /\ failedReleases = 0

Touched(t) == Append(RemoveFirst(lru, t), t)

\* An eviction that only forgets the connection (a mutant).
ForgetsToRelease(t) == UNCHANGED closing

\* manager.release: at once for a connection it does not have.
Releases(t) ==
    IF t \in manager
    THEN closing[t] < MaxClosing /\ closing' = [closing EXCEPT ![t] = closing[t] + 1]
    ELSE UNCHANGED closing

\* A connection that is there is touched; a new one may push the oldest out.
Connect(t) ==
    /\ manager' = manager \cup {t}
    /\ IF t \notin manager /\ Len(Touched(t)) > MaxConns
       THEN /\ lru' = Tail(Touched(t))
            /\ IF Head(Touched(t)) = t THEN UNCHANGED closing ELSE Releases(Head(Touched(t)))
       ELSE /\ lru' = Touched(t)
            /\ UNCHANGED closing
    /\ UNCHANGED <<lingering, failedReleases>>

\* destroy(), reset() and the commands close the connection of a tenant.
Disconnect(t) ==
    /\ lru' = RemoveFirst(lru, t)
    /\ Releases(t)
    /\ UNCHANGED <<manager, lingering, failedReleases>>

Released(t) ==
    /\ closing[t] > 0
    /\ closing' = [closing EXCEPT ![t] = closing[t] - 1]
    /\ manager' = manager \ {t}
    /\ lingering' = lingering \ {t}
    /\ UNCHANGED <<lru, failedReleases>>

ReleaseFails(t) ==
    /\ closing[t] > 0 /\ failedReleases < MaxFailures
    /\ failedReleases' = failedReleases + 1
    /\ closing' = [closing EXCEPT ![t] = closing[t] - 1]
    /\ lingering' = lingering \cup (manager \cap {t})
    /\ UNCHANGED <<manager, lru>>

ConnsNext ==
    \E t \in Tenants : Connect(t) \/ Disconnect(t) \/ Released(t) \/ ReleaseFails(t)

-----------------------------------------------------------------------------
(* Properties *)

\* No connection is forgotten: what the manager has open is in the order from which
\* it can be evicted, or on its way out, or its release has failed and was reported.
OpenIsKnown ==
    \A t \in manager : t \in ToSet(lru) \/ closing[t] > 0 \/ t \in lingering

=============================================================================
