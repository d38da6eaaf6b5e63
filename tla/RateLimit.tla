------------------------------ MODULE RateLimit ------------------------------
(***************************************************************************)
(* The rate limit of one key (prefix, tenant, address): the middleware     *)
(* reads its clock, sends four commands to Redis in one pipeline, and lets *)
(* the request through when the sorted set has at most Limit members.  The *)
(* score and the member are the clock that was read, so that requests of   *)
(* one tick are one member.  The clock is that of the process, up to Skew  *)
(* ticks ahead of the slowest; Redis's own, which expires the key, is the  *)
(* slowest here.  Other clients' commands may come between the commands of *)
(* a pipeline.  Routes differ in failOpen only.                            *)
(***************************************************************************)
EXTENDS Naturals, FiniteSets

CONSTANTS
  Requests,          \* requests of one address and tenant
  Limit, Window,     \* the options; Window in ticks of the clock
  Skew,              \* how far the clocks of two processes are apart
  MaxTime, MaxHitFaults \* bounds

RateAssumption ==
  /\ IsFiniteSet(Requests)
  /\ {Limit, Skew, MaxHitFaults} \subseteq Nat /\ {Window, MaxTime} \subseteq Nat \ {0}

VARIABLES
  now,      \* Redis's clock
  entries,  \* scores in the sorted set
  expiry,   \* when the key expires
  hit,      \* the requests
  hitFaults

limiter == <<now, entries, expiry, hit, hitFaults>>

Waiting == [pc |-> "idle", at |-> 0, read |-> 0, failOpen |-> FALSE, ran |-> {}, count |-> 0, late |-> FALSE]
RateInit ==
  /\ now = 1 /\ entries = {} /\ expiry = 0 /\ hitFaults = 0
  /\ \E open \in BOOLEAN : hit = [r \in Requests |-> [Waiting EXCEPT !.failOpen = open]]

Live == IF now < expiry THEN entries ELSE {}

Ticks ==
  /\ now < MaxTime /\ now' = now + 1
  /\ UNCHANGED <<entries, expiry, hit, hitFaults>>

\* The process reads its clock before the connection is taken and the commands
\* are sent.
ReadsClock(r) ==
  /\ hit[r].pc = "idle"
  /\ \E ahead \in 0..Skew :
       hit' = [hit EXCEPT ![r].pc = "trim", ![r].at = now + ahead, ![r].read = now]
  /\ UNCHANGED <<now, entries, expiry, hitFaults>>

\* The command of a request that runs next; it is late when the clock has gone
\* on since the request read it.
Executes(r, command, next, count) ==
  /\ hit[r].pc = command
  /\ hit' = [hit EXCEPT ![r].pc = next, ![r].count = count, ![r].ran = @ \cup {command},
                        ![r].late = @ \/ now # hit[r].read]
\* One score fewer is kept (a mutant).
TrimsTooMuch(r) ==
  /\ Executes(r, "trim", "add", 0)
  /\ entries' = {s \in Live : s + Window > hit[r].at + 1}
  /\ UNCHANGED <<now, expiry, hitFaults>>
Trims(r) ==
  /\ Executes(r, "trim", "add", 0)
  /\ entries' = {s \in Live : s + Window > hit[r].at}
  /\ UNCHANGED <<now, expiry, hitFaults>>
Adds(r) ==
  /\ Executes(r, "add", "card", 0)
  /\ entries' = Live \cup {hit[r].at}
  /\ expiry' = IF Live = {} THEN MaxTime + Window + 1 ELSE expiry
  /\ UNCHANGED <<now, hitFaults>>
Counts(r) ==
  /\ Executes(r, "card", "expire", Cardinality(Live))
  /\ UNCHANGED <<now, entries, expiry, hitFaults>>
Expires(r) ==
  /\ Executes(r, "expire", "decide", hit[r].count)
  /\ entries' = Live
  /\ expiry' = IF Live = {} THEN expiry ELSE now + Window
  /\ UNCHANGED <<now, hitFaults>>

\* Redis answers one command with an error: the pipeline resolves all the same,
\* with an error in the place of that answer, and no count is a count of none.
Refused(r) ==
  /\ hitFaults < MaxHitFaults /\ hitFaults' = hitFaults + 1
  /\ \E step \in {<<"trim", "add">>, <<"add", "card">>, <<"card", "expire">>, <<"expire", "decide">>} :
       /\ hit[r].pc = step[1]
       /\ hit' = [hit EXCEPT ![r].pc = step[2]]
  /\ UNCHANGED <<now, entries, expiry>>

\* No connection, or none any more: exec rejects.
Disconnected(r) ==
  /\ hitFaults < MaxHitFaults /\ hitFaults' = hitFaults + 1
  /\ hit[r].pc \in {"trim", "add", "card", "expire", "decide"}
  /\ hit' = [hit EXCEPT ![r].pc = IF hit[r].failOpen THEN "passed" ELSE "unavailable"]
  /\ UNCHANGED <<now, entries, expiry>>

Decides(r) ==
  /\ hit[r].pc = "decide"
  /\ hit' = [hit EXCEPT ![r].pc = IF hit[r].count > Limit THEN "refused" ELSE "admitted"]
  /\ UNCHANGED <<now, entries, expiry, hitFaults>>

RateNext ==
  \/ Ticks
  \/ \E r \in Requests :
       ReadsClock(r) \/ Trims(r) \/ Adds(r) \/ Counts(r) \/ Expires(r) \/ Refused(r)
       \/ Disconnected(r) \/ Decides(r)

RateSpec == RateInit /\ [][RateNext]_limiter
-----------------------------------------------------------------------------
RateTypeOK ==
  /\ now \in 1..MaxTime /\ entries \subseteq 1..(MaxTime + Skew) /\ hitFaults \in 0 .. MaxHitFaults
  /\ expiry \in 0..(MaxTime + Window + 1)
  /\ \A r \in Requests :
       /\ hit[r].pc \in {"idle", "trim", "add", "card", "expire", "decide",
                         "admitted", "passed", "refused", "unavailable"}
       /\ hit[r].read \in 0..MaxTime /\ hit[r].at \in hit[r].read..(hit[r].read + Skew)
       /\ hit[r].count \in 0..Cardinality(Requests)

Admitted == {r \in Requests : hit[r].pc = "admitted"}

\* However the requests of several processes interleave, those whose four commands run
\* in the tick in which they read the clock, and that are let through, fall into at most
\* Limit ticks of any Window of ticks less the Skew of the clocks: a process whose clock
\* is ahead drops the oldest entries so much too early (rate_limit_middleware.ts:64-76).
AdmitsWithinLimit ==
  \A from \in 1..(MaxTime + Skew) :
    Cardinality({hit[r].at : r \in {q \in Admitted : /\ ~hit[q].late
                      /\ {"trim", "add", "card", "expire"} \subseteq hit[q].ran
                      /\ hit[q].at \in from..(from + Window - Skew - 1)}})
      <= Limit

\* A route that fails closed lets no request through that was not counted
\* (rate_limit_middleware.ts:18-22: when Redis raises an error, the default is to fail
\* closed; an outage must not silently disable rate limiting).
FailsClosed ==
  \A r \in Admitted : hit[r].failOpen \/ {"add", "card"} \subseteq hit[r].ran
=============================================================================
