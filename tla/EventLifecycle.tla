--------------------------- MODULE EventLifecycle ---------------------------
(***************************************************************************)
(* What the billing webhook pipeline promises of one Stripe event, with no *)
(* queue, no workers and no database: it is accepted once, it is done or   *)
(* given up, a done event stays done until an operator replays it, and     *)
(* only a done event is forgotten.                                         *)
(***************************************************************************)
CONSTANT Events

VARIABLE state

Init == state = [e \in Events |-> "unknown"]

Move(e, from, to) ==
    /\ state[e] \in from
    /\ state' = [state EXCEPT ![e] = to]

\* The first delivery is recorded.
Accept(e) == Move(e, {"unknown"}, "accepted")

\* A handler has run to its end; this can still rescue a given-up event.
Done(e) == Move(e, {"accepted", "givenUp"}, "done")

\* No further attempt will be made.
GiveUp(e) == Move(e, {"accepted"}, "givenUp")

\* An operator asks for the event again.
Replay(e) == Move(e, {"done", "givenUp"}, "accepted")

\* Retention: a batch of done events is forgotten.
Forget(S) ==
    /\ S # {}
    /\ \A e \in S : state[e] = "done"
    /\ state' = [e \in Events |-> IF e \in S THEN "unknown" ELSE state[e]]

Next ==
    \/ \E e \in Events : Accept(e) \/ Done(e) \/ GiveUp(e) \/ Replay(e)
    \/ \E S \in SUBSET Events : Forget(S)

Spec == Init /\ [][Next]_state

=============================================================================
