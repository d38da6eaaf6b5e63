------------------------- MODULE MCSubscriptionSync -------------------------
(* Instances of SubscriptionSync for TLC: the constants are given in the .cfg. *)
EXTENDS SubscriptionSync

=============================================================================
