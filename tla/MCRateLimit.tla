----------------------------- MODULE MCRateLimit ----------------------------
(* The limiter of two requests for TLC: the constants are given in the .cfg. *)
EXTENDS RateLimit

Spec == RateInit /\ [][RateNext]_limiter

=============================================================================
