-------------------------- MODULE MCUsageMetering --------------------------
(* Instances of UsageMetering for TLC: the constants are given in the .cfg. *)
EXTENDS UsageMetering

=============================================================================
