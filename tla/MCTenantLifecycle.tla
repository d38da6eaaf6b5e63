------------------------- MODULE MCTenantLifecycle -------------------------
(* Instances of TenantLifecycle for TLC: the constants are given in the .cfg. *)
EXTENDS TenantLifecycle

=============================================================================
