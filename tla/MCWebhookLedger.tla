-------------------------- MODULE MCWebhookLedger --------------------------
(* Instances of WebhookLedger for TLC: the constants are given in the .cfg. *)
EXTENDS WebhookLedger

=============================================================================
