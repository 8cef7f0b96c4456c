-------------------------- MODULE MCResourceUpdates --------------------------
(* Small instances of the resource notifications for TLC. *)
EXTENDS ResourceUpdates
=============================================================================
