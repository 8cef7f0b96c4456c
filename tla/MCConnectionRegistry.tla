----------------------- MODULE MCConnectionRegistry ------------------------
(* Small instances of the connection registry for TLC. *)
EXTENDS ConnectionRegistry
=============================================================================
