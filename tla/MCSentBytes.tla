----------------------------- MODULE MCSentBytes ----------------------------
(* Small instances of the write tool for TLC. *)
EXTENDS SentBytes
=============================================================================
