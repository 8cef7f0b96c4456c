---------------------------- MODULE MCRxStreams -----------------------------
(* Small instances of the streaming tools for TLC. *)
EXTENDS StreamReplies
=============================================================================
