--------------------------- MODULE MCControlLines ---------------------------
(* Small instances of the control lines for TLC. *)
EXTENDS ControlLines
=============================================================================
