------------------------------ MODULE MCPortIo ------------------------------
(* Small instances of the io mutex for TLC. *)
EXTENDS PortIo
=============================================================================
