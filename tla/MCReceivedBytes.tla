--------------------------- MODULE MCReceivedBytes --------------------------
(* Small instances of the reading tools for TLC. *)
EXTENDS ReceivedBytes, TLC

CONSTANTS byteA, byteB

MCSymbol == {byteA, byteB}
MCPattern == <<byteA, byteB>>

Symmetric == Permutations(Call)
=============================================================================
