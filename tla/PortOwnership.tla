--------------------------- MODULE PortOwnership ---------------------------
(***************************************************************************)
(* What the connection manager promises about a serial port, whatever      *)
(* tasks use it: a port has at most one owner at a time.  The owner is the *)
(* task that is opening the port or the connection registered for it, and  *)
(* ownership passes from the first to the second without a gap.            *)
(***************************************************************************)
CONSTANTS Port,     \* names of serial ports
          Opener,   \* tasks that may be opening a port
          Conn      \* identities of connections

VARIABLE owner      \* for each port, the set of its owners

Init == owner = [p \in Port |-> {}]

(* A task starts to open a port that nobody owns. *)
Claim(p, t) ==
    /\ owner[p] = {}
    /\ owner' = [owner EXCEPT ![p] = {t}]

(* The opener turns its claim into a registered connection. *)
Bind(p, t, i) ==
    /\ owner[p] = {t}
    /\ owner' = [owner EXCEPT ![p] = {i}]

(* The device could not be opened: the port is free again. *)
Abandon(p, t) ==
    /\ owner[p] = {t}
    /\ owner' = [owner EXCEPT ![p] = {}]

(* A connection that is already built is registered on a free port. *)
Adopt(p, i) ==
    /\ owner[p] = {}
    /\ owner' = [owner EXCEPT ![p] = {i}]

(* The registered connection is closed. *)
Vacate(p, i) ==
    /\ owner[p] = {i}
    /\ owner' = [owner EXCEPT ![p] = {}]

Next ==
    \E p \in Port :
        \/ \E t \in Opener : Claim(p, t) \/ Abandon(p, t)
        \/ \E t \in Opener, i \in Conn : Bind(p, t, i)
        \/ \E i \in Conn : Adopt(p, i) \/ Vacate(p, i)

Spec == Init /\ [][Next]_owner
=============================================================================
