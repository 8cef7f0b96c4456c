----------------------------- MODULE ByteFates ------------------------------
(***************************************************************************)
(* What the server promises about the bytes a device sends, whatever tools *)
(* read them: a byte waits until it is given to one reader or flushed; a   *)
(* reader is given the oldest bytes that wait; and all that a reader has   *)
(* in hand goes to its client, or is lost, at once.  What has been passed  *)
(* on or lost stays so.                                                    *)
(***************************************************************************)
EXTENDS Naturals

CONSTANT Call      \* the readers

VARIABLES
    arrived,    \* how many bytes have come
    waiting,    \* bytes nobody has read
    held,       \* bytes each reader has in hand
    passed,     \* bytes each reader has passed on to its client
    lost        \* bytes nobody will see

vars == <<arrived, waiting, held, passed, lost>>

Init ==
    /\ arrived = 0
    /\ waiting = {}
    /\ held = [c \in Call |-> {}]
    /\ passed = [c \in Call |-> {}]
    /\ lost = {}

Arrive ==
    /\ arrived' = arrived + 1
    /\ waiting' = waiting \cup {arrived + 1}
    /\ UNCHANGED <<held, passed, lost>>

(* The bytes that wait and came no later than b. *)
UpTo(b) == {a \in waiting : a <= b}

(* c gets the waiting bytes up to one of them. *)
Take(c) ==
    /\ \E b \in waiting :
         /\ held' = [held EXCEPT ![c] = @ \cup UpTo(b)]
         /\ waiting' = waiting \ UpTo(b)
    /\ UNCHANGED <<arrived, passed, lost>>

Pass(c) ==
    /\ passed' = [passed EXCEPT ![c] = @ \cup held[c]]
    /\ held' = [held EXCEPT ![c] = {}]
    /\ UNCHANGED <<arrived, waiting, lost>>

Drop(c) ==
    /\ lost' = lost \cup held[c]
    /\ held' = [held EXCEPT ![c] = {}]
    /\ UNCHANGED <<arrived, waiting, passed>>

Flush ==
    /\ lost' = lost \cup waiting
    /\ waiting' = {}
    /\ UNCHANGED <<arrived, held, passed>>

Next ==
    \/ Arrive
    \/ Flush
    \/ \E c \in Call : Take(c) \/ Pass(c) \/ Drop(c)

Spec == Init /\ [][Next]_vars
=============================================================================
