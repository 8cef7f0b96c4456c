------------------------------ MODULE ListPages ------------------------------
(***************************************************************************)
(* The pages of list_resources and list_resource_templates, and a client   *)
(* that walks them.                                                        *)
(*                                                                         *)
(* A cursor is the offset of the next page as text, in base64; what a      *)
(* client sends may be any text.  The server keeps nothing between pages.  *)
(* Items are numbered from 1 in the order of the list.                     *)
(***************************************************************************)
EXTENDS Integers, Sequences

CONSTANTS WordMax,    \* the largest usize
          NoCursor,   \* the first request of a walk, and the answer to the last
          Garbage     \* a text that is not the base64 of a number

ASSUME WordAssumption == WordMax \in Nat \ {0}
ASSUME CursorAssumption ==
    /\ NoCursor \notin Nat /\ Garbage \notin Nat /\ NoCursor # Garbage

VARIABLES
    walk,     \* "rest", "walking" or "done"
    total,    \* the length of the list
    size,     \* its page size
    from,     \* where the walk began
    cursor,   \* the cursor of the next request
    seen      \* the items the client has received

pageVars == <<walk, total, size, from, cursor, seen>>

Cursor == 0..WordMax \cup {NoCursor, Garbage}

AtMost(x, bound) == IF x <= bound THEN x ELSE bound

(* Faulty variant: the offset is used as it comes. *)
OffsetAsSent(c, n) == IF c \in Nat THEN c ELSE 0

Offset(c, n) == IF c \in Nat THEN AtMost(c, n) ELSE 0

(* Faulty variant: the sum wraps around. *)
PageEndWrapping(offset, k, n) == AtMost((offset + k) % (WordMax + 1), n)

(* The sum saturates at the largest word. *)
PageEnd(offset, k, n) == AtMost(AtMost(offset + k, WordMax), n)

NextCursor(end, n) == IF end < n THEN end ELSE NoCursor

-----------------------------------------------------------------------------
PagesInit ==
    /\ walk = "rest"
    /\ total = 0
    /\ size = 1
    /\ from = 0
    /\ cursor = NoCursor
    /\ seen = <<>>

(* The first request, with whatever cursor. *)
StartWalk(n, k, c) ==
    /\ walk = "rest"
    /\ walk' = "walking"
    /\ total' = n
    /\ size' = k
    /\ from' = Offset(c, n)
    /\ cursor' = c
    /\ UNCHANGED seen

(* paginate: the page, and the cursor with which the client asks again. *)
Page ==
    /\ walk = "walking"
    /\ LET offset == Offset(cursor, total)
           end == PageEnd(offset, size, total)
       IN  /\ seen' = seen \o [i \in 1..(end - offset) |-> offset + i]
           /\ cursor' = NextCursor(end, total)
    /\ walk' = IF cursor' = NoCursor THEN "done" ELSE "walking"
    /\ UNCHANGED <<total, size, from>>

(* Lengths and page sizes are words; a page has room for an item. *)
PagesNext ==
    \/ \E n \in 0..WordMax, k \in 1..WordMax, c \in Cursor : StartWalk(n, k, c)
    \/ Page

PagesSpec == PagesInit /\ [][PagesNext]_pageVars

-----------------------------------------------------------------------------
(* Properties. *)

(* From any cursor, also one past the end or near the largest word, the    *)
(* client gets the items that follow it, each once and in order, and all   *)
(* of them by the end of its walk (paginate, server.rs 32-58).             *)
ItemsOnceInOrder ==
    walk # "rest" =>
        /\ seen = [i \in 1..Len(seen) |-> from + i]
        /\ from + Len(seen) <= total
        /\ walk = "done" => from + Len(seen) = total

(* Every page brings an item or is the last: a client that follows the     *)
(* cursors comes to an end, whatever cursor it began with.                 *)
PagesAdvance ==
    [][walk = "walking" => Len(seen') > Len(seen) \/ walk' = "done"]_pageVars
=============================================================================
