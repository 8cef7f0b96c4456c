--------------------------- MODULE ListPagesProofs ---------------------------
(***************************************************************************)
(* A walk of pages returns each item once and comes to an end: proved for  *)
(* lists and pages of any length and words of any width.                   *)
(***************************************************************************)
EXTENDS ListPages, TLAPS

PagesType ==
    /\ walk \in {"rest", "walking", "done"}
    /\ total \in 0..WordMax
    /\ size \in 1..WordMax
    /\ from \in 0..total
    /\ cursor \in Cursor
    /\ seen \in Seq(Nat)

(* The cursor is where the items received end. *)
CursorAtEnd ==
    /\ walk = "rest" => seen = <<>>
    /\ walk = "walking" => Offset(cursor, total) = from + Len(seen)

IInv == PagesType /\ CursorAtEnd /\ ItemsOnceInOrder

-----------------------------------------------------------------------------
(* An offset lies in the list, and the cursor of a page leads to its end.  *)
LEMMA OffsetInList ==
    ASSUME NEW n \in Nat, NEW c \in Cursor
    PROVE  Offset(c, n) \in 0..n
  BY WordAssumption DEF Offset, AtMost, Cursor

LEMMA PageEndInList ==
    ASSUME NEW n \in 0..WordMax, NEW offset \in 0..n, NEW k \in 1..WordMax
    PROVE  /\ PageEnd(offset, k, n) \in offset..n
           /\ PageEnd(offset, k, n) = offset => offset = n
  BY WordAssumption DEF PageEnd, AtMost

LEMMA NextCursorLeads ==
    ASSUME NEW n \in 0..WordMax, NEW end \in 0..n
    PROVE  /\ NextCursor(end, n) \in Cursor
           /\ NextCursor(end, n) = NoCursor => end = n
           /\ NextCursor(end, n) # NoCursor => Offset(NextCursor(end, n), n) = end
  BY WordAssumption, CursorAssumption DEF NextCursor, Cursor, Offset, AtMost

(* Numbers in a row, put together. *)
LEMMA RowsJoin ==
    ASSUME NEW a \in Nat, NEW b \in Nat, NEW m \in Nat, NEW s \in Seq(Nat),
           s = [i \in 1..Len(s) |-> a + i], b = a + Len(s),
           NEW t, t = s \o [i \in 1..m |-> b + i]
    PROVE  /\ t \in Seq(Nat)
           /\ Len(t) = Len(s) + m
           /\ t = [i \in 1..Len(t) |-> a + i]
<1> DEFINE r == [i \in 1..m |-> b + i]
<1>1. r \in Seq(Nat) /\ Len(r) = m
  OBVIOUS
<1>2. t \in Seq(Nat) /\ Len(t) = Len(s) + m
  BY <1>1
<1>3. \A i \in 1..Len(t) : t[i] = a + i
  <2> SUFFICES ASSUME NEW i \in 1..Len(t) PROVE t[i] = a + i
    OBVIOUS
  <2>1. CASE i <= Len(s)
    <3>1. t[i] = s[i]
      BY <1>1, <2>1
    <3> QED
      BY <2>1, <3>1
  <2>2. CASE i > Len(s)
    <3>1. t[i] = r[i - Len(s)] /\ i - Len(s) \in 1..m
      BY <1>1, <1>2, <2>2
    <3> QED
      BY <3>1
  <2> QED
    BY <2>1, <2>2
<1>4. t = [i \in 1..Len(t) |-> a + i]
  <2>1. t = [i \in 1..Len(t) |-> t[i]]
    BY <1>2
  <2> QED
    BY <1>3, <2>1
<1> QED
  BY <1>2, <1>4

-----------------------------------------------------------------------------
LEMMA InitHolds == PagesInit => IInv
  BY WordAssumption
     DEF PagesInit, IInv, PagesType, Cursor, CursorAtEnd, ItemsOnceInOrder

LEMMA StartStep ==
    ASSUME IInv, NEW n \in 0..WordMax, NEW k \in 1..WordMax, NEW c \in Cursor,
           StartWalk(n, k, c)
    PROVE  IInv'
<1>1. Offset(c, n) \in 0..n
  BY WordAssumption, OffsetInList
<1>2. /\ walk' = "walking" /\ total' = n /\ size' = k /\ from' = Offset(c, n)
      /\ cursor' = c /\ seen' = <<>>
  BY DEF StartWalk, IInv, CursorAtEnd
<1>3. PagesType'
  BY <1>1, <1>2 DEF PagesType
<1>4. CursorAtEnd'
  BY <1>1, <1>2 DEF CursorAtEnd
<1>5. ItemsOnceInOrder'
  BY <1>1, <1>2 DEF ItemsOnceInOrder
<1> QED
  BY <1>3, <1>4, <1>5 DEF IInv

(* A page, its effect in terms of the item it begins with and its end.     *)
LEMMA PageStep ==
    ASSUME IInv, Page
    PROVE  IInv' /\ (Len(seen') > Len(seen) \/ walk' = "done")
<1> DEFINE offset == Offset(cursor, total)
           end == PageEnd(offset, size, total)
<1>1. /\ walk = "walking"
      /\ seen' = seen \o [i \in 1..(end - offset) |-> offset + i]
      /\ cursor' = NextCursor(end, total)
      /\ walk' = IF cursor' = NoCursor THEN "done" ELSE "walking"
      /\ UNCHANGED <<total, size, from>>
  BY DEF Page
<1>2. /\ total \in 0..WordMax /\ total \in Nat /\ size \in 1..WordMax
      /\ cursor \in Cursor /\ from \in 0..total /\ seen \in Seq(Nat)
  BY WordAssumption DEF IInv, PagesType
<1>3. offset \in 0..total
  BY <1>2, OffsetInList
<1>4. end \in offset..total /\ (end = offset => offset = total)
  BY <1>2, <1>3, PageEndInList
<1>5. end \in 0..total
  BY <1>3, <1>4
<1>6. /\ offset = from + Len(seen)
      /\ seen = [i \in 1..Len(seen) |-> from + i]
  BY <1>1 DEF IInv, CursorAtEnd, ItemsOnceInOrder
<1>7. /\ seen' \in Seq(Nat)
      /\ Len(seen') = Len(seen) + (end - offset)
      /\ seen' = [i \in 1..Len(seen') |-> from + i]
  <2>1. end - offset \in Nat /\ from \in Nat /\ offset \in Nat
    BY <1>2, <1>3, <1>4
  <2>2. \A m \in Nat :
           seen' = seen \o [i \in 1..m |-> offset + i] =>
             /\ seen' \in Seq(Nat)
             /\ Len(seen') = Len(seen) + m
             /\ seen' = [i \in 1..Len(seen') |-> from + i]
    <3> HIDE DEF offset
    <3> QED
      BY <1>2, <1>6, <2>1, RowsJoin
  <2> HIDE DEF offset, end
  <2> QED
    BY <1>1, <2>1, <2>2
<1> HIDE DEF offset, end
<1>8. /\ cursor' \in Cursor
      /\ cursor' = NoCursor => end = total
      /\ cursor' # NoCursor => Offset(cursor', total) = end
  BY <1>1, <1>2, <1>5, NextCursorLeads
<1>9. from + Len(seen') = end
  BY <1>2, <1>3, <1>4, <1>6, <1>7
<1>10. PagesType'
  BY <1>1, <1>2, <1>7, <1>8 DEF PagesType
<1>11. CursorAtEnd'
  BY <1>1, <1>8, <1>9 DEF CursorAtEnd
<1>12. ItemsOnceInOrder'
  <2>1. from' = from /\ total' = total
    BY <1>1
  <2>2. seen' = [i \in 1..Len(seen') |-> from' + i]
    BY <1>7, <2>1
  <2>3. from' + Len(seen') <= total'
    BY <1>2, <1>5, <1>9, <2>1
  <2>4. walk' = "done" => from' + Len(seen') = total'
    BY <1>1, <1>8, <1>9, <2>1
  <2> QED
    BY <2>2, <2>3, <2>4 DEF ItemsOnceInOrder
<1>13. Len(seen') > Len(seen) \/ walk' = "done"
  <2>1. CASE end = offset
    BY <1>1, <1>4, <1>8, <2>1, <1>2 DEF NextCursor
  <2>2. CASE end # offset
    BY <1>2, <1>3, <1>4, <1>7, <2>2
  <2> QED
    BY <2>1, <2>2
<1> QED
  BY <1>10, <1>11, <1>12, <1>13 DEF IInv

LEMMA Invariance == PagesSpec => []IInv
<1>1. IInv /\ [PagesNext]_pageVars => IInv'
  <2> SUFFICES ASSUME IInv, [PagesNext]_pageVars PROVE IInv'
    OBVIOUS
  <2>1. CASE UNCHANGED pageVars
    BY <2>1 DEF pageVars, IInv, PagesType, CursorAtEnd, ItemsOnceInOrder
  <2> QED
    BY <2>1, StartStep, PageStep DEF PagesNext
<1> QED
  BY <1>1, InitHolds, PTL DEF PagesSpec

(* The client gets the items that follow its cursor, each once, in order   *)
(* and all of them, for every list, page size, cursor and word.            *)
THEOREM EachItemOnce == PagesSpec => []ItemsOnceInOrder
  BY Invariance, PTL DEF IInv

(* No page is empty unless it is the last: the walk comes to an end.       *)
THEOREM WalkAdvances == PagesSpec => PagesAdvance
<1>1. IInv /\ [PagesNext]_pageVars
        => [walk = "walking" => Len(seen') > Len(seen) \/ walk' = "done"]_pageVars
  BY PageStep DEF PagesNext, StartWalk
<1> QED
  BY <1>1, Invariance, PTL DEF PagesSpec, PagesAdvance
=============================================================================
