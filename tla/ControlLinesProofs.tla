------------------------- MODULE ControlLinesProofs -------------------------
(***************************************************************************)
(* The safety properties of the control lines, for any set of calls.       *)
(***************************************************************************)
EXTENDS ControlLines, TLAPS

(* Between its two lines a set_dtr_rts call holds the io mutex, and has    *)
(* set DTR.                                                                *)
SecondLinePending ==
    \A c \in PairCall : pc[c] = "dtrSet" => io = c /\ dtr = c

(* A guard's task is spawned when its call ends. *)
ResetsAfterReturn == \A c \in resets : pc[c] = "returned"

(* Whoever may clear BREAK under a call that holds it has met that call.   *)
ClearersMet ==
    \A c, d \in BreakCall : Holds(c) /\ d # c /\ Attends(d) => d \in met[c]

IInv ==
    /\ TypeOK
    /\ ResetsAfterReturn
    /\ ClearersMet
    /\ CutShortByAnother
    /\ SomebodyWillRelease
    /\ SecondLinePending
    /\ LinesOfOneCall

(* No call has begun, and BREAK is off. *)
LEMMA InitIInv == Init => IInv
<1> SUFFICES ASSUME Init PROVE IInv
  OBVIOUS
<1>1. TypeOK
  BY DEF Init, TypeOK
<1>2. SomebodyWillRelease
  BY DEF Init, SomebodyWillRelease
<1>3. ResetsAfterReturn /\ ClearersMet /\ CutShortByAnother
  BY CallAssumption DEF Init, ResetsAfterReturn, ClearersMet, CutShortByAnother, Holds
<1>4. SecondLinePending /\ LinesOfOneCall
  BY DEF Init, SecondLinePending, LinesOfOneCall
<1> QED BY <1>1, <1>2, <1>3, <1>4 DEF IInv

(* Of the calls of send_break: BREAK is attended, and its clearers known.  *)
BreakInv == ResetsAfterReturn /\ ClearersMet /\ CutShortByAnother /\ SomebodyWillRelease

(* Of the calls of set_dtr_rts. *)
PairInv == SecondLinePending /\ LinesOfOneCall

(* A step that leaves send_break's state alone leaves its invariant.       *)
LEMMA BreakFrame ==
  ASSUME BreakInv, UNCHANGED breakVars, \A c \in BreakCall : pc'[c] = pc[c],
         resets \subseteq BreakCall,
         met \in [BreakCall -> SUBSET BreakCall]
  PROVE  BreakInv'
BY DEF BreakInv, breakVars, ResetsAfterReturn, ClearersMet, CutShortByAnother,
   SomebodyWillRelease, Attends, Holds

(* And likewise for set_dtr_rts. *)
LEMMA PairFrame ==
  ASSUME PairInv, UNCHANGED pairVars, \A c \in PairCall : pc'[c] = pc[c],
         \A c \in PairCall : io = c => io' = c
  PROVE  PairInv'
BY DEF PairInv, pairVars, SecondLinePending, LinesOfOneCall

(* What the calls that attend BREAK have met grows by the call that        *)
(* asserts it, and that call has met them all.                             *)
LEMMA AssertMeets ==
  ASSUME IInv, NEW c \in BreakCall, AssertBreak(c)
  PROVE  TypeOK' /\ BreakInv'
<1> USE CallAssumption DEF IInv, TypeOK, AssertBreak, Goto
<1>1. pc' \in [BreakCall \cup PairCall ->
                 {"start", "notifying", "holding", "releasing", "dtrSet",
                  "returned", "failed"}]
  OBVIOUS
<1>2. \A d \in BreakCall \ {c} : pc'[d] = pc[d] /\ (Attends(d)' <=> Attends(d))
  BY DEF Attends, Holds
<1>3. met' \in [BreakCall -> SUBSET BreakCall]
  BY DEF Meets
<1>4. \A e \in BreakCall \ {c} : Attends(e) => e \in met'[c]
  BY DEF Meets
<1>5. \A d \in BreakCall \ {c} : Attends(d) => c \in met'[d] /\ met[d] \subseteq met'[d]
  BY DEF Meets
<1>6. TypeOK'
  BY <1>1, <1>3 DEF pairVars
<1>7. ClearersMet'
  <2> SUFFICES ASSUME NEW e \in BreakCall, NEW d \in BreakCall,
                      Holds(e)', d # e, Attends(d)'
               PROVE  d \in met'[e]
    BY DEF ClearersMet
  <2>1. CASE e = c
    BY <2>1, <1>2, <1>4
  <2>2. CASE e # c
    <3>1. Holds(e) /\ Attends(e)
      BY <2>2, <1>2 DEF Holds, Attends
    <3> QED
      BY <2>2, <3>1, <1>2, <1>5 DEF ClearersMet
  <2> QED BY <2>1, <2>2
<1>8. ResetsAfterReturn' /\ CutShortByAnother' /\ SomebodyWillRelease'
  <2>1. c \notin resets
    BY DEF ResetsAfterReturn
  <2>2. Attends(c)'
    BY DEF Attends, Holds
  <2> QED
    BY <2>1, <2>2, <1>2 DEF ResetsAfterReturn, CutShortByAnother, SomebodyWillRelease
<1> QED
  BY <1>6, <1>7, <1>8 DEF BreakInv

(* No step of send_break leaves the line in BREAK unattended, nor clears   *)
(* it under a call that the clearing one has not met.                      *)
LEMMA BreakStepIInv ==
  ASSUME IInv, NEW c \in BreakCall, BreakStep(c) \/ ResetStep(c)
  PROVE  IInv'
<1>1. CASE AssertBreak(c)
  <2>1. PairInv'
    BY <1>1, PairFrame, CallAssumption
       DEF AssertBreak, Goto, IInv, TypeOK, PairInv
  <2> QED BY <1>1, <2>1, AssertMeets DEF IInv, BreakInv, PairInv
<1> USE CallAssumption
    DEF IInv, TypeOK, SomebodyWillRelease, ResetsAfterReturn, ClearersMet,
        CutShortByAnother, SecondLinePending, LinesOfOneCall,
        Holds, Attends, Goto, breakVars, pairVars
<1>2. CASE AssertBreakFails(c)
  BY <1>2 DEF AssertBreakFails
<1>3. CASE Tick(c)
  BY <1>3 DEF Tick
<1>4. CASE Notified(c)
  BY <1>4 DEF Notified
<1>5. CASE DeadlinePasses(c)
  BY <1>5 DEF DeadlinePasses
<1>6. CASE Cancel(c)
  BY <1>6 DEF Cancel
<1>7. CASE Release(c)
  BY <1>7 DEF Release
<1>8. CASE ReleaseFails(c)
  BY <1>8 DEF ReleaseFails
<1>9. CASE Reset(c)
  BY <1>9 DEF Reset
<1>10. CASE ResetFails(c)
  BY <1>10 DEF ResetFails
<1> QED
  BY <1>1, <1>2, <1>3, <1>4, <1>5, <1>6, <1>7, <1>8, <1>9, <1>10
     DEF BreakStep, ResetStep

(* No step of set_dtr_rts mixes the lines of two calls without an error.   *)
LEMMA PairStepIInv ==
  ASSUME IInv, NEW c \in PairCall, PairStep(c)
  PROVE  IInv'
<1> USE CallAssumption DEF IInv, TypeOK, PairStep, SecondLine, SetDtr, SetDtrFails,
                           SetRts, SetRtsFails, Goto
<1>1. TypeOK'
  BY DEF breakVars, pairVars
<1>2. BreakInv'
  <2>1. UNCHANGED breakVars /\ \A d \in BreakCall : pc'[d] = pc[d]
    OBVIOUS
  <2> QED BY <2>1, BreakFrame DEF BreakInv
<1>3. PairInv'
  BY DEF PairInv, pairVars, SecondLinePending, LinesOfOneCall
<1> QED BY <1>1, <1>2, <1>3 DEF BreakInv, PairInv

(* Nor does a transfer, which only takes the io mutex while it is free.    *)
LEMMA TransferIInv ==
  ASSUME IInv, NEW w \in Transfer, TransferBegins(w) \/ TransferEnds(w)
  PROVE  IInv'
<1> USE CallAssumption DEF IInv, TypeOK, TransferBegins, TransferEnds
<1>1. TypeOK'
  BY DEF breakVars, pairVars
<1>2. BreakInv' /\ PairInv'
  <2>1. UNCHANGED <<breakVars, pairVars, pc>>
    OBVIOUS
  <2>2. \A c \in PairCall : io = c => io' = c
    OBVIOUS
  <2> QED BY <2>1, <2>2, BreakFrame, PairFrame DEF BreakInv, PairInv
<1> QED BY <1>1, <1>2 DEF BreakInv, PairInv

(* The invariant holds in every reachable state. *)
LEMMA Inductive == Spec => []IInv
<1>1. IInv /\ [Next]_vars => IInv'
  <2> SUFFICES ASSUME IInv, [Next]_vars PROVE IInv'
    OBVIOUS
  <2>1. CASE UNCHANGED vars
    BY <2>1 DEF vars, breakVars, pairVars, IInv, TypeOK, SomebodyWillRelease,
       ResetsAfterReturn, ClearersMet, CutShortByAnother, SecondLinePending,
       LinesOfOneCall, Holds, Attends
  <2> QED BY <2>1, BreakStepIInv, PairStepIInv, TransferIInv DEF Next
<1> QED BY InitIInv, <1>1, PTL DEF Spec

(* A line in BREAK is always attended: by a call, by the guard's task, or  *)
(* else the driver has refused both.                                       *)
THEOREM BreakAttended == Spec => []SomebodyWillRelease
<1>1. IInv => SomebodyWillRelease
  BY DEF IInv
<1> QED BY <1>1, Inductive, PTL

(* BREAK is cut short only by a call that overlaps the one holding it: one *)
(* that meets no other holds it to its deadline.                           *)
THEOREM BreakHeldAlone == Spec => []CutShortByAnother
<1>1. IInv => CutShortByAnother
  BY DEF IInv
<1> QED BY <1>1, Inductive, PTL

(* DTR and RTS are left half one call's and half another's only with an    *)
(* error returned.                                                         *)
THEOREM LinesPaired == Spec => []LinesOfOneCall
<1>1. IInv => LinesOfOneCall
  BY DEF IInv
<1> QED BY <1>1, Inductive, PTL

(* The control lines keep their types. *)
THEOREM TypeCorrect == Spec => []TypeOK
<1>1. IInv => TypeOK
  BY DEF IInv
<1> QED BY <1>1, Inductive, PTL
=============================================================================
