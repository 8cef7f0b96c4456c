---------------------------- MODULE ControlLines ----------------------------
(***************************************************************************)
(* The output lines of one connection: the BREAK condition that send_break *)
(* asserts, holds and releases, with the guard that releases it when the   *)
(* call is cancelled or fails, and the DTR and RTS lines of set_dtr_rts.   *)
(*                                                                         *)
(* A call is one execution of a tool handler.  The driver may refuse any   *)
(* operation.  When a call's deadline passes is left open: a property that *)
(* holds here holds for every duration.  The io mutex of the connection is *)
(* shared with the calls that transfer bytes, which hold it over an await: *)
(* a write until the device has taken its bytes, a read for its slices.    *)
(***************************************************************************)
EXTENDS FiniteSets

CONSTANTS BreakCall,   \* calls of send_break
          PairCall,    \* calls of set_dtr_rts
          Transfer,    \* calls that write or read bytes, time and again
          Free         \* no call: nobody holds the io mutex

ASSUME CallAssumption ==
    /\ BreakCall \cap PairCall = {}
    /\ Transfer \cap (BreakCall \cup PairCall) = {}
    /\ Free \notin BreakCall \cup PairCall \cup Transfer

VARIABLES
    breakOn,    \* the TX line is held in the BREAK condition
    dtr, rts,   \* the set_dtr_rts call whose value a line has, if any
    io,         \* the holder of the connection's io mutex
    pc,         \* where a call is
    resets,     \* calls whose guard has spawned a task that will clear BREAK
    given,      \* calls whose reset task was refused by the driver
    met         \* history: the calls that a call has overlapped

breakVars == <<breakOn, resets, given, met>>
pairVars == <<dtr, rts>>
vars == <<breakVars, pairVars, io, pc>>

Init ==
    /\ breakOn = FALSE
    /\ dtr = Free /\ rts = Free
    /\ io = Free
    /\ pc = [c \in BreakCall \cup PairCall |-> "start"]
    /\ resets = {}
    /\ given = {}
    /\ met = [c \in BreakCall |-> {}]

Goto(c, from, to) ==
    /\ pc[c] = from
    /\ pc' = [pc EXCEPT ![c] = to]

Holds(c) == pc[c] \in {"notifying", "holding"}

(* From its assertion until it has returned and the task of its guard, if  *)
(* there is one, has run, a call is going to clear BREAK.                  *)
Attends(c) == Holds(c) \/ pc[c] = "releasing" \/ c \in resets

(* A call that asserts BREAK overlaps those that have yet to clear it. *)
Meets(c) ==
    met' = [d \in BreakCall |->
              IF d = c THEN {e \in BreakCall \ {c} : Attends(e)}
              ELSE IF Attends(d) THEN met[d] \cup {c} ELSE met[d]]

-----------------------------------------------------------------------------
(* send_break *)

(* Faulty variant: the io mutex stays locked while BREAK is held. *)
AssertBreakLocked(c) ==
    /\ io = Free
    /\ \E to \in {"notifying", "holding"} : Goto(c, "start", to)
    /\ breakOn' = TRUE
    /\ Meets(c)
    /\ io' = c
    /\ UNCHANGED <<resets, given, pairVars>>

(* Faulty variant: the guard is not bound to a name and drops at once. *)
AssertBreakUnbound(c) ==
    /\ io = Free
    /\ \E to \in {"notifying", "holding"} : Goto(c, "start", to)
    /\ breakOn' = TRUE
    /\ Meets(c)
    /\ resets' = resets \cup {c}
    /\ UNCHANGED <<given, pairVars, io>>

(* BREAK is asserted and the guard armed.  With a progress token the call  *)
(* next waits for its notification to go out, else it holds.               *)
AssertBreak(c) ==
    /\ io = Free
    /\ \E to \in {"notifying", "holding"} : Goto(c, "start", to)
    /\ breakOn' = TRUE
    /\ Meets(c)
    /\ UNCHANGED <<resets, given, pairVars, io>>

(* The driver refuses: the call returns before there is a guard. *)
AssertBreakFails(c) ==
    /\ io = Free
    /\ Goto(c, "start", "returned")
    /\ UNCHANGED <<breakVars, pairVars, io>>

(* A progress tick: the notification is awaited outside the select, so     *)
(* that neither the deadline nor a cancellation is seen meanwhile.         *)
Tick(c) ==
    /\ Goto(c, "holding", "notifying")
    /\ UNCHANGED <<breakVars, pairVars, io>>

Notified(c) ==
    /\ Goto(c, "notifying", "holding")
    /\ UNCHANGED <<breakVars, pairVars, io>>

DeadlinePasses(c) ==
    /\ Goto(c, "holding", "releasing")
    /\ UNCHANGED <<breakVars, pairVars, io>>

(* Faulty variant: there is no guard. *)
CancelUnguarded(c) ==
    /\ Goto(c, "holding", "returned")
    /\ UNCHANGED <<breakVars, pairVars, io>>

(* The guard is dropped armed: it spawns a task that clears BREAK later. *)
Cancel(c) ==
    /\ Goto(c, "holding", "returned")
    /\ resets' = resets \cup {c}
    /\ UNCHANGED <<breakOn, given, met, pairVars, io>>

(* BREAK is cleared and the guard disarmed. *)
Release(c) ==
    /\ io = Free
    /\ Goto(c, "releasing", "returned")
    /\ breakOn' = FALSE
    /\ UNCHANGED <<resets, given, met, pairVars, io>>

(* Faulty variant: the guard is disarmed before BREAK is cleared. *)
ReleaseFailsDisarmed(c) ==
    /\ io = Free
    /\ Goto(c, "releasing", "returned")
    /\ UNCHANGED <<breakVars, pairVars, io>>

(* The driver refuses: the call returns an error, which drops the guard. *)
ReleaseFails(c) ==
    /\ io = Free
    /\ Goto(c, "releasing", "returned")
    /\ resets' = resets \cup {c}
    /\ UNCHANGED <<breakOn, given, met, pairVars, io>>

(* The guard's task gets the mutex. *)
Reset(c) ==
    /\ io = Free
    /\ c \in resets
    /\ resets' = resets \ {c}
    /\ breakOn' = FALSE
    /\ UNCHANGED <<given, met, pairVars, io, pc>>

(* Its error is ignored. *)
ResetFails(c) ==
    /\ io = Free
    /\ c \in resets
    /\ resets' = resets \ {c}
    /\ given' = given \cup {c}
    /\ UNCHANGED <<breakOn, met, pairVars, io, pc>>

-----------------------------------------------------------------------------
(* set_dtr_rts: both lines are driven under one hold of the io mutex. *)

(* Faulty variant: the io mutex is locked for each line separately. *)
SetDtrUnlocked(c) ==
    /\ io = Free
    /\ Goto(c, "start", "dtrSet")
    /\ dtr' = c
    /\ UNCHANGED <<breakVars, rts, io>>

SetDtr(c) ==
    /\ io = Free
    /\ Goto(c, "start", "dtrSet")
    /\ io' = c
    /\ dtr' = c
    /\ UNCHANGED <<breakVars, rts>>

SetDtrFails(c) ==
    /\ io = Free
    /\ Goto(c, "start", "failed")
    /\ UNCHANGED <<breakVars, pairVars, io>>

SetRts(c) ==
    /\ Goto(c, "dtrSet", "returned")
    /\ io' = Free
    /\ rts' = c
    /\ UNCHANGED <<breakVars, dtr>>

(* Faulty variant: the error of the second line is ignored. *)
SetRtsFailsSilently(c) ==
    /\ Goto(c, "dtrSet", "returned")
    /\ io' = Free
    /\ UNCHANGED <<breakVars, pairVars>>

(* The error is returned with DTR already changed. *)
SetRtsFails(c) ==
    /\ Goto(c, "dtrSet", "failed")
    /\ io' = Free
    /\ UNCHANGED <<breakVars, pairVars>>

-----------------------------------------------------------------------------
(* write and read: a transfer holds the io mutex while it waits. *)

TransferBegins(w) ==
    /\ io = Free
    /\ io' = w
    /\ UNCHANGED <<breakVars, pairVars, pc>>

TransferEnds(w) ==
    /\ io = w
    /\ io' = Free
    /\ UNCHANGED <<breakVars, pairVars, pc>>

-----------------------------------------------------------------------------
BreakStep(c) ==
    \/ AssertBreak(c) \/ AssertBreakFails(c)
    \/ Tick(c) \/ Notified(c)
    \/ DeadlinePasses(c) \/ Cancel(c)
    \/ Release(c) \/ ReleaseFails(c)

ResetStep(c) == Reset(c) \/ ResetFails(c)

SecondLine(c) == SetRts(c) \/ SetRtsFails(c)

PairStep(c) == SetDtr(c) \/ SetDtrFails(c) \/ SecondLine(c)

Next ==
    \/ \E c \in BreakCall : BreakStep(c) \/ ResetStep(c)
    \/ \E c \in PairCall : PairStep(c)
    \/ \E w \in Transfer : TransferBegins(w) \/ TransferEnds(w)

(* A holding call's deadline passes even while it ticks (the select sees   *)
(* it between two notifications) and the io mutex is handed over in the    *)
(* order of arrival, so that a call or a guard's task that waits for it    *)
(* gets it although transfers take it again and again: strong fairness.    *)
(* A notification is sent or fails, and set_dtr_rts awaits nothing between *)
(* its lines.                                                              *)
Fairness ==
    /\ \A c \in BreakCall :
        /\ SF_vars(DeadlinePasses(c) \/ Cancel(c))
        /\ WF_vars(Notified(c))
        /\ SF_vars(Release(c) \/ ReleaseFails(c))
        /\ SF_vars(ResetStep(c))
    /\ \A c \in PairCall : WF_vars(SecondLine(c))

(* Not of the code: a transfer that waits for the device ends.  A read has *)
(* its slice, but write has no timeout, so that a device which never takes *)
(* the bytes keeps everybody else from the mutex.                          *)
TransfersEnd == \A w \in Transfer : WF_vars(TransferEnds(w))

Spec == Init /\ [][Next]_vars
FairSpec == Spec /\ Fairness /\ TransfersEnd

-----------------------------------------------------------------------------
(* Properties. *)

TypeOK ==
    /\ breakOn \in BOOLEAN
    /\ dtr \in PairCall \cup {Free} /\ rts \in PairCall \cup {Free}
    /\ io \in PairCall \cup Transfer \cup {Free}
    /\ pc \in [BreakCall \cup PairCall ->
                {"start", "notifying", "holding", "releasing", "dtrSet",
                 "returned", "failed"}]
    /\ resets \subseteq BreakCall
    /\ given \subseteq BreakCall
    /\ met \in [BreakCall -> SUBSET BreakCall]

(* The line is never left in BREAK with nobody about to clear it, whatever *)
(* is cancelled, fails or overlaps, unless the driver refused to clear it  *)
(* for a call and again for the guard of that call.                        *)
SomebodyWillRelease ==
    breakOn => (\E c \in BreakCall : Attends(c)) \/ given # {}

(* A call of send_break finds the line out of BREAK before its deadline    *)
(* only if a call that it overlapped has returned, with the release or the *)
(* reset of that call ending the BREAK of both.  So a call that overlaps   *)
(* no other, nor a reset that another has left pending, holds BREAK from   *)
(* its assertion to its deadline, however many came before it and whatever *)
(* set_dtr_rts and the transfers do meanwhile.                             *)
CutShortByAnother ==
    \A c \in BreakCall : Holds(c) /\ ~ breakOn =>
        \E d \in met[c] : pc[d] = "returned"

(* BREAK ends, once the calls that assert it end. *)
BreakEnds == breakOn ~> ~ breakOn \/ given # {}

(* The DTR and RTS lines have values of two calls only while the call that *)
(* set DTR is about to set RTS, or when that call has returned an error: a *)
(* set_dtr_rts that reports success leaves no mixture, nor do two calls    *)
(* that race.                                                              *)
LinesOfOneCall ==
    dtr # rts => dtr \in PairCall /\ pc[dtr] \in {"dtrSet", "failed"}

(* "Assert a BREAK condition on the TX line for duration_ms milliseconds,  *)
(* then release it": BREAK stays on from the assertion to the deadline.    *)
HeldForDuration == \A c \in BreakCall : Holds(c) => breakOn
=============================================================================
