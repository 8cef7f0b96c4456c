------------------------------- MODULE PortIo -------------------------------
(***************************************************************************)
(* The io mutex of one connection: timed reads that hold it for one poll   *)
(* slice at a time, and writes (and the other short operations) that queue *)
(* for it.  The mutex is tokio's, which serves its waiters in the order    *)
(* they came.                                                              *)
(*                                                                         *)
(* Time is counted in poll slices (POLL_MS): Tick lets one slice pass when *)
(* no task has anything to do before the next timer fires.  The 5 ms sleep *)
(* between two polls takes no time here, though other tasks run during it; *)
(* after an end of file, which costs no time either, it lasts until the    *)
(* end of the slice.  A task begins at most one call in a slice.  Both     *)
(* keep the number of steps in a slice finite.                             *)
(***************************************************************************)
EXTENDS Naturals, Sequences, FiniteSets

CONSTANTS Reader,      \* tasks that call read with a timeout
          Writer,      \* tasks that call write, flush_buffers, ...
          MaxSlices,   \* the longest read timeout, in slices
          Cap,         \* ages are counted up to here
          Stalls,      \* the device may stop accepting bytes (flow control)
          Free

ASSUME TaskAssumption == Reader \cap Writer = {} /\ Free \notin Reader \cup Writer
ASSUME BoundAssumption ==
    MaxSlices \in Nat \ {0} /\ Cap \in Nat \ {0} /\ Stalls \in BOOLEAN

Call == Reader \cup Writer

VARIABLES
    holder,    \* the task that holds the io mutex
    queue,     \* the tasks that wait for it, in order of arrival
    pc,        \* where a call is, "idle" when there is none
    asked,     \* the timeout of a read, in slices
    left,      \* slices until a read's deadline
    expired,   \* the poll in progress has used its slice up
    age        \* slices since the call began, counted up to Cap

vars == <<holder, queue, pc, asked, left, expired, age>>

Init ==
    /\ holder = Free
    /\ queue = <<>>
    /\ pc = [c \in Call |-> "idle"]
    /\ asked = [r \in Reader |-> 0]
    /\ left = [r \in Reader |-> 0]
    /\ expired = FALSE
    /\ age = [c \in Call |-> 1]

Goto(c, from, to) ==
    /\ pc[c] = from
    /\ pc' = [pc EXCEPT ![c] = to]

-----------------------------------------------------------------------------
(* read: the deadline is fixed once, before the loop. *)
StartRead(r) ==
    /\ age[r] > 0
    /\ Goto(r, "idle", "checking")
    /\ \E n \in 1..MaxSlices :
        /\ asked' = [asked EXCEPT ![r] = n]
        /\ left' = [left EXCEPT ![r] = n]
    /\ age' = [age EXCEPT ![r] = 0]
    /\ UNCHANGED <<holder, queue, expired>>

(* The top of the loop: no time left is the only way to time out, and the  *)
(* length of the next poll is fixed before the task waits for the mutex.   *)
TimeOut(r) ==
    /\ left[r] = 0
    /\ Goto(r, "checking", "idle")
    /\ UNCHANGED <<holder, queue, left, asked, expired, age>>

WaitForSlice(r) ==
    /\ left[r] > 0
    /\ Goto(r, "checking", "queued")
    /\ queue' = Append(queue, r)
    /\ UNCHANGED <<holder, left, asked, expired, age>>

(* Bytes, or an error of the port, end the read. *)
PollReturns(r) ==
    /\ Goto(r, "polling", "idle")
    /\ holder' = Free
    /\ UNCHANGED <<queue, left, asked, expired, age>>

(* Faulty variant: the mutex is kept from one slice to the next. *)
PollElapsedHolding(r) ==
    /\ expired
    /\ expired' = FALSE
    /\ IF left[r] > 0
       THEN pc[r] = "polling" /\ UNCHANGED <<pc, holder>>
       ELSE Goto(r, "polling", "sleeping") /\ holder' = Free
    /\ UNCHANGED <<queue, left, asked, age>>

(* Nothing came for a slice: the mutex is released and the loop goes on    *)
(* after a short sleep.                                                    *)
PollElapsed(r) ==
    /\ expired
    /\ Goto(r, "polling", "sleeping")
    /\ holder' = Free
    /\ UNCHANGED <<queue, left, asked, expired, age>>

(* A read of no bytes (end of file) returns at once and is treated like an *)
(* empty poll.                                                             *)
PollEof(r) ==
    /\ ~ expired
    /\ Goto(r, "polling", "dozing")
    /\ holder' = Free
    /\ UNCHANGED <<queue, left, asked, expired, age>>

(* Faulty variant: the deadline is computed inside the loop. *)
WakeAnew(r) ==
    /\ Goto(r, "sleeping", "checking")
    /\ left' = [left EXCEPT ![r] = asked[r]]
    /\ UNCHANGED <<holder, queue, asked, expired, age>>

Wake(r) ==
    /\ Goto(r, "sleeping", "checking")
    /\ UNCHANGED <<holder, queue, left, asked, expired, age>>

(* Faulty variant: the place in the queue stays. *)
DropQueuedStaying(r) ==
    /\ Goto(r, "queued", "idle")
    /\ UNCHANGED <<holder, queue, left, asked, expired, age>>

(* The tool that awaits the read is cancelled, or its stream aborted: the  *)
(* future is dropped wherever it waits, and with it its place in the queue *)
(* or the mutex.                                                           *)
DropQueued(r) ==
    /\ Goto(r, "queued", "idle")
    /\ \E k \in 1..Len(queue) :
        /\ queue[k] = r
        /\ queue' = SubSeq(queue, 1, k - 1) \o SubSeq(queue, k + 1, Len(queue))
    /\ UNCHANGED <<holder, left, asked, expired, age>>

DropPolling(r) ==
    /\ Goto(r, "polling", "idle")
    /\ holder' = Free
    /\ UNCHANGED <<queue, left, asked, expired, age>>

DropAsleep(r) ==
    /\ Goto(r, "sleeping", "idle") \/ Goto(r, "dozing", "idle")
    /\ UNCHANGED <<holder, queue, left, asked, expired, age>>

DropRead(r) == DropQueued(r) \/ DropPolling(r) \/ DropAsleep(r)

(* write: the mutex is held until the device has taken the bytes. *)
StartWrite(w) ==
    /\ age[w] > 0
    /\ Goto(w, "idle", "queued")
    /\ queue' = Append(queue, w)
    /\ age' = [age EXCEPT ![w] = 0]
    /\ UNCHANGED <<holder, left, asked, expired>>

WriteReturns(w) ==
    /\ Goto(w, "writing", "idle")
    /\ holder' = Free
    /\ UNCHANGED <<queue, left, asked, expired, age>>

(* The mutex goes to the task that has waited longest. *)
Grant ==
    /\ holder = Free
    /\ queue # <<>>
    /\ LET c == Head(queue) IN
       /\ holder' = c
       /\ pc' = [pc EXCEPT ![c] = IF c \in Reader THEN "polling" ELSE "writing"]
    /\ queue' = Tail(queue)
    /\ expired' = FALSE
    /\ UNCHANGED <<left, asked, age>>

(* Faulty variant: the time left does not saturate at zero. *)
TickUnsaturated ==
    /\ holder = Free => queue = <<>>
    /\ \A r \in Reader : pc[r] \notin {"checking", "sleeping"}
    /\ holder \in Reader => ~ expired
    /\ holder \in Writer => Stalls
    /\ left' = [r \in Reader |-> left[r] - 1]
    /\ expired' = (holder \in Reader)
    /\ UNCHANGED <<holder, queue, pc, asked, age>>

(* A slice passes: every other step is immediate. *)
Tick ==
    /\ holder = Free => queue = <<>>
    /\ \A r \in Reader : pc[r] \notin {"checking", "sleeping"}
    /\ holder \in Reader => ~ expired
    /\ holder \in Writer => Stalls
    /\ left' = [r \in Reader |-> IF left[r] > 0 THEN left[r] - 1 ELSE 0]
    /\ age' = [c \in Call |->
                  IF pc[c] = "idle" THEN 1
                  ELSE IF age[c] < Cap THEN age[c] + 1 ELSE Cap]
    /\ pc' = [c \in Call |-> IF pc[c] = "dozing" THEN "sleeping" ELSE pc[c]]
    /\ expired' = (holder \in Reader)
    /\ UNCHANGED <<holder, queue, asked>>

(* What a reader's task does by itself, without the port and the client. *)
ReaderStep(r) == TimeOut(r) \/ WaitForSlice(r) \/ PollElapsed(r) \/ Wake(r)

Next ==
    \/ \E r \in Reader :
        \/ StartRead(r) \/ DropRead(r)
        \/ PollReturns(r) \/ PollEof(r)
        \/ ReaderStep(r)
    \/ \E w \in Writer : StartWrite(w) \/ WriteReturns(w)
    \/ Grant
    \/ Tick

(* Tasks are scheduled, the mutex is handed over and time passes. *)
Fairness ==
    /\ \A r \in Reader : WF_vars(ReaderStep(r))
    /\ WF_vars(Grant)
    /\ WF_vars(Tick)

(* A write returns: only a device that keeps accepting bytes grants this. *)
WritesReturn == \A w \in Writer : WF_vars(WriteReturns(w))

Spec == Init /\ [][Next]_vars
FairSpec == Spec /\ Fairness /\ WritesReturn
StallingSpec == Spec /\ Fairness

-----------------------------------------------------------------------------
(* Properties. *)

TypeOK ==
    /\ holder \in Call \cup {Free}
    /\ queue \in Seq(Call)
    /\ pc \in [Call -> {"idle", "checking", "queued", "polling", "sleeping", "dozing",
                     "writing"}]
    /\ asked \in [Reader -> 0..MaxSlices]
    /\ left \in [Reader -> 0..MaxSlices]
    /\ expired \in BOOLEAN
    /\ age \in [Call -> 0..Cap]

(* Who waits is in the queue, once, and who works holds the mutex. *)
QueueShape ==
    /\ \A i, j \in 1..Len(queue) : queue[i] = queue[j] => i = j
    /\ \A c \in Call : pc[c] = "queued" <=> \E i \in 1..Len(queue) : queue[i] = c

HolderShape ==
    /\ \A c \in Call : pc[c] \in {"polling", "writing"} <=> holder = c
    /\ \A w \in Writer : pc[w] \in {"idle", "queued", "writing"}
    /\ \A r \in Reader : pc[r] # "writing"

(* Whoever holds the mutex is using it, and its queue holds the calls that *)
(* wait for it, once each: a read that is dropped, fails or times out      *)
(* wherever it waits leaves neither the mutex nor a place in the queue     *)
(* behind, so that nobody waits for a call that is gone.                   *)
MutexAccounted == QueueShape /\ HolderShape

(* "This lets concurrent write calls on the same connection proceed        *)
(* without waiting for the full read timeout": a write waits at most one   *)
(* slice of every reader, whatever their timeouts and however often they   *)
(* come back, as long as the device accepts bytes.                         *)
WriteWaitsOneSliceEach ==
    \A w \in Writer : pc[w] # "idle" => age[w] <= Cardinality(Reader)

(* A read may overrun its own timeout, because the wait for the mutex is   *)
(* not timed and the last poll's length is fixed before it; but by no more *)
(* than one slice of every other reader, however short its timeout and     *)
(* however long theirs.                                                    *)
ReadOverrunsOneSliceEach ==
    \A r \in Reader : pc[r] # "idle" =>
        age[r] <= asked[r] + Cardinality(Reader) - 1

(* "Returns ReadTimeout if timeout_ms is set and elapses before any byte   *)
(* arrives": a read with a timeout returns.                                *)
ReadReturns == \A r \in Reader : pc[r] # "idle" ~> pc[r] = "idle"
=============================================================================
