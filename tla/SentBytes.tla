------------------------------ MODULE SentBytes ------------------------------
(***************************************************************************)
(* The write and flush tools: what becomes of the bytes that clients send  *)
(* over one connection.                                                    *)
(*                                                                         *)
(* Every writer has a message to send and calls write with what is left of *)
(* it.  The device takes as many bytes as it has room for, the call waits  *)
(* until they are out (io.flush) and returns their number; the client goes *)
(* on after them, and after an error, which says nothing of the bytes      *)
(* taken, it sends the same ones again.  A byte is <<writer, position>>.   *)
(* The waits for the io mutex, their order and length, are in PortIo.      *)
(***************************************************************************)
EXTENDS Naturals, Sequences

CONSTANTS Writer,     \* clients that call write
          MsgLen,     \* the length of a message
          MaxCalls,   \* a client calls write so many times
          Free

ASSUME WriterAssumption == Free \notin Writer
ASSUME LengthAssumption == MsgLen \in Nat /\ MaxCalls \in Nat

VARIABLES
    line,       \* the bytes that left for the device and those in its OS queue
    gone,       \* how many of them have left
    holder,     \* the call that holds the io mutex
    pc,         \* where a write is, "idle" when there is none
    given,      \* the bytes that the device took from the write
    reported,   \* the bytes of a message that its client knows to be written
    unsure,     \* the bytes that calls which failed had handed over
    calls

vars == <<line, gone, holder, pc, given, reported, unsure, calls>>

Init ==
    /\ line = <<>>
    /\ gone = 0
    /\ holder = Free
    /\ pc = [w \in Writer |-> "idle"]
    /\ given = [w \in Writer |-> 0]
    /\ reported = [w \in Writer |-> 0]
    /\ unsure = {}
    /\ calls = [w \in Writer |-> 0]

(* The n bytes that follow those reported to w. *)
Rest(w, n) == [i \in 1..n |-> <<w, reported[w] + i>>]

-----------------------------------------------------------------------------
(* write: encoding, connection and length are good, the call asks for the  *)
(* mutex.                                                                  *)
StartWrite(w) ==
    /\ pc[w] = "idle"
    /\ reported[w] < MsgLen
    /\ calls[w] < MaxCalls
    /\ pc' = [pc EXCEPT ![w] = "locking"]
    /\ calls' = [calls EXCEPT ![w] = @ + 1]
    /\ UNCHANGED <<line, gone, holder, given, reported, unsure>>

(* Faulty variant: the bytes count as written here and on return. *)
DeviceTakesCounting(w) ==
    /\ pc[w] = "locking"
    /\ holder = Free
    /\ holder' = w
    /\ pc' = [pc EXCEPT ![w] = "flushing"]
    /\ \E n \in 0..(MsgLen - reported[w]) :
        /\ given' = [given EXCEPT ![w] = n]
        /\ reported' = [reported EXCEPT ![w] = @ + n]
        /\ line' = line \o Rest(w, n)
    /\ UNCHANGED <<gone, unsure, calls>>

(* io.write: the device takes some of the bytes, perhaps none. *)
DeviceTakes(w) ==
    /\ pc[w] = "locking"
    /\ holder = Free
    /\ holder' = w
    /\ pc' = [pc EXCEPT ![w] = "flushing"]
    /\ \E n \in 0..(MsgLen - reported[w]) :
        /\ given' = [given EXCEPT ![w] = n]
        /\ line' = line \o Rest(w, n)
    /\ UNCHANGED <<gone, reported, unsure, calls>>

(* io.write fails: nothing was taken. *)
DeviceRefuses(w) ==
    /\ pc[w] = "locking"
    /\ holder = Free
    /\ pc' = [pc EXCEPT ![w] = "idle"]
    /\ UNCHANGED <<line, gone, holder, given, reported, unsure, calls>>

(* Faulty variant: the count forgets the last byte. *)
WriteReturnsShort(w) ==
    /\ pc[w] = "flushing"
    /\ gone = Len(line)
    /\ holder' = Free
    /\ pc' = [pc EXCEPT ![w] = "idle"]
    /\ given' = [given EXCEPT ![w] = 0]
    /\ reported' = [reported EXCEPT ![w] =
                        IF given[w] > 0 THEN @ + given[w] - 1 ELSE @]
    /\ UNCHANGED <<line, gone, unsure, calls>>

(* io.flush returns when the operating system has sent everything. *)
WriteReturns(w) ==
    /\ pc[w] = "flushing"
    /\ gone = Len(line)
    /\ holder' = Free
    /\ pc' = [pc EXCEPT ![w] = "idle"]
    /\ given' = [given EXCEPT ![w] = 0]
    /\ reported' = [reported EXCEPT ![w] = @ + given[w]]
    /\ UNCHANGED <<line, gone, unsure, calls>>

(* io.flush fails: the client gets the error, without the count. *)
FlushFails(w) ==
    /\ pc[w] = "flushing"
    /\ holder' = Free
    /\ pc' = [pc EXCEPT ![w] = "idle"]
    /\ given' = [given EXCEPT ![w] = 0]
    /\ unsure' = unsure \cup {<<w, reported[w] + i>> : i \in 1..given[w]}
    /\ UNCHANGED <<line, gone, reported, calls>>

(* Faulty variant: the buffers are cleared without the mutex. *)
DiscardAnyTime ==
    /\ line' = SubSeq(line, 1, gone)
    /\ UNCHANGED <<gone, holder, pc, given, reported, unsure, calls>>

(* flush with target output or both: what has not left is dropped. *)
DiscardOutput ==
    /\ holder = Free
    /\ line' = SubSeq(line, 1, gone)
    /\ UNCHANGED <<gone, holder, pc, given, reported, unsure, calls>>

(* The device sends the next byte. *)
Transmit ==
    /\ gone < Len(line)
    /\ gone' = gone + 1
    /\ UNCHANGED <<line, holder, pc, given, reported, unsure, calls>>

Next ==
    \/ \E w \in Writer :
        \/ StartWrite(w) \/ DeviceTakes(w) \/ DeviceRefuses(w)
        \/ WriteReturns(w) \/ FlushFails(w)
    \/ DiscardOutput
    \/ Transmit

Spec == Init /\ [][Next]_vars

-----------------------------------------------------------------------------
(* Properties. *)

Byte == Writer \X (1..MsgLen)

TypeOK ==
    /\ line \in Seq(Byte)
    /\ gone \in 0..Len(line)
    /\ holder \in Writer \cup {Free}
    /\ pc \in [Writer -> {"idle", "locking", "flushing"}]
    /\ given \in [Writer -> 0..MsgLen]
    /\ reported \in [Writer -> 0..MsgLen]
    /\ unsure \subseteq Byte
    /\ calls \in [Writer -> 0..MaxCalls]

(* bytes_written counts bytes that have left: neither a short write nor a  *)
(* flush of the output that another client asks for while a write is under *)
(* way makes the count include bytes that are lost.                        *)
ReportedOnWire ==
    \A w \in Writer : \A i \in 1..reported[w] :
        \E k \in 1..gone : line[k] = <<w, i>>

(* A client that goes on after the bytes reported sends each byte once and *)
(* in order, however writers, failures and flushes interleave; a byte that *)
(* comes again, or after one that follows it, belongs to a write that      *)
(* returned an error although the device had taken bytes.                  *)
OutOfOrderOnlyAfterError ==
    \A k \in 1..Len(line) : \A j \in 1..(k - 1) :
        line[j][1] = line[k][1] /\ line[j][2] >= line[k][2] => line[k] \in unsure
=============================================================================
