--------------------------- MODULE ReceivedBytes ----------------------------
(***************************************************************************)
(* What becomes of the bytes a device sends: the tools that read from one  *)
(* connection at the same time (read, wait_for, blocking and background    *)
(* subscribe, the raw resource), flush, and every way a call can end.      *)
(*                                                                         *)
(* Bytes are numbered in the order they arrive.  One SerialConnection.read *)
(* that returns is one step here: it moves bytes from the front of the     *)
(* operating system's buffer, as many as are there and fit, or fewer.      *)
(* Which of a deadline, a cancellation and more bytes comes first is open. *)
(***************************************************************************)
EXTENDS Naturals, FiniteSets, SequencesExt

CONSTANTS Call,      \* calls of the reading tools
          Symbol,    \* values of bytes
          Pattern,   \* the pattern of wait_for
          MaxBytes,  \* max_bytes of a call, max_chunk_bytes of a subscribe
          NBytes     \* how many bytes the device sends

ASSUME ParameterAssumption ==
    /\ MaxBytes \in Nat \ {0} /\ NBytes \in Nat
    /\ Pattern \in Seq(Symbol) /\ Pattern # <<>>

VARIABLES
    data,      \* the value of each byte
    arrived,   \* how many bytes have arrived
    osBuf,     \* the operating system's input buffer
    pc,        \* where a call is
    tool,      \* which tool a call runs
    buf,       \* the bytes a call has read and not yet passed on
    result,    \* the bytes passed on to the client
    matchAt,   \* match_index of a wait_for that succeeded, 0 for none
    lost       \* bytes nobody will see: <<byte, call, reason>>

vars == <<data, arrived, osBuf, pc, tool, buf, result, matchAt, lost>>

Tool == {"read", "wait_for", "collect", "stream", "raw"}

Init ==
    /\ data \in [1..NBytes -> Symbol]
    /\ arrived = 0
    /\ osBuf = <<>>
    /\ pc = [c \in Call |-> "idle"]
    /\ tool = [c \in Call |-> "read"]
    /\ buf = [c \in Call |-> <<>>]
    /\ result = [c \in Call |-> <<>>]
    /\ matchAt = [c \in Call |-> 0]
    /\ lost = {}

(* The device sends its next byte. *)
Arrive ==
    /\ arrived < NBytes
    /\ arrived' = arrived + 1
    /\ osBuf' = Append(osBuf, arrived + 1)
    /\ UNCHANGED <<data, pc, tool, buf, result, matchAt, lost>>

(* flush with target input or both. *)
FlushInput ==
    /\ osBuf # <<>>
    /\ lost' = lost \cup {<<b, "client", "flush">> : b \in ToSet(osBuf)}
    /\ osBuf' = <<>>
    /\ UNCHANGED <<data, arrived, pc, tool, buf, result, matchAt>>

Start(c) ==
    /\ pc[c] = "idle"
    /\ \E x \in Tool : tool' = [tool EXCEPT ![c] = x]
    /\ pc' = [pc EXCEPT ![c] = "reading"]
    /\ UNCHANGED <<data, arrived, osBuf, buf, result, matchAt, lost>>

-----------------------------------------------------------------------------
Running(c, x) == pc[c] = "reading" /\ tool[c] = x

Room(c) == MaxBytes - Len(buf[c])

(* find_subslice, with positions from 1 and 0 for none. *)
Occurs(v, i) ==
    /\ i + Len(Pattern) - 1 <= Len(v)
    /\ \A k \in DOMAIN Pattern : v[i + k - 1] = Pattern[k]

FirstMatch(v) ==
    IF \E i \in DOMAIN v : Occurs(v, i)
    THEN CHOOSE i \in DOMAIN v : Occurs(v, i) /\ \A j \in 1..(i - 1) : ~ Occurs(v, j)
    ELSE 0

Values(s) == [k \in DOMAIN s |-> data[s[k]]]

(* What the search of a wait_for finds in its buffer. *)
Found(c) == FirstMatch(Values(buf[c]))

Return(c) == pc' = [pc EXCEPT ![c] = "returned"]

(* The call returns what it has read.  With response encoding utf8 the     *)
(* bytes may be refused, and the error carries none of them.               *)
Deliver(c) ==
    \/ /\ result' = [result EXCEPT ![c] = @ \o buf[c]]
       /\ buf' = [buf EXCEPT ![c] = <<>>]
       /\ UNCHANGED lost
    \/ /\ buf[c] # <<>>
       /\ lost' = lost \cup {<<b, c, "encoding">> : b \in ToSet(buf[c])}
       /\ buf' = [buf EXCEPT ![c] = <<>>]
       /\ UNCHANGED result

(* The call ends in an error: its buffer is dropped. *)
Discard(c, reason) ==
    /\ lost' = lost \cup {<<b, c, reason>> : b \in ToSet(buf[c])}
    /\ buf' = [buf EXCEPT ![c] = <<>>]
    /\ UNCHANGED result

(* Faulty variant: every read goes to the start of the buffer. *)
TakeOverwriting(c, n) ==
    /\ n <= Room(c)
    /\ buf' = [buf EXCEPT ![c] = SubSeq(osBuf, 1, n) \o SubSeq(@, n + 1, Len(@))]
    /\ osBuf' = SubSeq(osBuf, n + 1, Len(osBuf))
    /\ UNCHANGED <<data, arrived, pc, tool, result, matchAt, lost>>

(* Faulty variant: the last bytes to arrive are taken. *)
TakeNewest(c, n) ==
    /\ n <= Room(c)
    /\ buf' = [buf EXCEPT ![c] = @ \o SubSeq(osBuf, Len(osBuf) - n + 1, Len(osBuf))]
    /\ osBuf' = SubSeq(osBuf, 1, Len(osBuf) - n)
    /\ UNCHANGED <<data, arrived, pc, tool, result, matchAt, lost>>

(* Faulty variant: every read asks for max_bytes again. *)
TakeFull(c, n) ==
    /\ n <= MaxBytes
    /\ buf' = [buf EXCEPT ![c] = @ \o SubSeq(osBuf, 1, n)]
    /\ osBuf' = SubSeq(osBuf, n + 1, Len(osBuf))
    /\ UNCHANGED <<data, arrived, pc, tool, result, matchAt, lost>>

(* A read of the connection appends n bytes to the call's buffer. *)
Take(c, n) ==
    /\ n <= Room(c)
    /\ buf' = [buf EXCEPT ![c] = @ \o SubSeq(osBuf, 1, n)]
    /\ osBuf' = SubSeq(osBuf, n + 1, Len(osBuf))
    /\ UNCHANGED <<data, arrived, pc, tool, result, matchAt, lost>>

-----------------------------------------------------------------------------
(* read: the first bytes, then more while they keep coming; once there is  *)
(* a byte, a pause, the deadline or an error of the port all end it well.  *)
ReadTakes(c) == Running(c, "read") /\ \E n \in 1..Len(osBuf) : Take(c, n)

ReadReturns(c) ==
    /\ Running(c, "read")
    /\ buf[c] # <<>>
    /\ Return(c)
    /\ Deliver(c)
    /\ UNCHANGED <<data, arrived, osBuf, tool, matchAt>>

(* Faulty variant: the deadline is an error even when bytes were read. *)
ReadTimesOutLate(c) ==
    /\ Running(c, "read")
    /\ Return(c)
    /\ Discard(c, "timeout")
    /\ UNCHANGED <<data, arrived, osBuf, tool, matchAt>>

(* No byte came before the deadline. *)
ReadTimesOut(c) ==
    /\ Running(c, "read")
    /\ buf[c] = <<>>
    /\ Return(c)
    /\ Discard(c, "timeout")
    /\ UNCHANGED <<data, arrived, osBuf, tool, matchAt>>

(* An error of the port counts only before the first byte. *)
ReadFails(c) ==
    /\ Running(c, "read")
    /\ \/ Discard(c, "cancelled")
       \/ buf[c] = <<>> /\ Discard(c, "port error")
    /\ Return(c)
    /\ UNCHANGED <<data, arrived, osBuf, tool, matchAt>>

-----------------------------------------------------------------------------
(* wait_for: the match, then the size, then the deadline are looked at     *)
(* before each read; a cancellation comes first of all.                    *)
WaitTakes(c) ==
    /\ Running(c, "wait_for")
    /\ Found(c) = 0
    /\ \E n \in 1..Len(osBuf) : Take(c, n)

(* Faulty variant: the index where the match ends is reported. *)
WaitMatchesEnd(c) ==
    /\ Running(c, "wait_for")
    /\ Found(c) # 0
    /\ matchAt' = [matchAt EXCEPT ![c] = Found(c) + Len(Pattern)]
    /\ Return(c)
    /\ Deliver(c)
    /\ UNCHANGED <<data, arrived, osBuf, tool>>

WaitMatches(c) ==
    /\ Running(c, "wait_for")
    /\ Found(c) # 0
    /\ matchAt' = [matchAt EXCEPT ![c] = Found(c)]
    /\ Return(c)
    /\ Deliver(c)
    /\ UNCHANGED <<data, arrived, osBuf, tool>>

(* Faulty variant: the size is looked at before the match. *)
WaitFillsUpFirst(c) ==
    /\ Running(c, "wait_for")
    /\ Room(c) = 0
    /\ Return(c)
    /\ Deliver(c)
    /\ UNCHANGED <<data, arrived, osBuf, tool, matchAt>>

WaitFillsUp(c) ==
    /\ Running(c, "wait_for")
    /\ Found(c) = 0
    /\ Room(c) = 0
    /\ Return(c)
    /\ Deliver(c)
    /\ UNCHANGED <<data, arrived, osBuf, tool, matchAt>>

(* Faulty variant: the deadline is looked at before the bytes just read. *)
WaitTimesOutFirst(c) ==
    /\ Running(c, "wait_for")
    /\ Room(c) > 0
    /\ Return(c)
    /\ Discard(c, "timeout")
    /\ UNCHANGED <<data, arrived, osBuf, tool, matchAt>>

WaitTimesOut(c) ==
    /\ Running(c, "wait_for")
    /\ Found(c) = 0
    /\ Room(c) > 0
    /\ Return(c)
    /\ Discard(c, "timeout")
    /\ UNCHANGED <<data, arrived, osBuf, tool, matchAt>>

WaitFails(c) ==
    /\ Running(c, "wait_for")
    /\ \/ Discard(c, "cancelled")
       \/ Found(c) = 0 /\ Room(c) > 0 /\ Discard(c, "port error")
    /\ Return(c)
    /\ UNCHANGED <<data, arrived, osBuf, tool, matchAt>>

-----------------------------------------------------------------------------
(* subscribe with a timeout: whatever came by the deadline is the answer. *)
CollectTakes(c) ==
    /\ Running(c, "collect")
    /\ Room(c) > 0
    /\ \E n \in 1..Len(osBuf) : Take(c, n)

CollectReturns(c) ==
    /\ Running(c, "collect")
    /\ Return(c)
    /\ Deliver(c)
    /\ UNCHANGED <<data, arrived, osBuf, tool, matchAt>>

CollectFails(c) ==
    /\ Running(c, "collect")
    /\ Return(c)
    /\ \E reason \in {"cancelled", "port error"} : Discard(c, reason)
    /\ UNCHANGED <<data, arrived, osBuf, tool, matchAt>>

(* stream_rx: one read, one notification; a chunk that cannot be encoded   *)
(* is dropped with a warning and the stream goes on.                       *)
StreamTakes(c) ==
    /\ Running(c, "stream")
    /\ buf[c] = <<>>
    /\ \E n \in 1..Len(osBuf) : Take(c, n)

StreamNotifies(c) ==
    /\ Running(c, "stream")
    /\ buf[c] # <<>>
    /\ Deliver(c)
    /\ UNCHANGED <<data, arrived, osBuf, pc, tool, matchAt>>

(* The task is aborted, or its peer is gone, or the port fails it. *)
StreamEnds(c) ==
    /\ Running(c, "stream")
    /\ Return(c)
    /\ \/ \E reason \in {"aborted", "peer gone"} : Discard(c, reason)
       \/ buf[c] = <<>> /\ Discard(c, "port error")
    /\ UNCHANGED <<data, arrived, osBuf, tool, matchAt>>

(* The raw resource: one read of 100 ms, whose bytes are the answer. *)
RawTakes(c) ==
    /\ Running(c, "raw")
    /\ buf[c] = <<>>
    /\ \E n \in 1..Len(osBuf) : Take(c, n)

RawReturns(c) ==
    /\ Running(c, "raw")
    /\ Return(c)
    /\ result' = [result EXCEPT ![c] = buf[c]]
    /\ buf' = [buf EXCEPT ![c] = <<>>]
    /\ UNCHANGED <<data, arrived, osBuf, tool, matchAt, lost>>

Next ==
    \/ Arrive
    \/ FlushInput
    \/ \E c \in Call :
        \/ Start(c)
        \/ ReadTakes(c) \/ ReadReturns(c) \/ ReadTimesOut(c) \/ ReadFails(c)
        \/ WaitTakes(c) \/ WaitMatches(c) \/ WaitFillsUp(c) \/ WaitTimesOut(c) \/ WaitFails(c)
        \/ CollectTakes(c) \/ CollectReturns(c) \/ CollectFails(c)
        \/ StreamTakes(c) \/ StreamNotifies(c) \/ StreamEnds(c)
        \/ RawTakes(c) \/ RawReturns(c)

Spec == Init /\ [][Next]_vars
-----------------------------------------------------------------------------
(* Properties. *)

TypeOK ==
    /\ data \in [1..NBytes -> Symbol]
    /\ arrived \in 0..NBytes
    /\ osBuf \in Seq(1..NBytes)
    /\ pc \in [Call -> {"idle", "reading", "returned"}]
    /\ tool \in [Call -> Tool]
    /\ buf \in [Call -> Seq(1..NBytes)]
    /\ result \in [Call -> Seq(1..NBytes)]
    /\ matchAt \in [Call -> 0..MaxBytes]
    /\ \A l \in lost : l[1] \in 1..arrived

At(s, b) == {k \in DOMAIN s : s[k] = b}

(* Everywhere a byte is: in the buffer, with a call, with a client, or lost. *)
Places(b) ==
    {<<"os", k>> : k \in At(osBuf, b)}
    \cup (UNION {{<<"call", c, k>> : k \in At(buf[c], b)} : c \in Call})
    \cup (UNION {{<<"client", c, k>> : k \in At(result[c], b)} : c \in Call})
    \cup {<<"lost", l>> : l \in {x \in lost : x[1] = b}}

(* Every byte that arrived is in exactly one place: readers of one         *)
(* connection never get the same byte, and none vanishes without a cause.  *)
EveryByteOnce == \A b \in 1..arrived : Cardinality(Places(b)) = 1

Increasing(s) == \A j, k \in DOMAIN s : j < k => s[j] < s[k]

(* A reader sees the bytes it gets in the order the device sent them, and  *)
(* later bytes are never taken before earlier ones, however many readers   *)
(* share the connection.                                                   *)
InOrder ==
    /\ \A c \in Call : Increasing(result[c] \o buf[c])
    /\ \A k \in DOMAIN osBuf : osBuf[k] = arrived - Len(osBuf) + k

(* A deadline costs a client bytes in wait_for only: read times out before *)
(* the first byte or not at all, and a blocking subscribe answers with     *)
(* what it has.                                                            *)
OnlyWaitForLosesAtDeadline ==
    \A l \in lost : l[3] = "timeout" => tool[l[2]] = "wait_for"

(* The bytes that a call dropped for one of the reasons. *)
LostBy(c, reasons) == {l[1] : l \in {x \in lost : x[2] = c /\ x[3] \in reasons}}

(* The pattern is somewhere in the bytes B: in some of them, with no other *)
(* one of them in between.                                                 *)
Hides(B) ==
    \E at \in [DOMAIN Pattern -> B] :
        /\ \A k \in DOMAIN Pattern : data[at[k]] = Pattern[k]
        /\ \A k \in DOMAIN Pattern \ {1} :
              at[k - 1] < at[k] /\ \A b \in B : ~ (at[k - 1] < b /\ b < at[k])

(* A wait_for that ends without a match, at its deadline, by an error of   *)
(* the port or because it has read max_bytes, did not have its pattern in  *)
(* hand, however the bytes were split into reads: bytes that complete the  *)
(* match are a success even when they came with the deadline already over  *)
(* or filled the buffer.                                                   *)
NoMatchDropped ==
    \A c \in Call :
        tool[c] = "wait_for" =>
            /\ ~ Hides(LostBy(c, {"timeout", "port error"}))
            /\ matchAt[c] = 0 => ~ Hides(ToSet(result[c]))

(* No answer and no notification is longer than the client allowed. *)
AtMostMaxBytes ==
    \A c \in Call :
        /\ Len(buf[c]) <= MaxBytes
        /\ tool[c] # "stream" => Len(result[c]) <= MaxBytes

(* Which bytes wait, are in hand, have been passed on and are lost. *)
Waiting == ToSet(osBuf)
InHand == [c \in Call |-> ToSet(buf[c])]
PassedOn == [c \in Call |-> ToSet(result[c])]
Dropped == {l[1] : l \in lost}

Fates == INSTANCE ByteFates
    WITH waiting <- Waiting, held <- InHand, passed <- PassedOn, lost <- Dropped

(* Refinement: whatever the tools, their deadlines and cancellations, each *)
(* byte goes the way ByteFates promises, to one reader, the oldest first,  *)
(* and with all the others that reader has in hand.                        *)
FatesSpec == Fates!Spec

(* "If `wait_for` returns an error about timeout, surface the partial      *)
(* buffer": a wait_for that times out has a partial buffer to surface.     *)
TimeoutKeepsPartialBuffer == \A l \in lost : l[3] # "timeout"
=============================================================================
