--------------------------- MODULE SentBytesProofs ---------------------------
(***************************************************************************)
(* What write reports has left, and only a failed write is repeated:       *)
(* proved for any writers, message lengths and numbers of calls.           *)
(***************************************************************************)
EXTENDS SentBytes, TLAPS

(* The call that has handed bytes over holds the mutex, and no other.      *)
FlusherHolds == \A w \in Writer : pc[w] = "flushing" <=> holder = w

(* A call counts bytes only while it flushes. *)
CountFits ==
    \A w \in Writer :
        /\ reported[w] + given[w] <= MsgLen
        /\ pc[w] # "flushing" => given[w] = 0

(* What a call has handed over stays in line until the call ends.          *)
GivenInLine ==
    \A w \in Writer : \A i \in 1..given[w] :
        \E k \in 1..Len(line) : line[k] = <<w, reported[w] + i>>

(* Bytes beyond those reported or handed over were in a failed write. *)
BeyondUnsure ==
    \A k \in 1..Len(line) :
        \/ line[k][2] <= reported[line[k][1]] + given[line[k][1]]
        \/ line[k] \in unsure

(* A failed write began with the first byte not reported. *)
UnsureReachesBack ==
    \A w \in Writer : \A i, j \in 1..MsgLen :
        <<w, j>> \in unsure /\ reported[w] < i /\ i <= j => <<w, i>> \in unsure

IInv ==
    /\ TypeOK
    /\ FlusherHolds
    /\ CountFits
    /\ GivenInLine
    /\ ReportedOnWire
    /\ BeyondUnsure
    /\ UnsureReachesBack
    /\ OutOfOrderOnlyAfterError

-----------------------------------------------------------------------------
(* Elements of line are pairs of a writer and a position. *)
LEMMA BytePair ==
    ASSUME NEW s \in Seq(Byte), NEW k \in 1..Len(s)
    PROVE  /\ s[k] \in Byte
           /\ s[k][1] \in Writer
           /\ s[k][2] \in 1..MsgLen
           /\ s[k] = <<s[k][1], s[k][2]>>
  BY DEF Byte

(* What is appended when the device takes n bytes. *)
LEMMA RestAppended ==
    ASSUME NEW w \in Writer, NEW n \in Nat, NEW s \in Seq(Byte),
           reported[w] \in Nat, reported[w] + n <= MsgLen
    PROVE  /\ s \o Rest(w, n) \in Seq(Byte)
           /\ Len(s \o Rest(w, n)) = Len(s) + n
           /\ \A k \in 1..Len(s) : (s \o Rest(w, n))[k] = s[k]
           /\ \A i \in 1..n : (s \o Rest(w, n))[Len(s) + i] = <<w, reported[w] + i>>
<1>1. \A i \in 1..n : <<w, reported[w] + i>> \in Byte
  BY LengthAssumption DEF Byte
<1>2. Rest(w, n) \in Seq(Byte) /\ Len(Rest(w, n)) = n
  BY <1>1 DEF Rest
<1>3. \A i \in 1..n : Rest(w, n)[i] = <<w, reported[w] + i>>
  BY DEF Rest
<1>4. s \o Rest(w, n) \in Seq(Byte) /\ Len(s \o Rest(w, n)) = Len(s) + n
  BY <1>2
<1>5. \A k \in 1..Len(s) : (s \o Rest(w, n))[k] = s[k]
  BY <1>2
<1>6. \A i \in 1..n : (s \o Rest(w, n))[Len(s) + i] = Rest(w, n)[i]
  BY <1>2
<1> QED
  BY <1>3, <1>4, <1>5, <1>6

(* What is left when the output is discarded. *)
LEMMA Truncated ==
    ASSUME NEW s \in Seq(Byte), NEW n \in 0..Len(s)
    PROVE  /\ SubSeq(s, 1, n) \in Seq(Byte)
           /\ Len(SubSeq(s, 1, n)) = n
           /\ \A k \in 1..n : SubSeq(s, 1, n)[k] = s[k]
  OBVIOUS

-----------------------------------------------------------------------------
LEMMA TypeInit == Init => IInv
  BY WriterAssumption, LengthAssumption
     DEF Init, IInv, TypeOK, FlusherHolds, CountFits, GivenInLine, ReportedOnWire,
         BeyondUnsure, UnsureReachesBack, OutOfOrderOnlyAfterError, Byte

(* The steps that only move a call along. *)
LEMMA StartStep == ASSUME IInv, NEW w \in Writer, StartWrite(w) PROVE IInv'
<1>1. TypeOK'
  BY LengthAssumption DEF StartWrite, IInv, TypeOK
<1>2. FlusherHolds' /\ CountFits'
  BY WriterAssumption DEF StartWrite, IInv, TypeOK, FlusherHolds, CountFits
<1>3. GivenInLine' /\ ReportedOnWire' /\ BeyondUnsure' /\ UnsureReachesBack'
         /\ OutOfOrderOnlyAfterError'
  BY DEF StartWrite, IInv, GivenInLine, ReportedOnWire, BeyondUnsure,
         UnsureReachesBack, OutOfOrderOnlyAfterError
<1> QED
  BY <1>1, <1>2, <1>3 DEF IInv

LEMMA RefuseStep == ASSUME IInv, NEW w \in Writer, DeviceRefuses(w) PROVE IInv'
<1>1. TypeOK'
  BY DEF DeviceRefuses, IInv, TypeOK
<1>2. FlusherHolds' /\ CountFits'
  BY WriterAssumption DEF DeviceRefuses, IInv, TypeOK, FlusherHolds, CountFits
<1>3. GivenInLine' /\ ReportedOnWire' /\ BeyondUnsure' /\ UnsureReachesBack'
         /\ OutOfOrderOnlyAfterError'
  BY DEF DeviceRefuses, IInv, GivenInLine, ReportedOnWire, BeyondUnsure,
         UnsureReachesBack, OutOfOrderOnlyAfterError
<1> QED
  BY <1>1, <1>2, <1>3 DEF IInv

LEMMA TakeStep == ASSUME IInv, NEW w \in Writer, DeviceTakes(w) PROVE IInv'
<1> USE LengthAssumption, WriterAssumption
<1>1. PICK n \in 0..(MsgLen - reported[w]) :
          /\ given' = [given EXCEPT ![w] = n]
          /\ line' = line \o Rest(w, n)
  BY DEF DeviceTakes
<1>2. /\ n \in Nat /\ reported[w] \in Nat /\ reported[w] + n <= MsgLen
      /\ line \in Seq(Byte)
  BY DEF IInv, TypeOK
<1>3. /\ line' \in Seq(Byte)
      /\ Len(line') = Len(line) + n
      /\ \A k \in 1..Len(line) : line'[k] = line[k]
      /\ \A i \in 1..n : line'[Len(line) + i] = <<w, reported[w] + i>>
  BY <1>1, <1>2, RestAppended
<1>4. /\ UNCHANGED <<gone, reported, unsure, calls>>
      /\ holder = Free /\ holder' = w /\ pc[w] = "locking"
      /\ pc' = [pc EXCEPT ![w] = "flushing"]
  BY DEF DeviceTakes
<1>5. TypeOK'
  BY <1>1, <1>2, <1>3, <1>4 DEF IInv, TypeOK
<1>6. FlusherHolds' /\ CountFits'
  BY <1>1, <1>2, <1>4 DEF IInv, TypeOK, FlusherHolds, CountFits
<1>7. \A v \in Writer : v # w => given[v] = 0 /\ given'[v] = 0
  BY <1>1, <1>4 DEF IInv, TypeOK, FlusherHolds, CountFits
<1>8. GivenInLine'
  <2> SUFFICES ASSUME NEW v \in Writer, NEW i \in 1..given'[v]
               PROVE  \E k \in 1..Len(line') : line'[k] = <<v, reported[v] + i>>
    BY <1>4 DEF GivenInLine
  <2>1. v = w /\ i \in 1..n
    BY <1>1, <1>7 DEF IInv, TypeOK
  <2>2. Len(line) + i \in 1..Len(line')
    BY <1>2, <1>3, <2>1
  <2> QED
    BY <1>3, <2>1, <2>2
<1>9. ReportedOnWire'
  <2>1. \A k \in 1..gone : line'[k] = line[k]
    BY <1>2, <1>3 DEF IInv, TypeOK
  <2> QED
    BY <1>4, <2>1 DEF IInv, ReportedOnWire
<1>10. BeyondUnsure'
  <2> SUFFICES ASSUME NEW k \in 1..Len(line')
               PROVE  \/ line'[k][2] <= reported[line'[k][1]] + given'[line'[k][1]]
                      \/ line'[k] \in unsure
    BY <1>4 DEF BeyondUnsure
  <2>1. CASE k \in 1..Len(line)
    <3>1. /\ line'[k] = line[k]
          /\ line[k][1] \in Writer /\ line[k][2] \in 1..MsgLen
      BY <1>2, <1>3, <2>1, BytePair
    <3>2. \/ line[k] \in unsure
          \/ line[k][2] <= reported[line[k][1]] + given[line[k][1]]
      BY <2>1 DEF IInv, BeyondUnsure
    <3>3. \A v \in Writer : given[v] = 0
      BY <1>4, <1>7 DEF IInv, CountFits
    <3>4. \A v \in Writer : reported[v] \in Nat /\ given'[v] \in Nat
      BY <1>4, <1>5 DEF IInv, TypeOK
    <3> QED
      BY <3>1, <3>2, <3>3, <3>4
  <2>2. CASE k \notin 1..Len(line)
    <3>1. PICK i \in 1..n : k = Len(line) + i
      <4>1. k - Len(line) \in 1..n
        BY <1>2, <1>3, <2>2
      <4>2. k = Len(line) + (k - Len(line))
        BY <1>2, <1>3
      <4> QED
        BY <4>1, <4>2
    <3>2. line'[k] = <<w, reported[w] + i>>
      BY <1>3, <3>1
    <3>3. given'[w] = n
      BY <1>1, <1>2 DEF IInv, TypeOK
    <3> QED
      BY <1>2, <3>2, <3>3
  <2> QED
    BY <2>1, <2>2
<1>11. UnsureReachesBack'
  BY <1>4 DEF IInv, UnsureReachesBack
<1>12. OutOfOrderOnlyAfterError'
  <2> SUFFICES ASSUME NEW k \in 1..Len(line'), NEW j \in 1..(k - 1),
                      line'[j][1] = line'[k][1], line'[j][2] >= line'[k][2]
               PROVE  line'[k] \in unsure
    BY <1>4 DEF OutOfOrderOnlyAfterError
  <2>1. CASE k \in 1..Len(line)
    BY <1>2, <1>3, <2>1 DEF IInv, OutOfOrderOnlyAfterError
  <2>2. CASE k \notin 1..Len(line)
    <3>1. PICK i \in 1..n : k = Len(line) + i
      <4>1. k - Len(line) \in 1..n
        BY <1>2, <1>3, <2>2
      <4>2. k = Len(line) + (k - Len(line))
        BY <1>2, <1>3
      <4> QED
        BY <4>1, <4>2
    <3>2. line'[k] = <<w, reported[w] + i>>
      BY <1>3, <3>1
    <3>3. CASE j \in 1..Len(line)
      <4>1. /\ line'[j] = line[j] /\ line[j][1] = w
            /\ line[j][2] \in 1..MsgLen /\ line[j] = <<w, line[j][2]>>
            /\ line[j][2] >= reported[w] + i
        BY <1>2, <1>3, <3>2, <3>3, BytePair
      <4>2. given[w] = 0
        BY <1>4 DEF IInv, CountFits
      <4>3. line[j] \in unsure
        <5>1. \/ line[j] \in unsure
              \/ line[j][2] <= reported[w] + given[w]
          BY <3>3, <4>1 DEF IInv, BeyondUnsure
        <5> QED
          BY <1>2, <4>1, <4>2, <5>1
      <4>4. reported[w] + i \in 1..MsgLen /\ reported[w] < reported[w] + i
        BY <1>2
      <4> QED
        BY <3>2, <4>1, <4>3, <4>4 DEF IInv, UnsureReachesBack
    <3>4. CASE j \notin 1..Len(line)
      <4>1. j - Len(line) \in 1..n /\ j - Len(line) < i
        BY <1>2, <1>3, <3>1, <3>4
      <4>2. line'[Len(line) + (j - Len(line))] = <<w, reported[w] + (j - Len(line))>>
        BY <1>3, <4>1
      <4>3. line'[j][2] = reported[w] + (j - Len(line))
        BY <1>2, <4>2
      <4> QED
        BY <1>2, <3>2, <4>1, <4>3
    <3> QED
      BY <3>3, <3>4
  <2> QED
    BY <2>1, <2>2
<1> QED
  BY <1>5, <1>6, <1>8, <1>9, <1>10, <1>11, <1>12 DEF IInv

LEMMA ReturnStep == ASSUME IInv, NEW w \in Writer, WriteReturns(w) PROVE IInv'
<1> USE LengthAssumption, WriterAssumption
<1>1. /\ pc[w] = "flushing" /\ gone = Len(line) /\ holder' = Free
      /\ pc' = [pc EXCEPT ![w] = "idle"]
      /\ given' = [given EXCEPT ![w] = 0]
      /\ reported' = [reported EXCEPT ![w] = @ + given[w]]
      /\ UNCHANGED <<line, gone, unsure, calls>>
  BY DEF WriteReturns
<1>2. TypeOK'
  BY <1>1 DEF IInv, TypeOK, CountFits
<1>3. FlusherHolds' /\ CountFits'
  BY <1>1 DEF IInv, TypeOK, FlusherHolds, CountFits
<1>4. \A v \in Writer : reported'[v] + given'[v] = reported[v] + given[v]
  BY <1>1 DEF IInv, TypeOK
<1>5. GivenInLine'
  <2> SUFFICES ASSUME NEW v \in Writer, NEW i \in 1..given'[v]
               PROVE  \E k \in 1..Len(line) : line[k] = <<v, reported'[v] + i>>
    BY <1>1 DEF GivenInLine
  <2>1. v # w
    BY <1>1 DEF IInv, TypeOK
  <2>2. given'[v] = given[v] /\ reported'[v] = reported[v]
    BY <1>1, <2>1 DEF IInv, TypeOK
  <2> QED
    BY <2>2 DEF IInv, GivenInLine
<1>6. ReportedOnWire'
  <2> SUFFICES ASSUME NEW v \in Writer, NEW i \in 1..reported'[v]
               PROVE  \E k \in 1..gone : line[k] = <<v, i>>
    BY <1>1 DEF ReportedOnWire
  <2>1. CASE i \in 1..reported[v]
    BY <2>1 DEF IInv, ReportedOnWire
  <2>2. CASE i \notin 1..reported[v]
    <3>1. v = w /\ i - reported[w] \in 1..given[w]
      BY <1>1, <2>2 DEF IInv, TypeOK
    <3>2. \E k \in 1..Len(line) : line[k] = <<w, reported[w] + (i - reported[w])>>
      BY <3>1 DEF IInv, GivenInLine
    <3>3. reported[w] + (i - reported[w]) = i
      BY <1>1 DEF IInv, TypeOK
    <3> QED
      BY <1>1, <3>1, <3>2, <3>3
  <2> QED
    BY <2>1, <2>2
<1>7. BeyondUnsure'
  <2> SUFFICES ASSUME NEW k \in 1..Len(line)
               PROVE  \/ line[k][2] <= reported'[line[k][1]] + given'[line[k][1]]
                      \/ line[k] \in unsure
    BY <1>1 DEF BeyondUnsure
  <2>1. line[k][1] \in Writer
    BY BytePair DEF IInv, TypeOK
  <2> QED
    BY <1>4, <2>1 DEF IInv, BeyondUnsure
<1>8. UnsureReachesBack'
  <2>1. \A v \in Writer : reported[v] \in Nat /\ reported[v] <= reported'[v]
                            /\ reported'[v] \in Nat
    BY <1>1 DEF IInv, TypeOK
  <2> QED
    BY <1>1, <2>1 DEF IInv, UnsureReachesBack
<1>9. OutOfOrderOnlyAfterError'
  BY <1>1 DEF IInv, OutOfOrderOnlyAfterError
<1> QED
  BY <1>2, <1>3, <1>5, <1>6, <1>7, <1>8, <1>9 DEF IInv

LEMMA FailStep == ASSUME IInv, NEW w \in Writer, FlushFails(w) PROVE IInv'
<1> USE LengthAssumption, WriterAssumption
<1> DEFINE new == {<<w, reported[w] + i>> : i \in 1..given[w]}
<1>1. /\ pc[w] = "flushing" /\ holder' = Free
      /\ pc' = [pc EXCEPT ![w] = "idle"]
      /\ given' = [given EXCEPT ![w] = 0]
      /\ unsure' = unsure \cup new
      /\ UNCHANGED <<line, gone, reported, calls>>
  BY DEF FlushFails
<1>2. new \subseteq Byte
  BY DEF IInv, TypeOK, CountFits, Byte
<1>3. TypeOK'
  BY <1>1, <1>2 DEF IInv, TypeOK
<1>4. FlusherHolds' /\ CountFits'
  BY <1>1 DEF IInv, TypeOK, FlusherHolds, CountFits
<1>5. GivenInLine' /\ ReportedOnWire'
  <2>1. \A v \in Writer : 1..given'[v] \subseteq 1..given[v]
    BY <1>1 DEF IInv, TypeOK
  <2> QED
    BY <1>1, <2>1 DEF IInv, GivenInLine, ReportedOnWire
<1>6. BeyondUnsure'
  <2> SUFFICES ASSUME NEW k \in 1..Len(line)
               PROVE  \/ line[k][2] <= reported[line[k][1]] + given'[line[k][1]]
                      \/ line[k] \in unsure'
    BY <1>1 DEF BeyondUnsure
  <2>1. /\ line[k][1] \in Writer /\ line[k][2] \in 1..MsgLen
        /\ line[k] = <<line[k][1], line[k][2]>>
    BY BytePair DEF IInv, TypeOK
  <2>2. CASE line[k][1] # w
    BY <1>1, <2>1, <2>2 DEF IInv, TypeOK, BeyondUnsure
  <2>3. CASE line[k][1] = w
    <3>1. \/ line[k][2] <= reported[w]
          \/ line[k][2] - reported[w] \in 1..given[w]
          \/ line[k] \in unsure
      BY <2>1, <2>3 DEF IInv, TypeOK, BeyondUnsure
    <3>2. ASSUME line[k][2] - reported[w] \in 1..given[w] PROVE line[k] \in new
      <4>1. reported[w] + (line[k][2] - reported[w]) = line[k][2]
        BY <2>1 DEF IInv, TypeOK
      <4>2. line[k] = <<w, reported[w] + (line[k][2] - reported[w])>>
        BY <2>1, <2>3, <4>1
      <4> QED
        BY <3>2, <4>2
    <3> QED
      BY <1>1, <2>1, <2>3, <3>1, <3>2 DEF IInv, TypeOK
  <2> QED
    BY <2>2, <2>3
<1>7. UnsureReachesBack'
  <2> SUFFICES ASSUME NEW v \in Writer, NEW i \in 1..MsgLen, NEW j \in 1..MsgLen,
                      <<v, j>> \in unsure', reported[v] < i, i <= j
               PROVE  <<v, i>> \in unsure'
    BY <1>1 DEF UnsureReachesBack
  <2>1. CASE <<v, j>> \in unsure
    BY <1>1, <2>1 DEF IInv, UnsureReachesBack
  <2>2. CASE <<v, j>> \in new
    <3>1. v = w /\ i - reported[w] \in 1..given[w]
      BY <2>2 DEF IInv, TypeOK
    <3>2. <<w, reported[w] + (i - reported[w])>> \in new
      BY <3>1
    <3> QED
      BY <1>1, <3>1, <3>2 DEF IInv, TypeOK
  <2> QED
    BY <1>1, <2>1, <2>2
<1>8. OutOfOrderOnlyAfterError'
  BY <1>1 DEF IInv, OutOfOrderOnlyAfterError
<1> QED
  BY <1>3, <1>4, <1>5, <1>6, <1>7, <1>8 DEF IInv

LEMMA DiscardStep == ASSUME IInv, DiscardOutput PROVE IInv'
<1> USE LengthAssumption, WriterAssumption
<1>1. /\ holder = Free /\ line' = SubSeq(line, 1, gone)
      /\ UNCHANGED <<gone, holder, pc, given, reported, unsure, calls>>
  BY DEF DiscardOutput
<1>2. /\ line \in Seq(Byte) /\ gone \in 0..Len(line)
  BY DEF IInv, TypeOK
<1>3. /\ line' \in Seq(Byte) /\ Len(line') = gone
      /\ \A k \in 1..gone : line'[k] = line[k]
  BY <1>1, <1>2, Truncated
<1>4. \A k \in 1..gone : k \in 1..Len(line)
  BY <1>2
<1>5. TypeOK'
  BY <1>1, <1>2, <1>3 DEF IInv, TypeOK
<1>6. FlusherHolds' /\ CountFits' /\ UnsureReachesBack'
  BY <1>1 DEF IInv, FlusherHolds, CountFits, UnsureReachesBack
<1>7. GivenInLine'
  <2>1. \A v \in Writer : pc[v] # "flushing"
    BY <1>1, WriterAssumption DEF IInv, FlusherHolds
  <2>2. \A v \in Writer : given[v] = 0
    BY <2>1 DEF IInv, CountFits
  <2> QED
    BY <1>1, <2>2 DEF GivenInLine
<1>8. ReportedOnWire'
  BY <1>1, <1>3 DEF IInv, ReportedOnWire
<1>9. BeyondUnsure'
  BY <1>1, <1>3, <1>4 DEF IInv, BeyondUnsure
<1>10. OutOfOrderOnlyAfterError'
  BY <1>1, <1>2, <1>3, <1>4 DEF IInv, OutOfOrderOnlyAfterError
<1> QED
  BY <1>5, <1>6, <1>7, <1>8, <1>9, <1>10 DEF IInv

LEMMA TransmitStep == ASSUME IInv, Transmit PROVE IInv'
<1>1. TypeOK'
  BY DEF Transmit, IInv, TypeOK
<1>2. FlusherHolds' /\ CountFits' /\ GivenInLine' /\ BeyondUnsure' /\ UnsureReachesBack'
         /\ OutOfOrderOnlyAfterError'
  BY DEF Transmit, IInv, FlusherHolds, CountFits, GivenInLine, BeyondUnsure,
         UnsureReachesBack, OutOfOrderOnlyAfterError
<1>3. ReportedOnWire'
  <2>1. \A k \in 1..gone : k \in 1..gone'
    BY DEF Transmit, IInv, TypeOK
  <2> QED
    BY <2>1 DEF Transmit, IInv, ReportedOnWire
<1> QED
  BY <1>1, <1>2, <1>3 DEF IInv

LEMMA Invariance == Spec => []IInv
<1>1. IInv /\ [Next]_vars => IInv'
  <2> SUFFICES ASSUME IInv, [Next]_vars PROVE IInv'
    OBVIOUS
  <2>1. CASE UNCHANGED vars
    BY <2>1 DEF vars, IInv, TypeOK, FlusherHolds, CountFits, GivenInLine,
       ReportedOnWire, BeyondUnsure, UnsureReachesBack, OutOfOrderOnlyAfterError
  <2> QED
    BY <2>1, StartStep, TakeStep, RefuseStep, ReturnStep, FailStep, DiscardStep,
       TransmitStep DEF Next
<1> QED
  BY <1>1, TypeInit, PTL DEF Spec

(* The variables of the write tool keep their types. *)
THEOREM TypeCorrect == Spec => []TypeOK
  BY Invariance, PTL DEF IInv

(* Every byte that write counts has left for the device. *)
THEOREM ReportedBytesLeft == Spec => []ReportedOnWire
  BY Invariance, PTL DEF IInv

(* Only bytes of failed writes come twice or late. *)
THEOREM InOrderUnlessRepeated == Spec => []OutOfOrderOnlyAfterError
  BY Invariance, PTL DEF IInv
=============================================================================
