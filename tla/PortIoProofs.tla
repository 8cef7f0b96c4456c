----------------------------- MODULE PortIoProofs ----------------------------
(***************************************************************************)
(* Who holds the io mutex and waits for it, and how long a call can wait,  *)
(* proved for any numbers of readers and writers and any timeouts: a       *)
(* queued call is overtaken by nobody, and each reader ahead of it keeps   *)
(* the mutex for one slice.                                                *)
(***************************************************************************)
EXTENDS PortIo, FiniteSetTheorems, TLAPS

(* The readers that will use a slice before c gets the mutex. *)
Ahead(c) ==
    {r \in Reader :
        \/ r = holder /\ ~ expired
        \/ \E i, j \in 1..Len(queue) : i < j /\ queue[i] = r /\ queue[j] = c}

(* The slices that can pass before c is done with its turn. *)
Due(c) ==
    IF pc[c] = "queued" THEN Cardinality(Ahead(c)) + (IF c \in Reader THEN 1 ELSE 0)
    ELSE IF (pc[c] = "polling" /\ ~ expired) \/ pc[c] = "dozing" THEN 1
    ELSE 0

Limit(c) ==
    IF c \in Writer THEN Cardinality(Reader) ELSE asked[c] + Cardinality(Reader) - 1

Punctual == \A c \in Call : pc[c] # "idle" => age[c] + Due(c) <= Limit(c)

(* Until a read's deadline it has aged by what it has used of its timeout. *)
LeftFits ==
    \A r \in Reader : pc[r] # "idle" /\ left[r] > 0 => age[r] + left[r] <= asked[r]

IInv ==
    /\ TypeOK
    /\ QueueShape
    /\ HolderShape
    /\ LeftFits

(* What the bounds on waiting need besides: readers can be counted. *)
Prompt == IsFiniteSet(Reader) /\ Punctual

-----------------------------------------------------------------------------
(* Counting the readers ahead. *)
LEMMA AheadFinite ==
    ASSUME IsFiniteSet(Reader), NEW c
    PROVE  /\ IsFiniteSet(Ahead(c))
           /\ Cardinality(Ahead(c)) \in Nat
           /\ Cardinality(Reader) \in Nat
           /\ Cardinality(Ahead(c)) <= Cardinality(Reader)
<1>1. Ahead(c) \in SUBSET Reader
  BY DEF Ahead
<1> QED
  BY <1>1, FS_Subset, FS_CardinalityType

LEMMA AheadFinitePrimed ==
    ASSUME IsFiniteSet(Reader), NEW c
    PROVE  /\ IsFiniteSet(Ahead(c)')
           /\ Cardinality(Ahead(c)') \in Nat
           /\ Cardinality(Ahead(c)') <= Cardinality(Reader)
<1>1. Ahead(c)' \in SUBSET Reader
  BY DEF Ahead
<1> QED
  BY <1>1, FS_Subset, FS_CardinalityType

(* The caller is not ahead of itself, so that one reader less is. *)
LEMMA OthersAhead ==
    ASSUME IsFiniteSet(Reader), NEW c \in Reader, c \notin Ahead(c)'
    PROVE  /\ Cardinality(Reader) >= 1
           /\ Cardinality(Ahead(c)') <= Cardinality(Reader) - 1
<1>1. Ahead(c)' \in SUBSET (Reader \ {c})
  BY DEF Ahead
<1>2. /\ IsFiniteSet(Reader \ {c})
      /\ Cardinality(Reader \ {c}) = Cardinality(Reader) - 1
  BY FS_RemoveElement
<1>3. Cardinality(Reader \ {c}) \in Nat /\ Cardinality(Reader) \in Nat
  BY <1>2, FS_CardinalityType
<1> QED
  BY <1>1, <1>2, <1>3, FS_Subset

(* A step that lets nobody pass c and resets no expired poll brings c      *)
(* closer.                                                                 *)
LEMMA DueShrinks ==
    ASSUME IsFiniteSet(Reader), NEW c \in Call, pc'[c] = pc[c],
           pc[c] = "queued" => Ahead(c)' \subseteq Ahead(c),
           pc[c] = "polling" => (expired => expired')
    PROVE  Due(c)' <= Due(c) /\ Due(c) \in Nat /\ Due(c)' \in Nat
<1>1. Cardinality(Ahead(c)) \in Nat /\ Cardinality(Ahead(c)') \in Nat
  BY AheadFinite, AheadFinitePrimed
<1>2. CASE pc[c] = "queued"
  <2>1. Cardinality(Ahead(c)') <= Cardinality(Ahead(c))
    BY <1>2, AheadFinite, FS_Subset
  <2> QED
    BY <1>1, <1>2, <2>1 DEF Due
<1>3. CASE pc[c] # "queued"
  BY <1>3 DEF Due
<1> QED
  BY <1>2, <1>3

LEMMA DueNat ==
    ASSUME TypeOK, IsFiniteSet(Reader), NEW c \in Call
    PROVE  Due(c) \in Nat /\ Limit(c) \in Int
<1>1. c \in Reader => asked[c] \in Int
  BY BoundAssumption DEF TypeOK
<1> QED
  BY <1>1, AheadFinite DEF Due, Limit, Call

(* The limit of a call is fixed when it begins. *)
LEMMA LimitFixed ==
    ASSUME NEW c \in Call, c \in Reader => asked'[c] = asked[c]
    PROVE  Limit(c)' = Limit(c)
  BY TaskAssumption DEF Limit, Call

(* A step that ages nobody, moves only the call a, and lets nobody pass.   *)
LEMMA OthersPunctual ==
    ASSUME IInv, Prompt, NEW a \in Call,
           UNCHANGED <<asked, age>>,
           \A c \in Call \ {a} :
              /\ pc'[c] = pc[c]
              /\ pc[c] = "queued" => Ahead(c)' \subseteq Ahead(c)
              /\ pc[c] = "polling" => (expired => expired'),
           pc'[a] # "idle" => age[a] + Due(a)' <= Limit(a)
    PROVE  Punctual'
<1> SUFFICES ASSUME NEW c \in Call, pc'[c] # "idle"
             PROVE  age'[c] + Due(c)' <= Limit(c)
  BY LimitFixed DEF Punctual
<1>1. CASE c = a
  BY <1>1
<1>2. CASE c # a
  <2>1. Due(c)' <= Due(c) /\ Due(c) \in Nat /\ Due(c)' \in Nat
    BY <1>2, DueShrinks DEF Prompt
  <2>2. age[c] \in Nat /\ age[c] + Due(c) <= Limit(c) /\ Limit(c) \in Int
    BY <1>2, DueNat DEF IInv, Prompt, TypeOK, Punctual
  <2> QED
    BY <2>1, <2>2
<1> QED
  BY <1>1, <1>2

-----------------------------------------------------------------------------
LEMMA InitIInv == Init => IInv /\ Punctual
<1> SUFFICES ASSUME Init PROVE IInv /\ Punctual
  OBVIOUS
<1>1. queue \in Seq(Call) /\ 1..Len(queue) = {}
  BY DEF Init
<1>2. TypeOK
  <2>1. left \in [Reader -> 0..MaxSlices] /\ age \in [Call -> 0..Cap]
    BY BoundAssumption DEF Init
  <2>2. pc \in [Call -> {"idle", "checking", "queued", "polling", "sleeping", "dozing",
                        "writing"}]
    BY DEF Init
  <2> QED
    BY <1>1, <2>1, <2>2 DEF Init, TypeOK
<1>3. QueueShape /\ HolderShape /\ LeftFits /\ Punctual
  BY <1>1, TaskAssumption
     DEF Init, QueueShape, HolderShape, LeftFits, Punctual, Call
<1> QED
  BY <1>2, <1>3 DEF IInv

(* A read begins, and asks for the mutex while time is left. *)
LEMMA StartReadStep ==
    ASSUME IInv, NEW r \in Reader, StartRead(r)
    PROVE  IInv' /\ (Prompt => Punctual')
<1> USE TaskAssumption, BoundAssumption DEF StartRead, Goto, Call
<1>1. PICK n \in 1..MaxSlices : /\ asked' = [asked EXCEPT ![r] = n]
                               /\ left' = [left EXCEPT ![r] = n]
  OBVIOUS
<1>2. TypeOK' /\ QueueShape' /\ HolderShape'
  BY <1>1 DEF IInv, TypeOK, QueueShape, HolderShape
<1>3. LeftFits'
  BY <1>1 DEF IInv, TypeOK, LeftFits
<1>4. ASSUME Prompt PROVE Punctual'
  <2>1. Cardinality(Reader) \in Nat /\ Cardinality(Reader) >= 1
    <3>1. Cardinality(Reader) # 0
      BY <1>4, FS_EmptySet DEF Prompt
    <3> QED
      BY <1>4, <3>1, FS_CardinalityType DEF Prompt
  <2> SUFFICES ASSUME NEW c \in Call, pc'[c] # "idle"
               PROVE  age'[c] + Due(c)' <= Limit(c)'
    BY DEF Punctual
  <2>2. CASE c = r
    <3>1. age'[r] = 0 /\ Due(r)' = 0 /\ asked'[r] = n
      BY <1>1 DEF IInv, TypeOK, Due
    <3>2. Limit(r)' = n + Cardinality(Reader) - 1
      BY <3>1 DEF Limit
    <3> QED
      BY <2>1, <2>2, <3>1, <3>2
  <2>3. CASE c # r
    <3>1. pc'[c] = pc[c] /\ age'[c] = age[c]
      BY <2>3 DEF IInv, TypeOK
    <3>2. Ahead(c)' = Ahead(c)
      BY DEF Ahead
    <3>3. Due(c)' <= Due(c) /\ Due(c) \in Nat /\ Due(c)' \in Nat
      BY <1>4, <3>1, <3>2, DueShrinks DEF Prompt
    <3>4. Limit(c)' = Limit(c)
      BY <1>1, <2>3, LimitFixed DEF IInv, TypeOK
    <3> QED
      BY <1>4, <3>1, <3>3, <3>4, DueNat DEF IInv, Prompt, TypeOK, Punctual
  <2> QED
    BY <2>2, <2>3
<1> QED
  BY <1>2, <1>3, <1>4 DEF IInv

(* What Append does to the queue of waiting calls. *)
LEMMA Appended ==
    ASSUME IInv, NEW a \in Call, queue' = Append(queue, a), pc[a] # "queued",
           pc' = [pc EXCEPT ![a] = "queued"], UNCHANGED <<holder, expired>>
    PROVE  /\ queue' \in Seq(Call)
           /\ QueueShape'
           /\ \A c \in Call \ {a} : Ahead(c)' \subseteq Ahead(c)
           /\ \A i, j \in 1..Len(queue') : i < j => queue'[i] # a
<1>1. queue \in Seq(Call)
  BY DEF IInv, TypeOK
<1>2. /\ queue' \in Seq(Call) /\ Len(queue') = Len(queue) + 1
      /\ \A i \in 1..Len(queue) : queue'[i] = queue[i]
      /\ queue'[Len(queue) + 1] = a
  BY <1>1
<1>3. \A i \in 1..Len(queue) : queue[i] # a
  BY DEF IInv, QueueShape
<1>4. \A i \in 1..Len(queue') : i \in 1..Len(queue) \/ i = Len(queue) + 1
  BY <1>1, <1>2
<1>5. 1..Len(queue) \subseteq 1..Len(queue') /\ Len(queue) + 1 \in 1..Len(queue')
  BY <1>1, <1>2
<1>6. QueueShape'
  <2>1. \A i, j \in 1..Len(queue') : queue'[i] = queue'[j] => i = j
    BY <1>2, <1>3, <1>4 DEF IInv, QueueShape
  <2>2. \A c \in Call : pc'[c] = "queued" <=> \E i \in 1..Len(queue') : queue'[i] = c
    <3> SUFFICES ASSUME NEW c \in Call
                 PROVE  pc'[c] = "queued" <=> \E i \in 1..Len(queue') : queue'[i] = c
      OBVIOUS
    <3>1. CASE c = a
      BY <1>2, <1>5, <3>1 DEF IInv, TypeOK
    <3>2. CASE c # a
      <4>1. pc'[c] = pc[c]
        BY <3>2 DEF IInv, TypeOK
      <4> QED
        BY <1>2, <1>4, <1>5, <3>2, <4>1 DEF IInv, QueueShape
    <3> QED
      BY <3>1, <3>2
  <2> QED
    BY <2>1, <2>2 DEF QueueShape
<1>7. ASSUME NEW c \in Call \ {a} PROVE Ahead(c)' \subseteq Ahead(c)
  <2> SUFFICES ASSUME NEW r \in Ahead(c)' PROVE r \in Ahead(c)
    OBVIOUS
  <2>1. r \in Reader
    BY DEF Ahead
  <2>2. CASE r = holder /\ ~ expired
    BY <2>1, <2>2 DEF Ahead
  <2>3. CASE \E i, j \in 1..Len(queue') : i < j /\ queue'[i] = r /\ queue'[j] = c
    <3>1. PICK i \in 1..Len(queue'), j \in 1..Len(queue') :
              i < j /\ queue'[i] = r /\ queue'[j] = c
      BY <2>3
    <3>2. j \in 1..Len(queue)
      BY <1>2, <1>4, <3>1
    <3>3. i \in 1..Len(queue)
      BY <1>1, <3>1, <3>2
    <3> QED
      BY <1>2, <2>1, <3>1, <3>2, <3>3 DEF Ahead
  <2> QED
    BY <2>2, <2>3 DEF Ahead
<1>8. \A i, j \in 1..Len(queue') : i < j => queue'[i] # a
  BY <1>1, <1>2, <1>3, <1>4
<1> QED
  BY <1>2, <1>6, <1>7, <1>8

LEMMA WaitStep ==
    ASSUME IInv, NEW r \in Reader, WaitForSlice(r)
    PROVE  IInv' /\ (Prompt => Punctual')
<1> USE TaskAssumption, BoundAssumption DEF WaitForSlice, Goto, Call
<1>1. /\ queue' \in Seq(Call) /\ QueueShape'
      /\ \A c \in Call \ {r} : Ahead(c)' \subseteq Ahead(c)
      /\ \A i, j \in 1..Len(queue') : i < j => queue'[i] # r
  BY Appended
<1>2. TypeOK' /\ HolderShape' /\ LeftFits'
  BY <1>1 DEF IInv, TypeOK, HolderShape, LeftFits
<1>3. r \notin Ahead(r)'
  <2>1. r # holder
    BY DEF IInv, HolderShape
  <2> QED
    BY <1>1, <2>1 DEF Ahead
<1>4. ASSUME Prompt PROVE Punctual'
  <2>1. /\ Cardinality(Reader) >= 1 /\ Cardinality(Reader) \in Nat
        /\ Cardinality(Ahead(r)') \in Nat
        /\ Cardinality(Ahead(r)') <= Cardinality(Reader) - 1
    BY <1>3, <1>4, OthersAhead, AheadFinite, AheadFinitePrimed DEF Prompt
  <2>2. age[r] + Due(r)' <= Limit(r)
    <3>1. pc'[r] = "queued" /\ r \notin Writer
      BY DEF IInv, TypeOK
    <3>2. Due(r)' = Cardinality(Ahead(r)') + 1
      BY <3>1 DEF Due
    <3>3. /\ age[r] \in Nat /\ left[r] \in Nat /\ asked[r] \in Nat
          /\ age[r] + left[r] <= asked[r]
      BY DEF IInv, TypeOK, LeftFits
    <3> QED
      BY <2>1, <3>1, <3>2, <3>3 DEF Limit
  <2>3. \A c \in Call \ {r} : pc'[c] = pc[c]
    BY DEF IInv, TypeOK
  <2> QED
    BY <1>1, <1>4, <2>2, <2>3, OthersPunctual
<1> QED
  BY <1>1, <1>2, <1>4 DEF IInv

LEMMA StartWriteStep ==
    ASSUME IInv, NEW w \in Writer, StartWrite(w)
    PROVE  IInv' /\ (Prompt => Punctual')
<1> USE TaskAssumption, BoundAssumption DEF StartWrite, Goto, Call
<1>1. /\ queue' \in Seq(Call) /\ QueueShape'
      /\ \A c \in Call \ {w} : Ahead(c)' \subseteq Ahead(c)
  BY Appended
<1>2. TypeOK' /\ HolderShape' /\ LeftFits'
  BY <1>1 DEF IInv, TypeOK, HolderShape, LeftFits
<1>3. ASSUME Prompt PROVE Punctual'
  <2> SUFFICES ASSUME NEW c \in Call, pc'[c] # "idle"
               PROVE  age'[c] + Due(c)' <= Limit(c)'
    BY DEF Punctual
  <2>1. CASE c = w
    <3>1. age'[w] = 0 /\ pc'[w] = "queued" /\ w \notin Reader
      BY DEF IInv, TypeOK
    <3>2. Due(w)' = Cardinality(Ahead(w)')
      BY <1>3, <3>1, AheadFinitePrimed DEF Prompt, Due
    <3> QED
      BY <1>3, <2>1, <3>1, <3>2, AheadFinite, AheadFinitePrimed DEF Prompt, Limit
  <2>2. CASE c # w
    <3>1. pc'[c] = pc[c] /\ age'[c] = age[c]
      BY <2>2 DEF IInv, TypeOK
    <3>2. Due(c)' <= Due(c) /\ Due(c) \in Nat /\ Due(c)' \in Nat
      BY <1>1, <1>3, <2>2, <3>1, DueShrinks DEF Prompt
    <3>3. Limit(c)' = Limit(c)
      BY LimitFixed
    <3> QED
      BY <1>3, <3>1, <3>2, <3>3, DueNat DEF IInv, Prompt, TypeOK, Punctual
  <2> QED
    BY <2>1, <2>2
<1> QED
  BY <1>1, <1>2, <1>3 DEF IInv

(* Steps of a call that is not in the queue: it gives the mutex up, if it  *)
(* had it, and has no more slices to use than before.                      *)
LEMMA QuietStep ==
    ASSUME IInv, NEW a \in Call,
           NEW to \in {"idle", "checking", "sleeping", "dozing"},
           pc' = [pc EXCEPT ![a] = to],
           pc[a] \notin {"idle", "queued"},
           a \in Writer => to = "idle",
           to = "dozing" => pc[a] = "polling" /\ ~ expired,
           holder' = IF holder = a THEN Free ELSE holder,
           UNCHANGED <<queue, left, asked, expired, age>>
    PROVE  IInv' /\ (Prompt => Punctual')
<1> USE TaskAssumption, BoundAssumption DEF Call
<1>1. TypeOK' /\ QueueShape' /\ LeftFits'
  BY DEF IInv, TypeOK, QueueShape, LeftFits
<1>2. HolderShape'
  BY DEF IInv, TypeOK, HolderShape
<1>3. \A c \in Call : Ahead(c)' \subseteq Ahead(c)
  BY DEF Ahead
<1>4. ASSUME Prompt PROVE Punctual'
  <2>1. pc'[a] # "idle" => age[a] + Due(a)' <= Limit(a)
    <3> SUFFICES ASSUME to # "idle" PROVE age[a] + Due(a)' <= Limit(a)
      BY DEF IInv, TypeOK
    <3>1. pc'[a] = to /\ age[a] \in Nat
      BY DEF IInv, TypeOK
    <3>2. Due(a) \in Nat /\ Limit(a) \in Int /\ age[a] + Due(a) <= Limit(a)
      BY <1>4, DueNat DEF IInv, Prompt, Punctual
    <3>3. Due(a)' = IF to = "dozing" THEN 1 ELSE 0
      BY <3>1 DEF Due
    <3>4. to = "dozing" => Due(a) = 1
      BY DEF Due
    <3> QED
      BY <3>1, <3>2, <3>3, <3>4
  <2>2. \A c \in Call \ {a} : pc'[c] = pc[c]
    BY DEF IInv, TypeOK
  <2> QED
    BY <1>3, <1>4, <2>1, <2>2, OthersPunctual
<1> QED
  BY <1>1, <1>2, <1>4 DEF IInv

LEMMA ReaderQuietStep ==
    ASSUME IInv, NEW r \in Reader,
           \/ TimeOut(r) \/ PollReturns(r) \/ PollElapsed(r) \/ PollEof(r)
           \/ Wake(r) \/ DropPolling(r) \/ DropAsleep(r)
    PROVE  IInv' /\ (Prompt => Punctual')
<1> USE TaskAssumption DEF Call, Goto
<1>1. r \in Call /\ r \notin Writer /\ (pc[r] = "polling" <=> holder = r)
  BY DEF IInv, HolderShape
<1>2. CASE TimeOut(r)
  BY <1>1, <1>2, QuietStep DEF TimeOut
<1>3. CASE PollReturns(r)
  BY <1>1, <1>3, QuietStep DEF PollReturns
<1>4. CASE PollElapsed(r)
  BY <1>1, <1>4, QuietStep DEF PollElapsed
<1>5. CASE PollEof(r)
  BY <1>1, <1>5, QuietStep DEF PollEof
<1>6. CASE Wake(r)
  BY <1>1, <1>6, QuietStep DEF Wake
<1>7. CASE DropPolling(r)
  BY <1>1, <1>7, QuietStep DEF DropPolling
<1>8. CASE DropAsleep(r)
  BY <1>1, <1>8, QuietStep DEF DropAsleep
<1> QED
  BY <1>2, <1>3, <1>4, <1>5, <1>6, <1>7, <1>8

LEMMA WriteReturnsStep ==
    ASSUME IInv, NEW w \in Writer, WriteReturns(w)
    PROVE  IInv' /\ (Prompt => Punctual')
<1>1. w \in Call /\ holder = w
  BY DEF IInv, HolderShape, WriteReturns, Goto, Call
<1> QED
  BY <1>1, QuietStep DEF WriteReturns, Goto

LEMMA Concatenated ==
    ASSUME NEW S, NEW f \in Seq(S), NEW b \in Seq(S)
    PROVE  f \o b \in Seq(S) /\ Len(f \o b) = Len(f) + Len(b)
  OBVIOUS

(* A read that is dropped from the queue lets the others move up.          *)
LEMMA DropQueuedStep ==
    ASSUME IInv, NEW r \in Reader, DropQueued(r)
    PROVE  IInv' /\ (Prompt => Punctual')
<1> USE TaskAssumption, BoundAssumption DEF Call, Goto
<1>1. /\ pc[r] = "queued" /\ pc' = [pc EXCEPT ![r] = "idle"]
      /\ UNCHANGED <<holder, left, asked, expired, age>>
  BY DEF DropQueued
<1>2. PICK k \in 1..Len(queue) :
        /\ queue[k] = r
        /\ queue' = SubSeq(queue, 1, k - 1) \o SubSeq(queue, k + 1, Len(queue))
  BY DEF DropQueued
<1>3. queue \in Seq(Call)
  BY DEF IInv, TypeOK
<1> DEFINE Old(i) == IF i < k THEN i ELSE i + 1
<1>4. /\ queue' \in Seq(Call) /\ Len(queue') = Len(queue) - 1
      /\ \A i \in 1..Len(queue') :
            Old(i) \in 1..Len(queue) /\ Old(i) # k /\ queue'[i] = queue[Old(i)]
  <2> DEFINE front == SubSeq(queue, 1, k - 1)
             back == SubSeq(queue, k + 1, Len(queue))
  <2>1. /\ front \in Seq(Call) /\ Len(front) = k - 1
        /\ \A i \in 1..(k - 1) : front[i] = queue[i]
    BY <1>3
  <2>2. /\ back \in Seq(Call) /\ Len(back) = Len(queue) - k
        /\ \A i \in 1..(Len(queue) - k) : back[i] = queue[i + k]
    BY <1>3
  <2>3. queue' = front \o back /\ Len(queue) \in Nat /\ k \in 1..Len(queue)
    BY <1>2, <1>3
  <2> HIDE DEF front, back
  <2>4. queue' \in Seq(Call) /\ Len(queue') = Len(queue) - 1
    <3>1. front \o back \in Seq(Call) /\ Len(front \o back) = Len(front) + Len(back)
      BY <2>1, <2>2, Concatenated
    <3> QED
      BY <2>1, <2>2, <2>3, <3>1
  <2>5. ASSUME NEW i \in 1..Len(queue')
        PROVE  Old(i) \in 1..Len(queue) /\ Old(i) # k /\ queue'[i] = queue[Old(i)]
    <3>1. CASE i < k
      <4>1. i \in 1..(k - 1) /\ i \in 1..Len(queue)
        BY <2>3, <2>4, <3>1
      <4>2. queue'[i] = front[i]
        BY <2>1, <2>2, <2>3, <4>1
      <4> QED
        BY <2>1, <3>1, <4>1, <4>2
    <3>2. CASE i >= k
      <4>1. i - (k - 1) \in 1..(Len(queue) - k) /\ i \notin 1..(k - 1)
        BY <2>3, <2>4, <3>2
      <4>2. queue'[i] = back[i - (k - 1)]
        BY <2>1, <2>2, <2>3, <2>4, <4>1
      <4>3. (i - (k - 1)) + k = i + 1
        BY <2>3
      <4>4. back[i - (k - 1)] = queue[i + 1]
        BY <2>2, <4>1, <4>3
      <4> QED
        BY <2>3, <2>4, <3>2, <4>2, <4>4
    <3> QED
      BY <2>3, <2>4, <3>1, <3>2
  <2> QED
    BY <2>4, <2>5
<1>5. \A i \in 1..Len(queue) : i # k => \E j \in 1..Len(queue') : Old(j) = i
  <2> SUFFICES ASSUME NEW i \in 1..Len(queue), i # k
               PROVE  \E j \in 1..Len(queue') : Old(j) = i
    OBVIOUS
  <2>1. CASE i < k
    <3>1. i \in 1..Len(queue') /\ Old(i) = i
      BY <1>3, <1>4, <2>1
    <3> QED
      BY <3>1
  <2>2. CASE i > k
    <3>1. i - 1 \in 1..Len(queue') /\ Old(i - 1) = i
      BY <1>3, <1>4, <2>2
    <3> QED
      BY <3>1
  <2> QED
    BY <2>1, <2>2
<1>6. \A i, j \in 1..Len(queue') :
          /\ i < j => Old(i) < Old(j)
          /\ Old(i) = Old(j) => i = j
  BY <1>3, <1>4
<1> HIDE DEF Old
<1>7. TypeOK' /\ HolderShape' /\ LeftFits'
  BY <1>1, <1>4 DEF IInv, TypeOK, HolderShape, LeftFits
<1>8. QueueShape'
  <2>1. \A i, j \in 1..Len(queue') : queue'[i] = queue'[j] => i = j
    BY <1>4, <1>6 DEF IInv, QueueShape
  <2>2. ASSUME NEW c \in Call
        PROVE  pc'[c] = "queued" <=> \E i \in 1..Len(queue') : queue'[i] = c
    <3>1. CASE c = r
      <4>1. \A i \in 1..Len(queue) : queue[i] = r => i = k
        BY <1>2 DEF IInv, QueueShape
      <4>2. \A i \in 1..Len(queue') : queue'[i] # r
        BY <1>4, <4>1
      <4> QED
        BY <1>1, <3>1, <4>2 DEF IInv, TypeOK
    <3>2. CASE c # r
      <4>1. pc'[c] = pc[c]
        BY <1>1, <3>2 DEF IInv, TypeOK
      <4>2. ASSUME NEW i \in 1..Len(queue), queue[i] = c
            PROVE  \E j \in 1..Len(queue') : queue'[j] = c
        BY <1>2, <1>4, <1>5, <3>2, <4>2
      <4> QED
        BY <1>4, <4>1, <4>2 DEF IInv, QueueShape
    <3> QED
      BY <3>1, <3>2
  <2> QED
    BY <2>1, <2>2 DEF QueueShape
<1>9. ASSUME NEW c \in Call PROVE Ahead(c)' \subseteq Ahead(c)
  <2> SUFFICES ASSUME NEW q \in Ahead(c)' PROVE q \in Ahead(c)
    OBVIOUS
  <2>1. q \in Reader
    BY DEF Ahead
  <2>2. CASE q = holder /\ ~ expired
    BY <2>1, <2>2 DEF Ahead
  <2>3. CASE \E i, j \in 1..Len(queue') : i < j /\ queue'[i] = q /\ queue'[j] = c
    BY <1>4, <1>6, <2>1, <2>3 DEF Ahead
  <2> QED
    BY <1>1, <2>2, <2>3 DEF Ahead
<1>10. ASSUME Prompt PROVE Punctual'
  <2>1. /\ \A c \in Call \ {r} : pc'[c] = pc[c]
        /\ pc'[r] = "idle"
    BY <1>1 DEF IInv, TypeOK
  <2> QED
    BY <1>1, <1>9, <1>10, <2>1, OthersPunctual
<1> QED
  BY <1>7, <1>8, <1>10 DEF IInv

(* The mutex goes to the head of the queue, whose turn it is. *)
LEMMA GrantStep == ASSUME IInv, Grant PROVE IInv' /\ (Prompt => Punctual')
<1> USE TaskAssumption, BoundAssumption DEF Call
<1>0. PICK a \in Call : a = Head(queue)
  <2>1. Head(queue) \in Call
    BY DEF Grant, IInv, TypeOK
  <2> QED
    BY <2>1
<1>1. /\ holder = Free /\ queue # <<>> /\ holder' = a /\ queue' = Tail(queue)
      /\ pc' = [pc EXCEPT ![a] = IF a \in Reader THEN "polling" ELSE "writing"]
      /\ expired' = FALSE /\ UNCHANGED <<left, asked, age>>
  BY <1>0 DEF Grant
<1>2. queue \in Seq(Call)
  BY DEF IInv, TypeOK
<1>3. /\ 1 \in 1..Len(queue) /\ a = queue[1] /\ a \in Call
      /\ queue' \in Seq(Call) /\ Len(queue') = Len(queue) - 1
      /\ \A i \in 1..Len(queue') : i + 1 \in 1..Len(queue) /\ queue'[i] = queue[i + 1]
  BY <1>0, <1>1, <1>2
<1>4. \A i \in 1..Len(queue) : i # 1 => i - 1 \in 1..Len(queue') /\ queue'[i - 1] = queue[i]
  <2> SUFFICES ASSUME NEW i \in 1..Len(queue), i # 1
               PROVE  i - 1 \in 1..Len(queue') /\ queue'[i - 1] = queue[i]
    OBVIOUS
  <2>1. i - 1 \in 1..Len(queue') /\ (i - 1) + 1 = i
    BY <1>2, <1>3
  <2> QED
    BY <1>3, <2>1
<1>5. pc[a] = "queued"
  BY <1>3 DEF IInv, QueueShape
<1>6. \A i \in 1..Len(queue) : queue[i] = a => i = 1
  BY <1>3 DEF IInv, QueueShape
<1>7. TypeOK' /\ LeftFits'
  BY <1>1, <1>3, <1>5 DEF IInv, TypeOK, LeftFits
<1>8. HolderShape'
  <2>1. \A c \in Call : pc[c] \notin {"polling", "writing"}
    BY <1>1 DEF IInv, HolderShape
  <2> QED
    BY <1>1, <1>3, <2>1 DEF IInv, TypeOK, HolderShape
<1>9. QueueShape'
  <2>1. \A i, j \in 1..Len(queue') : queue'[i] = queue'[j] => i = j
    <3> SUFFICES ASSUME NEW i \in 1..Len(queue'), NEW j \in 1..Len(queue'),
                        queue'[i] = queue'[j]
                 PROVE  i = j
      OBVIOUS
    <3>1. i + 1 = j + 1
      BY <1>3 DEF IInv, QueueShape
    <3> QED
      BY <1>2, <1>3, <3>1
  <2>2. ASSUME NEW c \in Call
        PROVE  pc'[c] = "queued" <=> \E i \in 1..Len(queue') : queue'[i] = c
    <3>1. CASE c = a
      <4>1. ASSUME NEW i \in 1..Len(queue'), queue'[i] = a PROVE FALSE
        <5>1. i + 1 = 1
          BY <1>3, <1>6, <4>1
        <5> QED
          BY <1>2, <1>3, <5>1
      <4> QED
        BY <1>1, <1>3, <3>1, <4>1 DEF IInv, TypeOK
    <3>2. CASE c # a
      <4>1. pc'[c] = pc[c]
        BY <1>1, <3>2 DEF IInv, TypeOK
      <4>2. ASSUME NEW i \in 1..Len(queue), queue[i] = c
            PROVE  \E j \in 1..Len(queue') : queue'[j] = c
        BY <1>3, <1>4, <3>2, <4>2
      <4> QED
        BY <1>3, <4>1, <4>2 DEF IInv, QueueShape
    <3> QED
      BY <3>1, <3>2
  <2> QED
    BY <2>1, <2>2 DEF QueueShape
<1>10. ASSUME NEW c \in Call \ {a}, pc[c] = "queued" PROVE Ahead(c)' \subseteq Ahead(c)
  <2> SUFFICES ASSUME NEW q \in Ahead(c)' PROVE q \in Ahead(c)
    OBVIOUS
  <2>1. q \in Reader
    BY DEF Ahead
  <2>2. CASE q = a
    <3>1. PICK j \in 1..Len(queue) : queue[j] = c
      BY <1>10 DEF IInv, QueueShape
    <3>2. j # 1
      BY <1>3, <1>10, <3>1
    <3> QED
      BY <1>2, <1>3, <2>1, <2>2, <3>1, <3>2 DEF Ahead
  <2>3. CASE \E i, j \in 1..Len(queue') : i < j /\ queue'[i] = q /\ queue'[j] = c
    <3>1. PICK i \in 1..Len(queue'), j \in 1..Len(queue') :
              i < j /\ queue'[i] = q /\ queue'[j] = c
      BY <2>3
    <3>2. /\ i + 1 \in 1..Len(queue) /\ j + 1 \in 1..Len(queue) /\ i + 1 < j + 1
          /\ queue[i + 1] = q /\ queue[j + 1] = c
      BY <1>2, <1>3, <3>1
    <3> QED
      BY <2>1, <3>2 DEF Ahead
  <2> QED
    BY <1>1, <2>2, <2>3 DEF Ahead
<1>11. ASSUME Prompt PROVE Punctual'
  <2>1. /\ age[a] \in Nat /\ Limit(a) \in Int /\ Due(a) \in Nat
        /\ age[a] + Due(a) <= Limit(a)
    BY <1>3, <1>5, <1>11, DueNat DEF IInv, Prompt, TypeOK, Punctual
  <2>2. Due(a) >= IF a \in Reader THEN 1 ELSE 0
    BY <1>5, <1>11, AheadFinite DEF Prompt, Due
  <2>3. pc'[a] = IF a \in Reader THEN "polling" ELSE "writing"
    BY <1>1, <1>3 DEF IInv, TypeOK
  <2>4. Due(a)' = IF a \in Reader THEN 1 ELSE 0
    BY <1>1, <2>3 DEF Due
  <2>5. age[a] + Due(a)' <= Limit(a)
    BY <2>1, <2>2, <2>4
  <2>6. \A c \in Call \ {a} : pc'[c] = pc[c] /\ pc[c] # "polling"
    BY <1>1, <1>3 DEF IInv, TypeOK, HolderShape
  <2> QED
    BY <1>1, <1>3, <1>10, <1>11, <2>5, <2>6, OthersPunctual
<1> QED
  BY <1>7, <1>8, <1>9, <1>11 DEF IInv

(* A slice passes: the reader that holds the mutex has used it up, so that *)
(* every queued call has one slice less ahead of it.                       *)
LEMMA TickStep ==
    ASSUME IInv, Tick PROVE IInv' /\ (Prompt /\ ~ Stalls => Punctual')
<1> USE TaskAssumption, BoundAssumption DEF Call
<1>1. /\ holder = Free => queue = <<>>
      /\ \A r \in Reader : pc[r] \notin {"checking", "sleeping"}
      /\ holder \in Reader => ~ expired
      /\ holder \in Writer => Stalls
      /\ left' = [r \in Reader |-> IF left[r] > 0 THEN left[r] - 1 ELSE 0]
      /\ age' = [c \in Call |->
                    IF pc[c] = "idle" THEN 1
                    ELSE IF age[c] < Cap THEN age[c] + 1 ELSE Cap]
      /\ pc' = [c \in Call |-> IF pc[c] = "dozing" THEN "sleeping" ELSE pc[c]]
      /\ expired' = (holder \in Reader)
      /\ UNCHANGED <<holder, queue, asked>>
  BY DEF Tick
<1>2. TypeOK'
  <2>1. left' \in [Reader -> 0..MaxSlices]
    BY <1>1 DEF IInv, TypeOK
  <2>2. age' \in [Call -> 0..Cap]
    BY <1>1 DEF IInv, TypeOK
  <2>3. expired' \in BOOLEAN
    BY <1>1
  <2>4. pc' \in [Call -> {"idle", "checking", "queued", "polling", "sleeping", "dozing",
                         "writing"}]
    BY <1>1 DEF IInv, TypeOK
  <2> QED
    BY <1>1, <2>1, <2>2, <2>3, <2>4 DEF IInv, TypeOK
<1>3. QueueShape' /\ HolderShape'
  BY <1>1 DEF IInv, QueueShape, HolderShape
<1>4. \A c \in Call : pc[c] # "idle" => age'[c] <= age[c] + 1 /\ age'[c] \in Nat
                                       /\ age[c] \in Nat
  BY <1>1 DEF IInv, TypeOK
<1>5. LeftFits'
  <2> SUFFICES ASSUME NEW r \in Reader, pc'[r] # "idle", left'[r] > 0
               PROVE  age'[r] + left'[r] <= asked'[r]
    BY DEF LeftFits
  <2>1. /\ pc[r] # "idle" /\ left[r] > 0 /\ left'[r] = left[r] - 1
        /\ left[r] \in Nat /\ asked[r] \in Nat /\ asked'[r] = asked[r]
    BY <1>1 DEF IInv, TypeOK
  <2> QED
    BY <1>4, <2>1 DEF IInv, LeftFits
<1>6. ASSUME Prompt, ~ Stalls, NEW c \in Call, pc[c] = "queued"
      PROVE  Cardinality(Ahead(c)') <= Cardinality(Ahead(c)) - 1
  <2>1. PICK j \in 1..Len(queue) : queue[j] = c
    BY <1>6 DEF IInv, QueueShape
  <2>2. queue # <<>>
    BY <2>1 DEF IInv, TypeOK
  <2>3. holder \in Reader /\ ~ expired /\ expired'
    BY <1>1, <1>6, <2>2 DEF IInv, TypeOK
  <2>4. holder \in Ahead(c)
    BY <2>3 DEF Ahead
  <2>5. \A i \in 1..Len(queue) : queue[i] # holder
    <3>1. pc[holder] # "queued"
      BY <2>3 DEF IInv, HolderShape
    <3> QED
      BY <2>3, <3>1 DEF IInv, QueueShape
  <2>6. Ahead(c)' \in SUBSET (Ahead(c) \ {holder})
    BY <1>1, <2>3, <2>5 DEF Ahead
  <2>7. /\ IsFiniteSet(Ahead(c) \ {holder})
        /\ Cardinality(Ahead(c) \ {holder}) = Cardinality(Ahead(c)) - 1
    BY <1>6, <2>4, AheadFinite, FS_RemoveElement DEF Prompt
  <2> QED
    BY <2>6, <2>7, FS_Subset
<1>7. ASSUME Prompt, ~ Stalls PROVE Punctual'
  <2> SUFFICES ASSUME NEW c \in Call, pc'[c] # "idle"
               PROVE  age'[c] + Due(c)' <= Limit(c)'
    BY DEF Punctual
  <2>1. /\ pc[c] # "idle" /\ age[c] + Due(c) <= Limit(c)
        /\ Due(c) \in Nat /\ Limit(c) \in Int
    BY <1>1, <1>7, DueNat DEF IInv, Prompt, TypeOK, Punctual
  <2>2. Due(c)' \in Nat /\ Due(c)' <= Due(c) - 1
    <3>1. CASE pc[c] = "queued"
      <4>1. pc'[c] = "queued"
        BY <1>1, <3>1
      <4> QED
        BY <1>6, <1>7, <3>1, <4>1, AheadFinite, AheadFinitePrimed DEF Prompt, Due
    <3>2. CASE pc[c] = "polling"
      <4>1. pc'[c] = "polling" /\ holder = c
        BY <1>1, <3>2 DEF IInv, HolderShape
      <4>2. ~ expired /\ expired'
        BY <1>1, <1>7, <4>1
      <4> QED
        BY <3>2, <4>1, <4>2 DEF Due
    <3>3. CASE pc[c] = "dozing"
      <4>1. pc'[c] = "sleeping"
        BY <1>1, <3>3
      <4> QED
        BY <3>3, <4>1 DEF Due
    <3>4. pc[c] \in {"queued", "polling", "dozing"}
      BY <1>1, <1>7, <2>1 DEF IInv, TypeOK, HolderShape
    <3> QED
      BY <3>1, <3>2, <3>3, <3>4
  <2>3. Limit(c)' = Limit(c)
    BY <1>1, LimitFixed
  <2> QED
    BY <1>4, <2>1, <2>2, <2>3
<1> QED
  BY <1>2, <1>3, <1>5, <1>7 DEF IInv

-----------------------------------------------------------------------------
LEMMA NextIInv ==
    ASSUME IInv, [Next]_vars PROVE IInv' /\ (Prompt /\ ~ Stalls => Punctual')
<1>1. CASE UNCHANGED vars
  <2>1. ASSUME NEW c \in Call PROVE Due(c)' = Due(c) /\ Limit(c)' = Limit(c)
    BY <1>1 DEF vars, Due, Ahead, Limit
  <2> QED
    BY <1>1, <2>1
       DEF vars, IInv, Prompt, TypeOK, QueueShape, HolderShape, LeftFits, Punctual
<1>2. ASSUME NEW r \in Reader,
             \/ StartRead(r) \/ DropRead(r)
             \/ PollReturns(r) \/ PollEof(r)
             \/ ReaderStep(r)
      PROVE  IInv' /\ (Prompt => Punctual')
  BY <1>2, StartReadStep, WaitStep, DropQueuedStep, ReaderQuietStep
     DEF DropRead, ReaderStep
<1>3. ASSUME NEW w \in Writer, StartWrite(w) \/ WriteReturns(w)
      PROVE  IInv' /\ (Prompt => Punctual')
  BY <1>3, StartWriteStep, WriteReturnsStep
<1> QED
  BY <1>1, <1>2, <1>3, GrantStep, TickStep DEF Next

LEMMA Inductive == Spec => []IInv
  BY InitIInv, NextIInv, PTL DEF Spec

(* The mutex, its queue and the calls keep their types. *)
THEOREM TypeCorrect == Spec => []TypeOK
<1>1. IInv => TypeOK
  BY DEF IInv
<1> QED
  BY <1>1, Inductive, PTL

(* The mutex is held by the call that uses it, the queue holds the calls   *)
(* that wait, once each: also when the device stalls, and whatever calls   *)
(* are dropped, nobody waits for a call that is gone.                      *)
THEOREM MutexSound == Spec => []MutexAccounted
<1>1. IInv => MutexAccounted
  BY DEF IInv, MutexAccounted
<1> QED
  BY <1>1, Inductive, PTL

LEMMA InTime == ASSUME IsFiniteSet(Reader), ~ Stalls PROVE Spec => []Punctual
<1>1. Punctual /\ IInv /\ [Next]_vars => Punctual'
  BY NextIInv DEF Prompt
<1> QED
  BY <1>1, InitIInv, Inductive, PTL DEF Spec

(* While the device accepts bytes, a write waits for the mutex at most one *)
(* slice of every reader, however many there are and however long their    *)
(* timeouts.                                                               *)
THEOREM WriteWaits ==
    ASSUME IsFiniteSet(Reader), ~ Stalls PROVE Spec => []WriteWaitsOneSliceEach
<1>1. IInv /\ Punctual => WriteWaitsOneSliceEach
  <2> SUFFICES ASSUME IInv, Punctual, NEW w \in Writer, pc[w] # "idle"
               PROVE  age[w] <= Cardinality(Reader)
    BY DEF WriteWaitsOneSliceEach
  <2>1. w \in Call /\ Limit(w) = Cardinality(Reader) /\ Cardinality(Reader) \in Nat
    BY FS_CardinalityType DEF Call, Limit
  <2> QED
    BY <2>1, DueNat, BoundAssumption DEF IInv, TypeOK, Punctual
<1> QED
  BY <1>1, Inductive, InTime, PTL

(* A read overruns its timeout by at most one slice of each other reader.  *)
THEOREM ReadOverruns ==
    ASSUME IsFiniteSet(Reader), ~ Stalls PROVE Spec => []ReadOverrunsOneSliceEach
<1>1. IInv /\ Punctual => ReadOverrunsOneSliceEach
  <2> SUFFICES ASSUME IInv, Punctual, NEW r \in Reader, pc[r] # "idle"
               PROVE  age[r] <= asked[r] + Cardinality(Reader) - 1
    BY DEF ReadOverrunsOneSliceEach
  <2>1. r \in Call /\ Limit(r) = asked[r] + Cardinality(Reader) - 1
    BY TaskAssumption DEF Call, Limit
  <2> QED
    BY <2>1, DueNat, BoundAssumption DEF IInv, TypeOK, Punctual
<1> QED
  BY <1>1, Inductive, InTime, PTL
=============================================================================
