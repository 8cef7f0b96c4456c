------------------------- MODULE ReceivedBytesProofs -------------------------
(***************************************************************************)
(* Every received byte is in one place and in order, sizes are kept and no *)
(* match is missed: proved for any calls, bytes, pattern and sizes.        *)
(*                                                                         *)
(* A call's bytes, those passed on and those in its buffer, are looked at  *)
(* as one sequence.  Shares says how these sequences and the lost bytes    *)
(* divide the bytes 1..old that have left the operating system's buffer.   *)
(***************************************************************************)
EXTENDS ReceivedBytes, FiniteSetTheorems, SequenceTheorems, WellFoundedInduction, TLAPS

Byte == 1..NBytes

Held == [c \in Call |-> result[c] \o buf[c]]

Shares(held, gone, old) ==
    /\ \A c \in Call : held[c] \in Seq(1..old) /\ Increasing(held[c])
    /\ \A c, d \in Call : c # d => ToSet(held[c]) \cap ToSet(held[d]) = {}
    /\ \A l \in gone : l[1] \in 1..old
    /\ \A l \in gone, c \in Call : l[1] \notin ToSet(held[c])
    /\ \A l, m \in gone : l[1] = m[1] => l = m
    /\ \A b \in 1..old :
         (\E c \in Call : b \in ToSet(held[c])) \/ (\E l \in gone : l[1] = b)

(* The buffer of the operating system holds the newest bytes. *)
OsNewest ==
    /\ Len(osBuf) <= arrived
    /\ \A k \in DOMAIN osBuf : osBuf[k] = arrived - Len(osBuf) + k

(* What a call has in each of its phases. *)
CallShape ==
    \A c \in Call :
        /\ pc[c] = "idle" => buf[c] = <<>> /\ result[c] = <<>> /\ matchAt[c] = 0
        /\ pc[c] = "reading" /\ tool[c] # "stream" => result[c] = <<>> /\ matchAt[c] = 0
        /\ pc[c] = "returned" => buf[c] = <<>>

(* A call that lost bytes at its deadline has begun: its tool is settled.  *)
TimeoutsOfWaitFor ==
    \A l \in lost : l[3] = "timeout" =>
        l[2] \in Call /\ pc[l[2]] # "idle" /\ tool[l[2]] = "wait_for"

(* The answer of a wait_for is what its search found in it. *)
MatchIsFirst ==
    \A c \in Call :
        tool[c] = "wait_for" /\ result[c] # <<>> =>
            /\ matchAt[c] = FirstMatch(Values(result[c]))
            /\ matchAt[c] = 0 => Len(result[c]) = MaxBytes

IInv ==
    /\ TypeOK
    /\ OsNewest
    /\ Shares(Held, lost, arrived - Len(osBuf))
    /\ CallShape
    /\ TimeoutsOfWaitFor
    /\ MatchIsFirst
    /\ AtMostMaxBytes

-----------------------------------------------------------------------------
(* Sequences, their elements and their order. *)

Row(a, n) == [i \in 1..n |-> a + i]

LEMMA ConcatSet ==
    ASSUME NEW S, NEW s \in Seq(S), NEW t \in Seq(S)
    PROVE  ToSet(s \o t) = ToSet(s) \cup ToSet(t)
<1>1. /\ Len(s \o t) = Len(s) + Len(t) /\ s \o t \in Seq(S)
      /\ \A i \in 1..Len(s) : (s \o t)[i] = s[i]
      /\ \A i \in 1..Len(t) : (s \o t)[Len(s) + i] = t[i]
  OBVIOUS
<1>2. /\ DOMAIN s = 1..Len(s) /\ DOMAIN t = 1..Len(t)
      /\ DOMAIN (s \o t) = 1..(Len(s) + Len(t)) /\ Len(s) \in Nat /\ Len(t) \in Nat
  BY <1>1
<1>3. ASSUME NEW i \in 1..(Len(s) + Len(t))
      PROVE  (s \o t)[i] \in ToSet(s) \cup ToSet(t)
  <2>1. CASE i \in 1..Len(s)
    BY <1>1, <1>2, <2>1 DEF ToSet
  <2>2. CASE i \notin 1..Len(s)
    <3>1. i - Len(s) \in 1..Len(t) /\ i = Len(s) + (i - Len(s))
      BY <1>2, <2>2
    <3>2. (s \o t)[i] = t[i - Len(s)]
      BY <1>1, <3>1
    <3> QED
      BY <1>2, <3>1, <3>2 DEF ToSet
  <2> QED
    BY <2>1, <2>2
<1>4. ASSUME NEW i \in 1..Len(s) PROVE s[i] \in ToSet(s \o t)
  <2>1. i \in 1..(Len(s) + Len(t))
    BY <1>2
  <2> QED
    BY <1>1, <1>2, <2>1 DEF ToSet
<1>5. ASSUME NEW i \in 1..Len(t) PROVE t[i] \in ToSet(s \o t)
  <2>1. Len(s) + i \in 1..(Len(s) + Len(t))
    BY <1>2
  <2> QED
    BY <1>1, <1>2, <2>1 DEF ToSet
<1>6. /\ \A x \in ToSet(s \o t) : \E i \in 1..(Len(s) + Len(t)) : x = (s \o t)[i]
      /\ \A x \in ToSet(s) : \E i \in 1..Len(s) : x = s[i]
      /\ \A x \in ToSet(t) : \E i \in 1..Len(t) : x = t[i]
  BY <1>2 DEF ToSet
<1>7. ToSet(s \o t) \subseteq ToSet(s) \cup ToSet(t)
  <2> SUFFICES ASSUME NEW x \in ToSet(s \o t) PROVE x \in ToSet(s) \cup ToSet(t)
    OBVIOUS
  <2>1. PICK i \in 1..(Len(s) + Len(t)) : x = (s \o t)[i]
    BY <1>6
  <2> QED
    BY <1>3, <2>1
<1>8. ToSet(s) \subseteq ToSet(s \o t) /\ ToSet(t) \subseteq ToSet(s \o t)
  BY <1>4, <1>5, <1>6
<1> QED
  BY <1>7, <1>8

LEMMA JoinAssociates ==
    ASSUME NEW S, NEW r \in Seq(S), NEW s \in Seq(S), NEW t \in Seq(S)
    PROVE  r \o (s \o t) = (r \o s) \o t
  BY ConcatAssociative

LEMMA RowProperties ==
    ASSUME NEW a \in Nat, NEW n \in Nat
    PROVE  /\ Row(a, n) \in Seq(1..(a + n))
           /\ Len(Row(a, n)) = n
           /\ ToSet(Row(a, n)) = (a + 1)..(a + n)
<1>1. Row(a, n) \in Seq(1..(a + n)) /\ Len(Row(a, n)) = n
  BY DEF Row
<1>2. \A i \in (a + 1)..(a + n) : i - a \in 1..n /\ Row(a, n)[i - a] = i
  BY DEF Row
<1>3. DOMAIN Row(a, n) = 1..n /\ \A i \in 1..n : Row(a, n)[i] = a + i
  BY DEF Row
<1>4. \A i \in 1..n : a + i \in (a + 1)..(a + n)
  OBVIOUS
<1>5. ToSet(Row(a, n)) \subseteq (a + 1)..(a + n)
  BY <1>3, <1>4 DEF ToSet
<1>6. (a + 1)..(a + n) \subseteq ToSet(Row(a, n))
  BY <1>2, <1>3 DEF ToSet
<1> QED
  BY <1>1, <1>5, <1>6

LEMMA IncreasingRow ==
    ASSUME NEW a \in Nat, NEW n \in Nat, NEW s \in Seq(1..a), Increasing(s)
    PROVE  Increasing(s \o Row(a, n))
<1> DEFINE t == s \o Row(a, n)
<1>1. Row(a, n) \in Seq(1..(a + n)) /\ Len(Row(a, n)) = n
  BY RowProperties
<1>2. s \in Seq(1..(a + n))
  OBVIOUS
<1>3. /\ DOMAIN t = 1..Len(t) /\ Len(t) = Len(s) + n
      /\ DOMAIN s = 1..Len(s) /\ Len(s) \in Nat
      /\ \A i \in 1..Len(s) : t[i] = s[i] /\ s[i] \in 1..a
      /\ \A i \in 1..n : t[Len(s) + i] = a + i
  BY <1>1, <1>2 DEF Row
<1> HIDE DEF t
<1>4. \A i \in 1..Len(t) :
         IF i <= Len(s) THEN t[i] = s[i] /\ t[i] \in 1..a ELSE t[i] = a + (i - Len(s))
  <2> SUFFICES ASSUME NEW i \in 1..Len(t)
               PROVE  IF i <= Len(s) THEN t[i] = s[i] /\ t[i] \in 1..a
                                     ELSE t[i] = a + (i - Len(s))
    OBVIOUS
  <2>1. CASE i <= Len(s)
    BY <1>3, <2>1
  <2>2. CASE ~ (i <= Len(s))
    <3>1. i - Len(s) \in 1..n /\ i = Len(s) + (i - Len(s))
      BY <1>3, <2>2
    <3>2. t[Len(s) + (i - Len(s))] = a + (i - Len(s))
      BY <1>3, <3>1
    <3> QED
      BY <2>2, <3>1, <3>2
  <2> QED
    BY <2>1, <2>2
<1>5. ASSUME NEW j \in 1..Len(t), NEW k \in 1..Len(t), j < k
      PROVE  t[j] < t[k]
  <2>1. CASE k <= Len(s)
    <3>1. j \in 1..Len(s) /\ k \in 1..Len(s)
      BY <1>3, <1>5, <2>1
    <3> QED
      BY <1>3, <1>5, <3>1 DEF Increasing
  <2>2. CASE k > Len(s) /\ j <= Len(s)
    BY <1>3, <1>4, <2>2
  <2>3. CASE j > Len(s) /\ k > Len(s)
    BY <1>3, <1>4, <1>5, <2>3
  <2> QED
    BY <1>3, <1>5, <2>1, <2>2, <2>3
<1>6. Increasing(t)
  BY <1>3, <1>5 DEF Increasing
<1> QED
  BY <1>6 DEF t

LEMMA IncreasingPrefix ==
    ASSUME NEW S, NEW s \in Seq(S), NEW t \in Seq(S), Increasing(s \o t)
    PROVE  Increasing(s)
<1>1. /\ DOMAIN s = 1..Len(s) /\ DOMAIN (s \o t) = 1..(Len(s) + Len(t))
      /\ Len(s) \in Nat /\ Len(t) \in Nat
      /\ \A i \in 1..Len(s) : (s \o t)[i] = s[i]
  OBVIOUS
<1>2. \A i \in 1..Len(s) : i \in 1..(Len(s) + Len(t))
  BY <1>1
<1> QED
  BY <1>1, <1>2 DEF Increasing

(* In an increasing sequence every element has one position, and the two   *)
(* parts of the sequence have no element in common.                        *)
LEMMA IncreasingOnce ==
    ASSUME NEW s \in Seq(Byte), NEW t \in Seq(Byte), Increasing(s \o t)
    PROVE  /\ \A j, k \in DOMAIN s : s[j] = s[k] => j = k
           /\ \A j, k \in DOMAIN t : t[j] = t[k] => j = k
           /\ \A j \in DOMAIN s, k \in DOMAIN t : s[j] # t[k]
<1> DEFINE u == s \o t
<1>1. /\ DOMAIN s = 1..Len(s) /\ DOMAIN t = 1..Len(t) /\ DOMAIN u = 1..(Len(s) + Len(t))
      /\ Len(s) \in Nat /\ Len(t) \in Nat
      /\ \A i \in 1..Len(s) : u[i] = s[i]
      /\ \A i \in 1..Len(t) : u[Len(s) + i] = t[i]
  OBVIOUS
<1>2. \A j, k \in 1..(Len(s) + Len(t)) : j < k => u[j] < u[k]
  BY <1>1 DEF Increasing
<1>9. \A i \in 1..(Len(s) + Len(t)) : u[i] \in Int
  <2>1. u \in Seq(Byte) /\ Len(u) = Len(s) + Len(t)
    OBVIOUS
  <2>2. Byte \subseteq Int
    BY DEF Byte
  <2>3. \A i \in 1..Len(u) : u[i] \in Byte
    BY <2>1
  <2> QED
    BY <2>1, <2>2, <2>3
<1> HIDE DEF u
<1>3. \A j, k \in 1..(Len(s) + Len(t)) : u[j] = u[k] => j = k
  <2> SUFFICES ASSUME NEW j \in 1..(Len(s) + Len(t)), NEW k \in 1..(Len(s) + Len(t)),
                      u[j] = u[k]
               PROVE  j = k
    OBVIOUS
  <2>1. ~ (j < k) /\ ~ (k < j)
    BY <1>2, <1>9
  <2> QED
    BY <1>1, <2>1
<1>4. \A i \in 1..Len(s) : i \in 1..(Len(s) + Len(t))
  BY <1>1
<1>5. \A i \in 1..Len(t) : Len(s) + i \in 1..(Len(s) + Len(t))
  BY <1>1
<1>6. \A j, k \in 1..Len(t) : Len(s) + j = Len(s) + k => j = k
  BY <1>1
<1>7. \A j \in 1..Len(s), k \in 1..Len(t) : j # Len(s) + k
  BY <1>1
<1> QED
  BY <1>1, <1>3, <1>4, <1>5, <1>6, <1>7

-----------------------------------------------------------------------------
(* How the steps change the division of the bytes. *)

LEMMA TakeShares ==
    ASSUME NEW held, NEW gone, NEW old \in Nat, Shares(held, gone, old),
           NEW n \in Nat, NEW c \in Call, NEW next,
           next = [d \in Call |-> IF d = c THEN held[c] \o Row(old, n) ELSE held[d]]
    PROVE  Shares(next, gone, old + n)
<1>1. /\ Row(old, n) \in Seq(1..(old + n))
      /\ ToSet(Row(old, n)) = (old + 1)..(old + n)
  BY RowProperties
<1>2. \A d \in Call : held[d] \in Seq(1..old) /\ held[d] \in Seq(1..(old + n))
                        /\ Increasing(held[d])
  BY DEF Shares
<1>3. /\ next[c] = held[c] \o Row(old, n)
      /\ \A d \in Call : d # c => next[d] = held[d]
  OBVIOUS
<1>4. \A d \in Call : next[d] \in Seq(1..(old + n)) /\ Increasing(next[d])
  <2>1. /\ held[c] \in Seq(1..(old + n)) /\ held[c] \in Seq(1..old)
        /\ Increasing(held[c])
    BY <1>2
  <2>2. next[c] \in Seq(1..(old + n))
    BY <1>1, <1>3, <2>1
  <2>3. Increasing(next[c])
    BY <1>3, <2>1, IncreasingRow
  <2> QED
    BY <1>2, <1>3, <2>2, <2>3
<1>5. ToSet(next[c]) = ToSet(held[c]) \cup ((old + 1)..(old + n))
  BY <1>1, <1>2, <1>3, ConcatSet
<1>6. \A d \in Call : ToSet(held[d]) \subseteq 1..old
  BY <1>2 DEF ToSet
<1>7. 1..old \cap ((old + 1)..(old + n)) = {}
      /\ 1..(old + n) = 1..old \cup ((old + 1)..(old + n))
  OBVIOUS
<1>8. \A d, e \in Call : d # e => ToSet(next[d]) \cap ToSet(next[e]) = {}
  <2>1. \A d, e \in Call : d # e => ToSet(held[d]) \cap ToSet(held[e]) = {}
    BY DEF Shares
  <2> SUFFICES ASSUME NEW d \in Call, NEW e \in Call, d # e
               PROVE  ToSet(next[d]) \cap ToSet(next[e]) = {}
    OBVIOUS
  <2>2. CASE d # c /\ e # c
    BY <1>3, <2>1, <2>2
  <2>3. CASE d = c
    BY <1>3, <1>5, <1>6, <1>7, <2>1, <2>3
  <2>4. CASE e = c
    BY <1>3, <1>5, <1>6, <1>7, <2>1, <2>4
  <2> QED
    BY <2>2, <2>3, <2>4
<1>9. \A l \in gone : l[1] \in 1..old
  BY DEF Shares
<1>10. \A l \in gone, d \in Call : l[1] \notin ToSet(next[d])
  <2>1. \A l \in gone, d \in Call : l[1] \notin ToSet(held[d])
    BY DEF Shares
  <2> QED
    BY <1>3, <1>5, <1>7, <1>9, <2>1
<1>11. \A b \in 1..(old + n) :
          (\E d \in Call : b \in ToSet(next[d])) \/ (\E l \in gone : l[1] = b)
  <2>1. \A d \in Call : ToSet(held[d]) \subseteq ToSet(next[d])
    BY <1>3, <1>5
  <2>2. \A b \in 1..old :
          (\E d \in Call : b \in ToSet(held[d])) \/ (\E l \in gone : l[1] = b)
    BY DEF Shares
  <2> QED
    BY <1>5, <1>7, <2>1, <2>2
<1>12. \A l, m \in gone : l[1] = m[1] => l = m
  BY DEF Shares
<1> QED
  BY <1>4, <1>7, <1>8, <1>9, <1>10, <1>11, <1>12 DEF Shares

Losing(gone, c, reason, bytes) == gone \cup {<<b, c, reason>> : b \in ToSet(bytes)}

(* Bytes of c are lost, all those behind the first part of what it held. *)
LEMMA DropShares ==
    ASSUME NEW held, NEW gone, NEW old \in Nat, Shares(held, gone, old),
           NEW c \in Call, NEW reason, NEW first \in Seq(Byte), NEW rest \in Seq(Byte),
           held[c] = first \o rest, NEW next,
           next[c] = first, \A d \in Call : d # c => next[d] = held[d]
    PROVE  Shares(next, Losing(gone, c, reason, rest), old)
<1> DEFINE more == Losing(gone, c, reason, rest)
<1> USE DEF Losing
<1>1. /\ next[c] = first
      /\ \A d \in Call : d # c => next[d] = held[d]
  OBVIOUS
<1>2. ToSet(held[c]) = ToSet(first) \cup ToSet(rest)
  BY ConcatSet
<1>3. \A d \in Call : held[d] \in Seq(1..old) /\ Increasing(held[d])
  BY DEF Shares
<1>4. \A d \in Call : ToSet(held[d]) \subseteq 1..old
  BY <1>3 DEF ToSet
<1>5. ToSet(first) \cap ToSet(rest) = {}
  <2>1. Increasing(first \o rest)
    BY <1>3
  <2>2. \A j \in DOMAIN first, k \in DOMAIN rest : first[j] # rest[k]
    BY <2>1, IncreasingOnce
  <2> QED
    BY <2>2 DEF ToSet
<1>6. first \in Seq(1..old) /\ Increasing(first)
  <2>1. ToSet(first) \subseteq 1..old
    BY <1>2, <1>4
  <2>2. \A k \in 1..Len(first) : first[k] \in 1..old
    BY <2>1 DEF ToSet
  <2>3. first = [k \in 1..Len(first) |-> first[k]] /\ Len(first) \in Nat
    OBVIOUS
  <2>4. first \in Seq(1..old)
    BY <2>2, <2>3
  <2>5. Increasing(first \o rest)
    BY <1>3
  <2> QED
    BY <2>4, <2>5, IncreasingPrefix
<1>7. \A d \in Call : ToSet(next[d]) \subseteq ToSet(held[d])
  BY <1>1, <1>2
<1>8. \A l \in more : l \in gone \/ (\E b \in ToSet(rest) : l = <<b, c, reason>>)
  OBVIOUS
<1>9. \A b \in ToSet(rest) : b \in ToSet(held[c]) /\ b \notin ToSet(next[c])
  BY <1>1, <1>2, <1>5
<1>10. \A b \in ToSet(rest), d \in Call : b \notin ToSet(next[d])
  <2>1. \A d \in Call : d # c => ToSet(held[c]) \cap ToSet(held[d]) = {}
    BY DEF Shares
  <2> QED
    BY <1>1, <1>9, <2>1
<1>11. \A d \in Call : next[d] \in Seq(1..old) /\ Increasing(next[d])
  BY <1>1, <1>3, <1>6
<1>12. \A d, e \in Call : d # e => ToSet(next[d]) \cap ToSet(next[e]) = {}
  <2>1. \A d, e \in Call : d # e => ToSet(held[d]) \cap ToSet(held[e]) = {}
    BY DEF Shares
  <2> QED
    BY <1>7, <2>1
<1>13. \A l \in more : l[1] \in 1..old
  <2>1. \A l \in gone : l[1] \in 1..old
    BY DEF Shares
  <2>2. \A b \in ToSet(rest) : b \in 1..old
    BY <1>4, <1>9
  <2>3. ASSUME NEW l \in more, l \notin gone PROVE l[1] \in 1..old
    <3>1. PICK b \in ToSet(rest) : l = <<b, c, reason>>
      BY <1>8, <2>3
    <3> QED
      BY <2>2, <3>1
  <2> QED
    BY <2>1, <2>3
<1>14. \A l \in more, d \in Call : l[1] \notin ToSet(next[d])
  <2>1. \A l \in gone, d \in Call : l[1] \notin ToSet(held[d])
    BY DEF Shares
  <2>2. ASSUME NEW l \in more, l \notin gone, NEW d \in Call
        PROVE  l[1] \notin ToSet(next[d])
    <3>1. PICK b \in ToSet(rest) : l = <<b, c, reason>>
      BY <1>8, <2>2
    <3> QED
      BY <1>10, <3>1
  <2> QED
    BY <1>7, <2>1, <2>2
<1>15. \A l, m \in more : l[1] = m[1] => l = m
  <2>1. \A l, m \in gone : l[1] = m[1] => l = m
    BY DEF Shares
  <2>2. \A l \in gone : l[1] \notin ToSet(rest)
    BY <1>9 DEF Shares
  <2>3. \A l \in more \ gone : l[1] \in ToSet(rest) /\ l = <<l[1], c, reason>>
    BY <1>8
  <2>4. ASSUME NEW l \in more, NEW m \in more, l[1] = m[1] PROVE l = m
    <3>1. CASE l \in gone /\ m \in gone
      BY <2>1, <2>4, <3>1
    <3>2. CASE l \notin gone /\ m \notin gone
      BY <2>3, <2>4, <3>2
    <3> QED
      BY <2>2, <2>3, <2>4, <3>1, <3>2
  <2> QED
    BY <2>4
<1>16. \A b \in 1..old :
          (\E d \in Call : b \in ToSet(next[d])) \/ (\E l \in more : l[1] = b)
  <2> SUFFICES ASSUME NEW b \in 1..old, \A l \in more : l[1] # b
               PROVE  \E d \in Call : b \in ToSet(next[d])
    OBVIOUS
  <2>1. PICK d \in Call : b \in ToSet(held[d])
    BY DEF Shares
  <2>2. CASE d = c
    <3>1. b \notin ToSet(rest)
      <4> SUFFICES ASSUME b \in ToSet(rest) PROVE FALSE
        OBVIOUS
      <4>1. <<b, c, reason>> \in more /\ <<b, c, reason>>[1] = b
        OBVIOUS
      <4> QED
        BY <4>1
    <3> QED
      BY <1>1, <1>2, <2>1, <2>2, <3>1
  <2>3. CASE d # c
    BY <1>1, <2>1, <2>3
  <2> QED
    BY <2>2, <2>3
<1> QED
  BY <1>11, <1>12, <1>13, <1>14, <1>15, <1>16 DEF Shares

(* The bytes that the operating system still has are flushed. *)
LEMMA FlushShares ==
    ASSUME NEW held, NEW gone, NEW old \in Nat, Shares(held, gone, old),
           NEW n \in Nat, NEW more,
           more = gone \cup {<<b, "client", "flush">> : b \in (old + 1)..(old + n)}
    PROVE  Shares(held, more, old + n)
<1>1. 1..old \cap ((old + 1)..(old + n)) = {}
      /\ 1..(old + n) = 1..old \cup ((old + 1)..(old + n))
  OBVIOUS
<1>2. \A c \in Call : held[c] \in Seq(1..old) /\ held[c] \in Seq(1..(old + n))
                        /\ Increasing(held[c])
  BY DEF Shares
<1>3. \A c \in Call : ToSet(held[c]) \subseteq 1..old
  BY <1>2 DEF ToSet
<1>4. \A l \in more :
         l \in gone \/ (l[1] \in (old + 1)..(old + n) /\ l = <<l[1], "client", "flush">>)
  OBVIOUS
<1>5. \A l \in gone : l[1] \in 1..old
  BY DEF Shares
<1>6. \A l \in more : l[1] \in 1..(old + n)
  BY <1>1, <1>4, <1>5
<1>7. \A l \in more, c \in Call : l[1] \notin ToSet(held[c])
  <2>1. \A l \in gone, c \in Call : l[1] \notin ToSet(held[c])
    BY DEF Shares
  <2> QED
    BY <1>1, <1>3, <1>4, <2>1
<1>8. \A l, m \in more : l[1] = m[1] => l = m
  <2> SUFFICES ASSUME NEW l \in more, NEW m \in more, l[1] = m[1] PROVE l = m
    OBVIOUS
  <2>1. CASE l \in gone /\ m \in gone
    BY <2>1 DEF Shares
  <2>2. CASE l \notin gone /\ m \notin gone
    BY <1>4, <2>2
  <2> QED
    BY <1>1, <1>4, <1>5, <2>1, <2>2
<1>9. \A b \in 1..(old + n) :
         (\E c \in Call : b \in ToSet(held[c])) \/ (\E l \in more : l[1] = b)
  <2> SUFFICES ASSUME NEW b \in 1..(old + n)
               PROVE  (\E c \in Call : b \in ToSet(held[c])) \/ (\E l \in more : l[1] = b)
    OBVIOUS
  <2>1. CASE b \in 1..old
    BY <2>1 DEF Shares
  <2>2. CASE b \in (old + 1)..(old + n)
    <3>1. <<b, "client", "flush">> \in more /\ <<b, "client", "flush">>[1] = b
      BY <2>2
    <3> QED
      BY <3>1
  <2> QED
    BY <1>1, <2>1, <2>2
<1>10. \A c, d \in Call : c # d => ToSet(held[c]) \cap ToSet(held[d]) = {}
  BY DEF Shares
<1> QED
  BY <1>2, <1>6, <1>7, <1>8, <1>9, <1>10 DEF Shares

LEMMA LeastMember ==
    ASSUME NEW T, T \subseteq Nat, T # {}
    PROVE  \E x \in T : \A y \in T : ~ (y < x)
<1> DEFINE less == OpToRel(<, Nat)
<1>1. IsWellFoundedOn(less, Nat)
  BY NatLessThanWellFounded
<1> HIDE DEF less
<1>2. PICK x \in T : \A y \in T : <<y, x>> \notin less
  BY <1>1, WFMin
<1>3. \A y \in T : ~ (y < x)
  BY <1>2 DEF less, OpToRel
<1> QED
  BY <1>2, <1>3

(* The search finds a position when there is one, and else nothing. *)
LEMMA FirstMatchRange ==
    ASSUME NEW v, NEW n \in Nat, DOMAIN v = 1..n
    PROVE  /\ FirstMatch(v) \in 0..n
           /\ (\E i \in DOMAIN v : Occurs(v, i)) => FirstMatch(v) # 0
<1>1. CASE ~ \E i \in DOMAIN v : Occurs(v, i)
  BY <1>1 DEF FirstMatch
<1>2. CASE \E i \in DOMAIN v : Occurs(v, i)
  <2> DEFINE T == {i \in 1..n : Occurs(v, i)}
  <2>1. T \subseteq Nat /\ T # {}
    BY <1>2
  <2>2. PICK x \in T : \A y \in T : ~ (y < x)
    BY <2>1, LeastMember
  <2>3. \A j \in 1..(x - 1) : ~ Occurs(v, j)
    BY <2>2
  <2>4. \E i \in DOMAIN v : Occurs(v, i) /\ \A j \in 1..(i - 1) : ~ Occurs(v, j)
    BY <2>2, <2>3
  <2>5. FirstMatch(v) = CHOOSE i \in DOMAIN v : Occurs(v, i) /\ \A j \in 1..(i - 1) : ~ Occurs(v, j)
    BY <1>2 DEF FirstMatch
  <2>6. (CHOOSE i \in DOMAIN v : Occurs(v, i) /\ \A j \in 1..(i - 1) : ~ Occurs(v, j)) \in DOMAIN v
    BY <2>4
  <2>7. FirstMatch(v) \in 1..n
    BY <2>5, <2>6
  <2>8. FirstMatch(v) \in 0..n /\ FirstMatch(v) # 0
    BY <2>7
  <2> QED
    BY <2>8
<1> QED
  BY <1>1, <1>2

(* Positions that go up by one. *)
LEMMA Consecutive ==
    ASSUME NEW p \in Nat \ {0}, NEW n \in Nat, NEW pos \in [1..p -> 1..n],
           \A k \in 2..p : pos[k] = pos[k - 1] + 1
    PROVE  \A k \in 1..p : pos[k] = pos[1] + k - 1
<1> DEFINE T == {k \in 1..p : pos[k] # pos[1] + k - 1}
<1> SUFFICES ASSUME T # {} PROVE FALSE
  OBVIOUS
<1>1. T \subseteq Nat
  OBVIOUS
<1>2. PICK x \in T : \A y \in T : ~ (y < x)
  BY <1>1, LeastMember
<1>3. \A k \in 1..p : pos[k] \in Nat
  OBVIOUS
<1>4. x \in 2..p /\ x - 1 \in 1..p
  BY <1>2, <1>3
<1>5. pos[x - 1] = pos[1] + (x - 1) - 1
  BY <1>2, <1>4
<1>6. pos[x] = pos[x - 1] + 1
  BY <1>4
<1>7. pos[x] # pos[1] + x - 1
  BY <1>2
<1>8. pos[1] \in Nat /\ x \in Nat
  BY <1>1, <1>2, <1>3
<1> DEFINE a == pos[1]
           b == pos[x - 1]
           c == pos[x]
<1>9. b = a + (x - 1) - 1 /\ c = b + 1 /\ c # a + x - 1 /\ a \in Nat /\ x \in Nat
  BY <1>5, <1>6, <1>7, <1>8
<1> HIDE DEF a, b, c, T
<1> QED
  BY <1>9

-----------------------------------------------------------------------------
(* The steps. *)

LEMMA InitHolds == Init => IInv
<1> SUFFICES ASSUME Init PROVE IInv
  OBVIOUS
<1> USE DEF Init
<1>1. TypeOK
  BY ParameterAssumption DEF TypeOK, Tool
<1>2. OsNewest /\ CallShape /\ TimeoutsOfWaitFor /\ MatchIsFirst /\ AtMostMaxBytes
  BY ParameterAssumption
     DEF OsNewest, CallShape, TimeoutsOfWaitFor, MatchIsFirst, AtMostMaxBytes
<1>3. \A c \in Call : Held[c] = <<>>
  BY DEF Held
<1>4. Shares(Held, lost, 0)
  <2>1. \A c \in Call : Held[c] \in Seq(1..0) /\ Increasing(Held[c]) /\ ToSet(Held[c]) = {}
    <3>1. /\ <<>> \in Seq(1..0) /\ DOMAIN <<>> = {}
      OBVIOUS
    <3>2. Increasing(<<>>) /\ ToSet(<<>>) = {}
      BY <3>1 DEF ToSet, Increasing
    <3> QED
      BY <1>3, <3>1, <3>2
  <2>2. lost = {} /\ 1..0 = {}
    OBVIOUS
  <2> QED
    BY <2>1, <2>2 DEF Shares
<1> QED
  BY <1>1, <1>2, <1>4 DEF IInv

(* The variables of the calls are left alone. *)
CallVars == <<data, pc, tool, buf, result, matchAt>>

LEMMA CallPartSame ==
    ASSUME IInv, UNCHANGED CallVars
    PROVE  Held' = Held /\ CallShape' /\ MatchIsFirst' /\ AtMostMaxBytes'
  BY DEF IInv, CallVars, Held, CallShape, MatchIsFirst, AtMostMaxBytes, Values

LEMMA OsProperties ==
    ASSUME IInv
    PROVE  /\ arrived \in Nat /\ Len(osBuf) \in Nat /\ arrived - Len(osBuf) \in Nat
           /\ osBuf \in Seq(Byte) /\ arrived <= NBytes
           /\ osBuf = Row(arrived - Len(osBuf), Len(osBuf))
<1>1. /\ arrived \in Nat /\ Len(osBuf) \in Nat /\ arrived - Len(osBuf) \in Nat
      /\ osBuf \in Seq(Byte) /\ arrived <= NBytes
  BY ParameterAssumption DEF IInv, TypeOK, OsNewest, Byte
<1>2. /\ osBuf = [k \in 1..Len(osBuf) |-> osBuf[k]]
      /\ \A k \in 1..Len(osBuf) : osBuf[k] = (arrived - Len(osBuf)) + k
  BY <1>1 DEF IInv, OsNewest
<1>3. osBuf = Row(arrived - Len(osBuf), Len(osBuf))
  BY <1>2 DEF Row
<1> QED
  BY <1>1, <1>3

LEMMA ArriveStep == ASSUME IInv, Arrive PROVE IInv'
<1>1. /\ arrived < NBytes /\ arrived' = arrived + 1 /\ osBuf' = Append(osBuf, arrived + 1)
      /\ UNCHANGED CallVars /\ lost' = lost
  BY DEF Arrive, CallVars
<1>2. /\ arrived \in Nat /\ Len(osBuf) \in Nat /\ arrived - Len(osBuf) \in Nat
      /\ osBuf \in Seq(Byte)
  BY OsProperties
<1>3. arrived + 1 \in Byte
  BY <1>1, <1>2, ParameterAssumption DEF Byte
<1>4. /\ osBuf' \in Seq(Byte) /\ Len(osBuf') = Len(osBuf) + 1
      /\ arrived' - Len(osBuf') = arrived - Len(osBuf)
  BY <1>1, <1>2, <1>3
<1>5. OsNewest'
  <2>1. \A k \in 1..Len(osBuf) : osBuf'[k] = osBuf[k] /\ osBuf[k] = arrived - Len(osBuf) + k
    BY <1>1, <1>2 DEF IInv, OsNewest
  <2>2. osBuf'[Len(osBuf) + 1] = arrived + 1
    BY <1>1, <1>2
  <2>3. \A k \in 1..(Len(osBuf) + 1) : k \in 1..Len(osBuf) \/ k = Len(osBuf) + 1
    BY <1>2
  <2> QED
    BY <1>1, <1>2, <1>4, <2>1, <2>2, <2>3 DEF IInv, OsNewest
<1>6. TypeOK'
  BY <1>1, <1>2, <1>4 DEF IInv, TypeOK, CallVars, Byte
<1>7. Held' = Held /\ CallShape' /\ MatchIsFirst' /\ AtMostMaxBytes'
  BY <1>1, CallPartSame
<1>8. Shares(Held, lost, arrived - Len(osBuf))'
  <2>1. Shares(Held, lost, arrived - Len(osBuf))
    BY DEF IInv
  <2> QED
    BY <1>1, <1>4, <1>7, <2>1
<1>9. TimeoutsOfWaitFor'
  BY <1>1 DEF IInv, TimeoutsOfWaitFor, CallVars
<1> QED
  BY <1>5, <1>6, <1>7, <1>8, <1>9 DEF IInv

LEMMA FlushStep == ASSUME IInv, FlushInput PROVE IInv'
<1> DEFINE old == arrived - Len(osBuf)
<1>1. /\ lost' = lost \cup {<<b, "client", "flush">> : b \in ToSet(osBuf)}
      /\ osBuf' = <<>> /\ UNCHANGED CallVars /\ arrived' = arrived
  BY DEF FlushInput, CallVars
<1>2. /\ arrived \in Nat /\ Len(osBuf) \in Nat /\ old \in Nat /\ arrived = old + Len(osBuf)
      /\ osBuf = Row(old, Len(osBuf))
  BY OsProperties
<1>3. ToSet(osBuf) = (old + 1)..(old + Len(osBuf))
  BY <1>2, RowProperties
<1>4. Shares(Held, lost', arrived)
  <2>1. Shares(Held, lost, old)
    BY DEF IInv
  <2>2. lost' = lost \cup {<<b, "client", "flush">> : b \in (old + 1)..(old + Len(osBuf))}
    BY <1>1, <1>3
  <2> HIDE DEF old
  <2> QED
    BY <1>2, <2>1, <2>2, FlushShares
<1>5. Held' = Held /\ CallShape' /\ MatchIsFirst' /\ AtMostMaxBytes'
  BY <1>1, CallPartSame
<1>6. OsNewest'
  BY <1>1, <1>2 DEF OsNewest
<1>7. \A l \in lost' : l[1] \in 1..arrived
  BY <1>4 DEF Shares
<1>8. TypeOK'
  BY <1>1, <1>7 DEF IInv, TypeOK, CallVars
<1>9. Shares(Held, lost, arrived - Len(osBuf))'
  <2>1. arrived' - Len(osBuf') = arrived
    BY <1>1, <1>2
  <2> QED
    BY <1>4, <1>5, <2>1
<1>10. TimeoutsOfWaitFor'
  <2>1. \A l \in lost' : l[3] = "timeout" => l \in lost
    BY <1>1
  <2> QED
    BY <1>1, <2>1 DEF IInv, TimeoutsOfWaitFor, CallVars
<1> QED
  BY <1>5, <1>6, <1>8, <1>9, <1>10 DEF IInv

LEMMA StartStep == ASSUME IInv, NEW c \in Call, Start(c) PROVE IInv'
<1>1. PICK x \in Tool : tool' = [tool EXCEPT ![c] = x]
  BY DEF Start
<1>2. /\ pc[c] = "idle" /\ pc' = [pc EXCEPT ![c] = "reading"]
      /\ UNCHANGED <<data, arrived, osBuf, buf, result, matchAt, lost>>
  BY DEF Start
<1>3. TypeOK'
  BY <1>1, <1>2 DEF IInv, TypeOK
<1>4. buf[c] = <<>> /\ result[c] = <<>> /\ matchAt[c] = 0
  BY <1>2 DEF IInv, CallShape
<1>5. /\ \A d \in Call : d # c => tool'[d] = tool[d] /\ pc'[d] = pc[d]
      /\ tool'[c] = x /\ pc'[c] = "reading"
  BY <1>1, <1>2 DEF IInv, TypeOK
<1>6. OsNewest'
  BY <1>2 DEF IInv, OsNewest
<1>7. Shares(Held, lost, arrived - Len(osBuf))'
  <2>1. Held' = Held
    BY <1>2 DEF Held
  <2> QED
    BY <1>2, <2>1 DEF IInv
<1>8. CallShape'
  BY <1>2, <1>4, <1>5 DEF IInv, CallShape
<1>9. TimeoutsOfWaitFor'
  BY <1>2, <1>5 DEF IInv, TimeoutsOfWaitFor
<1>10. MatchIsFirst'
  BY <1>2, <1>4, <1>5 DEF IInv, MatchIsFirst, Values
<1>11. AtMostMaxBytes'
  BY <1>2, <1>4, <1>5, ParameterAssumption DEF IInv, AtMostMaxBytes
<1> QED
  BY <1>3, <1>6, <1>7, <1>8, <1>9, <1>10, <1>11 DEF IInv

(* Any tool reads: bytes go from the operating system to the call.         *)
LEMMA TakeStep ==
    ASSUME IInv, NEW c \in Call, pc[c] = "reading", NEW n \in 1..Len(osBuf), Take(c, n)
    PROVE  IInv'
<1> DEFINE old == arrived - Len(osBuf)
<1>1. /\ n <= MaxBytes - Len(buf[c])
      /\ buf' = [buf EXCEPT ![c] = @ \o SubSeq(osBuf, 1, n)]
      /\ osBuf' = SubSeq(osBuf, n + 1, Len(osBuf))
      /\ UNCHANGED <<data, arrived, pc, tool, result, matchAt, lost>>
  BY DEF Take, Room
<1>2. /\ arrived \in Nat /\ Len(osBuf) \in Nat /\ old \in Nat
      /\ osBuf \in Seq(Byte) /\ n \in Nat /\ n <= Len(osBuf)
      /\ \A k \in 1..Len(osBuf) : osBuf[k] = old + k
  BY OsProperties DEF IInv, OsNewest
<1>3. /\ SubSeq(osBuf, 1, n) \in Seq(Byte) /\ Len(SubSeq(osBuf, 1, n)) = n
      /\ SubSeq(osBuf, 1, n) = Row(old, n)
  <2>1. /\ SubSeq(osBuf, 1, n) \in Seq(Byte) /\ Len(SubSeq(osBuf, 1, n)) = n
        /\ SubSeq(osBuf, 1, n) = [k \in 1..n |-> osBuf[k]]
    BY <1>2
  <2>2. \A k \in 1..n : osBuf[k] = old + k
    BY <1>2
  <2> QED
    BY <2>1, <2>2 DEF Row
<1>4. /\ osBuf' \in Seq(Byte) /\ Len(osBuf') = Len(osBuf) - n
      /\ \A k \in 1..(Len(osBuf) - n) : osBuf'[k] = osBuf[n + k]
  BY <1>1, <1>2
<1>5. arrived' - Len(osBuf') = old + n /\ Len(osBuf') <= arrived'
  <2>1. arrived' = arrived
    BY <1>1
  <2> QED
    BY <1>2, <1>4, <2>1
<1>6. OsNewest'
  <2>1. \A k \in 1..(Len(osBuf) - n) : n + k \in 1..Len(osBuf)
    BY <1>2
  <2>2. \A k \in 1..(Len(osBuf) - n) : osBuf'[k] = (old + n) + k
    BY <1>2, <1>4, <2>1
  <2>3. DOMAIN osBuf' = 1..(Len(osBuf) - n)
    BY <1>4
  <2> QED
    BY <1>5, <2>2, <2>3 DEF OsNewest
<1>7. /\ \A d \in Call : d # c => buf'[d] = buf[d]
      /\ buf'[c] = buf[c] \o SubSeq(osBuf, 1, n)
      /\ \A d \in Call : buf[d] \in Seq(Byte) /\ result[d] \in Seq(Byte)
  BY <1>1 DEF IInv, TypeOK, Byte
<1>8. buf' \in [Call -> Seq(Byte)] /\ Len(buf'[c]) = Len(buf[c]) + n
  BY <1>1, <1>3, <1>7 DEF IInv, TypeOK, Byte
<1>9. TypeOK'
  BY <1>1, <1>4, <1>8 DEF IInv, TypeOK, Byte
<1>10. Shares(Held, lost, arrived - Len(osBuf))'
  <2>1. result[c] \o (buf[c] \o Row(old, n)) = (result[c] \o buf[c]) \o Row(old, n)
    <3>1. result[c] \in Seq(Byte) /\ buf[c] \in Seq(Byte) /\ Row(old, n) \in Seq(Byte)
      BY <1>3, <1>7
    <3> HIDE DEF old
    <3> DEFINE r == result[c]
               s == buf[c]
               t == Row(old, n)
    <3>2. r \in Seq(Byte) /\ s \in Seq(Byte) /\ t \in Seq(Byte)
      BY <3>1
    <3> HIDE DEF r, s, t
    <3>3. r \o (s \o t) = (r \o s) \o t
      BY <3>2, JoinAssociates
    <3> QED
      BY <3>3 DEF r, s, t
  <2>2. Held' = [d \in Call |-> IF d = c THEN Held[c] \o Row(old, n) ELSE Held[d]]
    <3>1. /\ Held' = [d \in Call |-> result[d] \o buf'[d]]
          /\ \A d \in Call : Held[d] = result[d] \o buf[d]
      <4>1. result' = result
        BY <1>1
      <4> QED
        BY <4>1, Zenon DEF Held
    <3>2. buf'[c] = buf[c] \o Row(old, n)
      BY <1>3, <1>7
    <3> HIDE DEF old
    <3> QED
      BY <1>7, <2>1, <3>1, <3>2
  <2>3. Shares(Held, lost, old)
    BY DEF IInv
  <2>4. Shares(Held', lost, old + n)
    <3> HIDE DEF old
    <3> QED
      BY <1>2, <2>2, <2>3, TakeShares
  <2> QED
    BY <1>1, <1>5, <2>4
<1>11. CallShape'
  BY <1>1, <1>7 DEF IInv, CallShape
<1>12. TimeoutsOfWaitFor' /\ MatchIsFirst'
  BY <1>1 DEF IInv, TimeoutsOfWaitFor, MatchIsFirst, Values
<1>13. AtMostMaxBytes'
  <2>1. Len(buf'[c]) <= MaxBytes
    <3>1. Len(buf[c]) \in Nat
      BY <1>7
    <3> QED
      BY <1>1, <1>2, <1>8, <3>1, ParameterAssumption
  <2> QED
    BY <1>1, <1>7, <2>1 DEF IInv, AtMostMaxBytes
<1> QED
  BY <1>6, <1>9, <1>10, <1>11, <1>12, <1>13 DEF IInv

(* What the steps that empty the buffer of a call have in common. *)
Settles(c, m) ==
    /\ pc[c] = "reading"
    /\ Return(c) \/ (tool[c] = "stream" /\ UNCHANGED pc)
    /\ m \in 0..MaxBytes
    /\ matchAt' = [matchAt EXCEPT ![c] = m]
    /\ buf' = [buf EXCEPT ![c] = <<>>]
    /\ UNCHANGED <<data, arrived, osBuf, tool>>

LEMMA SettlesFacts ==
    ASSUME IInv, NEW c \in Call, NEW m, Settles(c, m)
    PROVE  /\ buf'[c] = <<>> /\ matchAt'[c] = m
           /\ pc'[c] = "returned" \/ (tool[c] = "stream" /\ pc'[c] = "reading")
           /\ \A d \in Call : d # c => /\ buf'[d] = buf[d] /\ matchAt'[d] = matchAt[d]
                                       /\ pc'[d] = pc[d]
           /\ pc' \in [Call -> {"idle", "reading", "returned"}]
           /\ matchAt' \in [Call -> 0..MaxBytes]
           /\ buf' \in [Call -> Seq(1..NBytes)]
           /\ \A d \in Call : buf[d] \in Seq(Byte) /\ result[d] \in Seq(Byte)
           /\ OsNewest'
           /\ tool[c] # "stream" => result[c] = <<>> /\ matchAt[c] = 0
<1>1. /\ buf' = [buf EXCEPT ![c] = <<>>] /\ buf \in [Call -> Seq(1..NBytes)]
      /\ matchAt' = [matchAt EXCEPT ![c] = m] /\ matchAt \in [Call -> 0..MaxBytes]
      /\ m \in 0..MaxBytes /\ result \in [Call -> Seq(1..NBytes)]
      /\ pc \in [Call -> {"idle", "reading", "returned"}] /\ pc[c] = "reading"
      /\ pc' = [pc EXCEPT ![c] = "returned"] \/ (tool[c] = "stream" /\ pc' = pc)
  BY DEF IInv, TypeOK, Settles, Return
<1>2. /\ buf'[c] = <<>> /\ matchAt'[c] = m
      /\ buf' \in [Call -> Seq(1..NBytes)] /\ matchAt' \in [Call -> 0..MaxBytes]
      /\ \A d \in Call : d # c => buf'[d] = buf[d] /\ matchAt'[d] = matchAt[d]
  BY <1>1
<1>3. /\ pc' \in [Call -> {"idle", "reading", "returned"}]
      /\ pc'[c] = "returned" \/ (tool[c] = "stream" /\ pc'[c] = "reading")
      /\ \A d \in Call : d # c => pc'[d] = pc[d]
  BY <1>1
<1>4. \A d \in Call : buf[d] \in Seq(Byte) /\ result[d] \in Seq(Byte)
  BY <1>1 DEF Byte
<1>5. OsNewest'
  BY DEF IInv, OsNewest, Settles
<1>6. tool[c] # "stream" => result[c] = <<>> /\ matchAt[c] = 0
  BY <1>1 DEF IInv, CallShape
<1> QED
  BY <1>2, <1>3, <1>4, <1>5, <1>6

(* Values, with the data as a parameter. *)
DataOf(values, s) == [k \in DOMAIN s |-> values[s[k]]]

(* A call passes on what it has, whether it ends by that or not. *)
LEMMA PassOnStep ==
    ASSUME IInv, NEW c \in Call, NEW m, Settles(c, m),
           result' = [result EXCEPT ![c] = @ \o buf[c]], UNCHANGED lost,
           tool[c] = "wait_for" => m = Found(c) /\ (m = 0 => Len(buf[c]) = MaxBytes)
    PROVE  IInv'
<1>1. UNCHANGED <<data, arrived, osBuf, tool>>
  BY DEF Settles
<1>2. /\ result \in [Call -> Seq(Byte)]
      /\ result[c] \in Seq(Byte) /\ buf[c] \in Seq(Byte)
      /\ result[c] \o buf[c] \in Seq(Byte)
  <2>1. result[c] \in Seq(Byte) /\ buf[c] \in Seq(Byte)
    BY SettlesFacts
  <2> QED
    BY <2>1 DEF IInv, TypeOK, Byte
<1>3. /\ result' \in [Call -> Seq(Byte)]
      /\ result'[c] = result[c] \o buf[c]
      /\ \A d \in Call : d # c => result'[d] = result[d]
  BY <1>2
<1>4. tool[c] # "stream" => result'[c] = buf[c]
  BY <1>2, <1>3, SettlesFacts
<1>5. TypeOK'
  BY <1>1, <1>3, SettlesFacts DEF IInv, TypeOK, Byte
<1>6. Shares(Held, lost, arrived - Len(osBuf))'
  <2>1. /\ Held' = [d \in Call |-> result'[d] \o buf'[d]]
        /\ Held = [d \in Call |-> result[d] \o buf[d]]
    BY DEF Held
  <2>2. result'[c] \o buf'[c] = result[c] \o buf[c]
    <3>1. result'[c] \o <<>> = result'[c]
      BY <1>2, <1>3
    <3> QED
      BY <1>3, <3>1, SettlesFacts
  <2>3. \A d \in Call : result'[d] \o buf'[d] = result[d] \o buf[d]
    BY <1>3, <2>2, SettlesFacts
  <2>4. Held' = Held
    BY <2>1, <2>3
  <2> QED
    BY <1>1, <2>4 DEF IInv
<1>7. CallShape'
  <2> SUFFICES ASSUME NEW d \in Call
               PROVE  /\ pc'[d] = "idle" =>
                           buf'[d] = <<>> /\ result'[d] = <<>> /\ matchAt'[d] = 0
                      /\ pc'[d] = "reading" /\ tool'[d] # "stream" =>
                           result'[d] = <<>> /\ matchAt'[d] = 0
                      /\ pc'[d] = "returned" => buf'[d] = <<>>
    BY DEF CallShape
  <2>1. CASE d = c
    BY <1>1, <2>1, SettlesFacts
  <2>2. CASE d # c
    BY <1>1, <1>3, <2>2, SettlesFacts DEF IInv, CallShape
  <2> QED
    BY <2>1, <2>2
<1>8. TimeoutsOfWaitFor'
  BY <1>1, SettlesFacts DEF IInv, TimeoutsOfWaitFor
<1>9. MatchIsFirst'
  <2> SUFFICES ASSUME NEW d \in Call, tool'[d] = "wait_for", result'[d] # <<>>
               PROVE  /\ matchAt'[d] = FirstMatch(Values(result[d]))'
                      /\ matchAt'[d] = 0 => Len(result'[d]) = MaxBytes
    BY DEF MatchIsFirst
  <2>1. CASE d = c
    <3>1. tool[c] = "wait_for" /\ result'[c] = buf[c] /\ matchAt'[c] = m
      BY <1>1, <1>4, <2>1, SettlesFacts
    <3>2. Values(result[c])' = Values(buf[c])
      <4>1. result'[c] = buf[c] /\ data' = data
        BY <1>1, <3>1
      <4>2. Values(result[c])' = DataOf(data', result'[c])
        BY Zenon DEF Values, DataOf
      <4>3. Values(buf[c]) = DataOf(data, buf[c])
        BY Zenon DEF Values, DataOf
      <4> QED
        BY <4>1, <4>2, <4>3
    <3>3. FirstMatch(Values(result[c]))' = Found(c)
      BY <3>2, Zenon DEF Found
    <3> QED
      BY <2>1, <3>1, <3>3
  <2>2. CASE d # c
    <3>1. result'[d] = result[d] /\ matchAt'[d] = matchAt[d] /\ tool[d] = "wait_for"
      BY <1>1, <1>3, <2>2, SettlesFacts
    <3>2. Values(result[d])' = Values(result[d])
      <4>1. result'[d] = result[d] /\ data' = data
        BY <1>1, <3>1
      <4>2. Values(result[d])' = DataOf(data', result'[d])
        BY Zenon DEF Values, DataOf
      <4>3. Values(result[d]) = DataOf(data, result[d])
        BY Zenon DEF Values, DataOf
      <4> QED
        BY <4>1, <4>2, <4>3
    <3>3. FirstMatch(Values(result[d]))' = FirstMatch(Values(result[d]))
      BY <3>2, Zenon
    <3> QED
      BY <2>2, <3>1, <3>3 DEF IInv, MatchIsFirst
  <2> QED
    BY <2>1, <2>2
<1>10. AtMostMaxBytes'
  <2>1. Len(<<>>) <= MaxBytes
    BY ParameterAssumption
  <2> QED
    BY <1>1, <1>3, <1>4, <2>1, SettlesFacts DEF IInv, AtMostMaxBytes
<1> QED
  BY <1>5, <1>6, <1>7, <1>8, <1>9, <1>10, SettlesFacts DEF IInv

(* A call loses what it has, whether it ends by that or not. *)
LEMMA LoseStep ==
    ASSUME IInv, NEW c \in Call, NEW m, Settles(c, m), NEW reason,
           lost' = lost \cup {<<b, c, reason>> : b \in ToSet(buf[c])}, UNCHANGED result,
           reason = "timeout" => buf[c] = <<>> \/ tool[c] = "wait_for"
    PROVE  IInv'
<1> DEFINE old == arrived - Len(osBuf)
<1>1. UNCHANGED <<data, arrived, osBuf, tool>>
  BY DEF Settles
<1>2. result[c] \in Seq(Byte) /\ buf[c] \in Seq(Byte)
  BY SettlesFacts
<1>3. /\ arrived \in Nat /\ old \in Nat /\ old <= arrived
  BY OsProperties
<1>4. Shares(Held', lost', old)
  <2>1. Held' = [d \in Call |-> IF d = c THEN result[c] ELSE Held[d]]
    <3>1. /\ Held' = [d \in Call |-> result'[d] \o buf'[d]]
          /\ \A d \in Call : Held[d] = result[d] \o buf[d]
      BY DEF Held
    <3>2. result'[c] \o buf'[c] = result[c]
      <4>1. result[c] \o <<>> = result[c]
        BY <1>2
      <4> QED
        BY <4>1, SettlesFacts
    <3>3. \A d \in Call : d # c => result'[d] \o buf'[d] = result[d] \o buf[d]
      BY SettlesFacts
    <3> QED
      BY <3>1, <3>2, <3>3
  <2>2. Shares(Held, lost, old) /\ Held[c] = result[c] \o buf[c]
    BY DEF IInv, Held
  <2> DEFINE first == result[c]
             rest == buf[c]
             next == Held'
  <2>3. /\ first \in Seq(Byte) /\ rest \in Seq(Byte) /\ old \in Nat
        /\ Shares(Held, lost, old) /\ Held[c] = first \o rest
        /\ next[c] = first
        /\ \A d \in Call : d # c => next[d] = Held[d]
        /\ lost' = Losing(lost, c, reason, rest)
    BY <1>2, <1>3, <2>1, <2>2 DEF Losing
  <2> HIDE DEF old, first, rest, next
  <2>5. Shares(next, Losing(lost, c, reason, rest), old)
    BY <2>3, DropShares
  <2>4. Shares(next, lost', old)
    BY <2>3, <2>5
  <2> QED
    BY <2>4 DEF next
<1>5. Shares(Held, lost, arrived - Len(osBuf))'
  BY <1>1, <1>4
<1>6. \A l \in lost' : l[1] \in 1..arrived
  <2>1. \A l \in lost' : l[1] \in 1..old
    BY <1>4 DEF Shares
  <2> HIDE DEF old
  <2> QED
    BY <1>3, <2>1
<1>7. TypeOK'
  BY <1>1, <1>6, SettlesFacts DEF IInv, TypeOK
<1>8. CallShape'
  BY <1>1, SettlesFacts DEF IInv, CallShape
<1>9. TimeoutsOfWaitFor'
  <2>1. ASSUME NEW l \in lost', l[3] = "timeout", l \notin lost
        PROVE  l[2] = c /\ tool[c] = "wait_for"
    <3>1. PICK b \in ToSet(buf[c]) : l = <<b, c, reason>>
      BY <2>1
    <3>2. buf[c] # <<>>
      <4>1. PICK k \in DOMAIN buf[c] : buf[c][k] = b
        BY DEF ToSet
      <4> QED
        BY <1>2, <4>1
    <3> QED
      BY <2>1, <3>1, <3>2
  <2>2. pc'[c] # "idle" /\ pc[c] = "reading"
    BY SettlesFacts DEF Settles
  <2> QED
    BY <1>1, <2>1, <2>2, SettlesFacts DEF IInv, TimeoutsOfWaitFor
<1>10. MatchIsFirst'
  <2> SUFFICES ASSUME NEW d \in Call, tool'[d] = "wait_for", result'[d] # <<>>
               PROVE  /\ matchAt'[d] = FirstMatch(Values(result[d]))'
                      /\ matchAt'[d] = 0 => Len(result'[d]) = MaxBytes
    BY DEF MatchIsFirst
  <2>1. d # c /\ tool[d] = "wait_for" /\ result[d] # <<>>
    BY <1>1, SettlesFacts
  <2>2. matchAt'[d] = matchAt[d] /\ result'[d] = result[d]
    BY <2>1, SettlesFacts
  <2>3. FirstMatch(Values(result[d]))' = FirstMatch(Values(result[d]))
    BY <1>1, <2>2 DEF Values, FirstMatch, Occurs
  <2> QED
    BY <2>1, <2>2, <2>3 DEF IInv, MatchIsFirst
<1>11. AtMostMaxBytes'
  <2>1. Len(<<>>) <= MaxBytes
    BY ParameterAssumption
  <2> QED
    BY <1>1, <2>1, SettlesFacts DEF IInv, AtMostMaxBytes
<1> QED
  BY <1>5, <1>7, <1>8, <1>9, <1>10, <1>11, SettlesFacts DEF IInv

(* An answer or a notification: the bytes go to the client, or they cannot *)
(* be encoded.                                                             *)
LEMMA DeliverStep ==
    ASSUME IInv, NEW c \in Call, NEW m \in 0..MaxBytes, pc[c] = "reading", Deliver(c),
           Return(c) \/ (tool[c] = "stream" /\ UNCHANGED pc),
           matchAt' = [matchAt EXCEPT ![c] = m],
           tool[c] = "wait_for" => m = Found(c) /\ (m = 0 => Len(buf[c]) = MaxBytes),
           UNCHANGED <<data, arrived, osBuf, tool>>
    PROVE  IInv'
<1>1. Settles(c, m)
  BY DEF Settles, Deliver
<1>2. CASE result' = [result EXCEPT ![c] = @ \o buf[c]] /\ UNCHANGED lost
  BY <1>1, <1>2, PassOnStep
<1>3. CASE lost' = lost \cup {<<b, c, "encoding">> : b \in ToSet(buf[c])} /\ UNCHANGED result
  BY <1>1, <1>3, LoseStep
<1> QED
  BY <1>2, <1>3 DEF Deliver

LEMMA MatchAtSame ==
    ASSUME IInv, NEW c \in Call, UNCHANGED matchAt
    PROVE  matchAt[c] \in 0..MaxBytes /\ matchAt' = [matchAt EXCEPT ![c] = matchAt[c]]
  BY DEF IInv, TypeOK

(* A call that ends in an error. *)
LEMMA DiscardStep ==
    ASSUME IInv, NEW c \in Call, NEW reason, pc[c] = "reading", Discard(c, reason), Return(c),
           reason = "timeout" => buf[c] = <<>> \/ tool[c] = "wait_for",
           UNCHANGED <<data, arrived, osBuf, tool, matchAt>>
    PROVE  IInv'
<1>1. Settles(c, matchAt[c])
  BY MatchAtSame DEF Settles, Discard
<1> QED
  BY <1>1, LoseStep DEF Discard

LEMMA FoundRange == ASSUME IInv, NEW c \in Call PROVE Found(c) \in 0..MaxBytes
<1>1. buf[c] \in Seq(Byte) /\ Len(buf[c]) <= MaxBytes
  BY DEF IInv, TypeOK, AtMostMaxBytes, Byte
<1>2. DOMAIN Values(buf[c]) = 1..Len(buf[c]) /\ Len(buf[c]) \in Nat
  BY <1>1 DEF Values
<1>3. Found(c) \in 0..Len(buf[c])
  BY <1>2, FirstMatchRange DEF Found
<1> QED
  BY <1>1, <1>2, <1>3, ParameterAssumption

LEMMA NextHolds == ASSUME IInv, [Next]_vars PROVE IInv'
<1>1. CASE UNCHANGED vars
  <2>1. UNCHANGED CallVars /\ UNCHANGED <<arrived, osBuf, lost>>
    BY <1>1 DEF vars, CallVars
  <2>2. Held' = Held /\ CallShape' /\ MatchIsFirst' /\ AtMostMaxBytes'
    BY <2>1, CallPartSame
  <2>3. Shares(Held, lost, arrived - Len(osBuf))'
    BY <2>1, <2>2 DEF IInv
  <2>4. TypeOK' /\ OsNewest' /\ TimeoutsOfWaitFor'
    BY <2>1 DEF IInv, TypeOK, OsNewest, TimeoutsOfWaitFor, CallVars
  <2> QED
    BY <2>2, <2>3, <2>4 DEF IInv
<1>2. CASE Arrive
  BY <1>2, ArriveStep
<1>3. CASE FlushInput
  BY <1>3, FlushStep
<1>4. ASSUME NEW c \in Call, Start(c) PROVE IInv'
  BY <1>4, StartStep
<1>5. ASSUME NEW c \in Call,
             ReadTakes(c) \/ WaitTakes(c) \/ CollectTakes(c) \/ StreamTakes(c) \/ RawTakes(c)
      PROVE  IInv'
  <2>1. PICK n \in 1..Len(osBuf) : Take(c, n)
    BY <1>5 DEF ReadTakes, WaitTakes, CollectTakes, StreamTakes, RawTakes
  <2>2. pc[c] = "reading"
    BY <1>5 DEF ReadTakes, WaitTakes, CollectTakes, StreamTakes, RawTakes, Running
  <2> QED
    BY <2>1, <2>2, TakeStep
<1>6. ASSUME NEW c \in Call, ReadReturns(c) PROVE IInv'
  <2>1. /\ pc[c] = "reading" /\ tool[c] = "read" /\ Deliver(c) /\ Return(c)
        /\ UNCHANGED <<data, arrived, osBuf, tool>> /\ UNCHANGED matchAt
    BY <1>6 DEF ReadReturns, Running
  <2>2. tool[c] # "wait_for"
    BY <2>1
  <2> QED
    BY <2>1, <2>2, MatchAtSame, DeliverStep
<1>7. ASSUME NEW c \in Call, CollectReturns(c) PROVE IInv'
  <2>1. /\ pc[c] = "reading" /\ tool[c] = "collect" /\ Deliver(c) /\ Return(c)
        /\ UNCHANGED <<data, arrived, osBuf, tool>> /\ UNCHANGED matchAt
    BY <1>7 DEF CollectReturns, Running
  <2>2. tool[c] # "wait_for"
    BY <2>1
  <2> QED
    BY <2>1, <2>2, MatchAtSame, DeliverStep
<1>8. ASSUME NEW c \in Call, StreamNotifies(c) PROVE IInv'
  <2>1. /\ pc[c] = "reading" /\ tool[c] = "stream" /\ Deliver(c) /\ UNCHANGED pc
        /\ UNCHANGED <<data, arrived, osBuf, tool>> /\ UNCHANGED matchAt
    BY <1>8 DEF StreamNotifies, Running
  <2>2. tool[c] # "wait_for"
    BY <2>1
  <2> QED
    BY <2>1, <2>2, MatchAtSame, DeliverStep
<1>9. ASSUME NEW c \in Call, WaitMatches(c) PROVE IInv'
  <2>1. /\ pc[c] = "reading" /\ Deliver(c) /\ Return(c) /\ Found(c) # 0
        /\ matchAt' = [matchAt EXCEPT ![c] = Found(c)]
        /\ UNCHANGED <<data, arrived, osBuf, tool>>
    BY <1>9 DEF WaitMatches, Running
  <2> QED
    BY <2>1, FoundRange, DeliverStep
<1>10. ASSUME NEW c \in Call, WaitFillsUp(c) PROVE IInv'
  <2>1. /\ pc[c] = "reading" /\ tool[c] = "wait_for" /\ Deliver(c) /\ Return(c)
        /\ Found(c) = 0 /\ MaxBytes - Len(buf[c]) = 0
        /\ UNCHANGED <<data, arrived, osBuf, tool>> /\ UNCHANGED matchAt
    BY <1>10 DEF WaitFillsUp, Running, Room
  <2>2. matchAt[c] = 0
    BY <2>1 DEF IInv, CallShape
  <2>3. Len(buf[c]) = MaxBytes
    <3>1. Len(buf[c]) \in Nat
      BY DEF IInv, TypeOK
    <3> QED
      BY <2>1, <3>1, ParameterAssumption
  <2> QED
    BY <2>1, <2>2, <2>3, MatchAtSame, DeliverStep
<1>11. ASSUME NEW c \in Call, RawReturns(c) PROVE IInv'
  <2>1. /\ pc[c] = "reading" /\ tool[c] = "raw" /\ Return(c)
        /\ result' = [result EXCEPT ![c] = buf[c]] /\ buf' = [buf EXCEPT ![c] = <<>>]
        /\ UNCHANGED <<data, arrived, osBuf, tool>> /\ UNCHANGED matchAt /\ UNCHANGED lost
    BY <1>11 DEF RawReturns, Running
  <2>2. Settles(c, matchAt[c])
    BY <2>1, MatchAtSame DEF Settles
  <2>3. result[c] = <<>> /\ buf[c] \in Seq(Byte)
    BY <2>1 DEF IInv, CallShape, TypeOK, Byte
  <2>4. result[c] \o buf[c] = buf[c]
    BY <2>3
  <2>5. result' = [result EXCEPT ![c] = @ \o buf[c]]
    BY <2>1, <2>4
  <2>6. tool[c] # "wait_for"
    BY <2>1
  <2> QED
    BY <2>1, <2>2, <2>5, <2>6, PassOnStep
<1>12. ASSUME NEW c \in Call, ReadTimesOut(c) \/ WaitTimesOut(c) PROVE IInv'
  <2>1. /\ pc[c] = "reading" /\ Discard(c, "timeout") /\ Return(c)
        /\ buf[c] = <<>> \/ tool[c] = "wait_for"
        /\ UNCHANGED <<data, arrived, osBuf, tool, matchAt>>
    BY <1>12 DEF ReadTimesOut, WaitTimesOut, Running
  <2> QED
    BY <2>1, DiscardStep
<1>13. ASSUME NEW c \in Call, ReadFails(c) \/ WaitFails(c) \/ CollectFails(c) \/ StreamEnds(c)
       PROVE  IInv'
  <2>1. PICK reason \in {"cancelled", "port error", "aborted", "peer gone"} : Discard(c, reason)
    BY <1>13 DEF ReadFails, WaitFails, CollectFails, StreamEnds
  <2>2. /\ pc[c] = "reading" /\ Return(c) /\ UNCHANGED <<data, arrived, osBuf, tool, matchAt>>
    BY <1>13 DEF ReadFails, WaitFails, CollectFails, StreamEnds, Running
  <2>3. reason # "timeout"
    OBVIOUS
  <2> QED
    BY <2>1, <2>2, <2>3, DiscardStep
<1> QED
  BY <1>1, <1>2, <1>3, <1>4, <1>5, <1>6, <1>7, <1>8, <1>9, <1>10, <1>11, <1>12, <1>13 DEF Next

LEMMA Invariance == Spec => []IInv
<1>1. Init => IInv
  BY InitHolds
<1>2. IInv /\ [Next]_vars => IInv'
  BY NextHolds
<1> QED
  BY <1>1, <1>2, PTL DEF Spec

-----------------------------------------------------------------------------
(* What a wait_for drops.  The operators that follow are those of the      *)
(* model with the variables as parameters.                                 *)

Failure == {"timeout", "port error"}

LostOf(gone, c, reasons) == {l[1] : l \in {x \in gone : x[2] = c /\ x[3] \in reasons}}

HidesIn(values, B) ==
    \E at \in [DOMAIN Pattern -> B] :
        /\ \A k \in DOMAIN Pattern : values[at[k]] = Pattern[k]
        /\ \A k \in DOMAIN Pattern \ {1} :
              at[k - 1] < at[k] /\ \A b \in B : ~ (at[k - 1] < b /\ b < at[k])

DropFree(values, gone, tools) ==
    \A c \in Call : tools[c] = "wait_for" => ~ HidesIn(values, LostOf(gone, c, Failure))

(* Only a call that has returned has lost bytes by failing. *)
FailedReturned ==
    \A l \in lost : l[3] \in Failure => l[2] \in Call /\ pc[l[2]] = "returned"

DropInv == FailedReturned /\ DropFree(data, lost, tool)

LEMMA LostMembers ==
    ASSUME NEW gone, NEW c, NEW reasons, NEW b
    PROVE  b \in LostOf(gone, c, reasons) <=>
               \E l \in gone : l[1] = b /\ l[2] = c /\ l[3] \in reasons
  BY DEF LostOf

LEMMA SameMembers ==
    ASSUME NEW S, NEW T, \A x : x \in S <=> x \in T
    PROVE  S = T
  OBVIOUS

(* Bytes lost for other reasons, or by others, make no difference. *)
LEMMA LostOfSame ==
    ASSUME NEW gone, NEW after, NEW c, NEW reasons, gone \subseteq after,
           \A l \in after : l[2] = c /\ l[3] \in reasons => l \in gone
    PROVE  LostOf(after, c, reasons) = LostOf(gone, c, reasons)
<1>1. ASSUME NEW b
      PROVE  b \in LostOf(after, c, reasons) <=> b \in LostOf(gone, c, reasons)
  <2>1. (\E l \in after : l[1] = b /\ l[2] = c /\ l[3] \in reasons)
        <=> \E l \in gone : l[1] = b /\ l[2] = c /\ l[3] \in reasons
    OBVIOUS
  <2> QED
    BY <2>1, LostMembers
<1> QED
  BY <1>1, SameMembers

LEMMA NothingHides == ASSUME NEW values PROVE ~ HidesIn(values, {})
<1>1. 1 \in DOMAIN Pattern
  BY ParameterAssumption
<1> QED
  BY <1>1 DEF HidesIn

(* What the search does not find in a buffer is not hidden in its bytes. *)
LEMMA SearchComplete ==
    ASSUME NEW values, NEW s \in Seq(Byte), Increasing(s), HidesIn(values, ToSet(s))
    PROVE  FirstMatch(DataOf(values, s)) # 0
<1> DEFINE p == Len(Pattern)
           n == Len(s)
<1>1. p \in Nat \ {0} /\ n \in Nat /\ DOMAIN Pattern = 1..p /\ DOMAIN s = 1..n
  BY ParameterAssumption
<1>2. PICK at \in [1..p -> ToSet(s)] :
         /\ \A k \in 1..p : values[at[k]] = Pattern[k]
         /\ \A k \in (1..p) \ {1} :
               at[k - 1] < at[k] /\ \A b \in ToSet(s) : ~ (at[k - 1] < b /\ b < at[k])
  BY <1>1 DEF HidesIn
<1>3. \A b \in ToSet(s) : \E j \in 1..n : s[j] = b
  BY <1>1 DEF ToSet
<1>4. \A j \in 1..n : s[j] \in ToSet(s) /\ s[j] \in Int
  <2>1. \A j \in 1..n : s[j] \in ToSet(s)
    BY <1>1 DEF ToSet
  <2>2. \A j \in 1..n : s[j] \in Byte
    OBVIOUS
  <2> QED
    BY <2>1, <2>2 DEF Byte
<1>5. \A i, j \in 1..n : i < j => s[i] < s[j]
  BY <1>1 DEF Increasing
<1> DEFINE pos == [k \in 1..p |-> CHOOSE j \in 1..n : s[j] = at[k]]
<1> HIDE DEF p, n
<1>6. \A k \in 1..p : pos[k] \in 1..n /\ s[pos[k]] = at[k]
  BY <1>2, <1>3
<1>7. pos \in [1..p -> 1..n]
  BY <1>6
<1> HIDE DEF pos
<1>8. ASSUME NEW k \in 2..p PROVE pos[k] = pos[k - 1] + 1
  <2> DEFINE i == pos[k - 1]
             j == pos[k]
  <2>1. k - 1 \in 1..p /\ k \in (1..p) \ {1}
    BY <1>1
  <2>2. i \in 1..n /\ j \in 1..n /\ s[i] < s[j]
    BY <1>2, <1>6, <2>1
  <2>3. \A b \in ToSet(s) : ~ (s[i] < b /\ b < s[j])
    BY <1>2, <1>6, <2>1
  <2> HIDE DEF i, j
  <2>4. ~ (j < i) /\ i # j
    BY <1>4, <1>5, <2>2
  <2>5. i < j
    BY <2>2, <2>4
  <2>6. ASSUME i + 1 < j PROVE FALSE
    <3>1. i + 1 \in 1..n /\ i < i + 1
      BY <1>1, <2>2, <2>6
    <3>2. s[i] < s[i + 1] /\ s[i + 1] < s[j] /\ s[i + 1] \in ToSet(s)
      BY <1>4, <1>5, <2>2, <2>6, <3>1
    <3> QED
      BY <2>3, <3>2
  <2>7. j = i + 1
    BY <1>1, <2>2, <2>5, <2>6
  <2> QED
    BY <2>7 DEF i, j
<1>9. \A k \in 1..p : pos[k] = pos[1] + k - 1
  BY <1>1, <1>7, <1>8, Consecutive
<1> DEFINE v == DataOf(values, s)
           first == pos[1]
<1>10. DOMAIN v = 1..n /\ \A j \in 1..n : v[j] = values[s[j]]
  BY <1>1 DEF DataOf
<1>11. Len(v) = n
  BY <1>1, <1>10 DEF DataOf
<1>12. 1 \in 1..p /\ p \in 1..p
  BY <1>1
<1>13. first \in 1..n /\ pos[p] \in 1..n /\ pos[p] = first + p - 1
  BY <1>6, <1>9, <1>12
<1> HIDE DEF v, first
<1>14. \A k \in 1..p : pos[k] = first + k - 1 /\ v[pos[k]] = Pattern[k]
  BY <1>2, <1>6, <1>9, <1>10 DEF first
<1>15. Occurs(v, first)
  <2>1. first + Len(Pattern) - 1 <= Len(v)
    BY <1>1, <1>11, <1>13 DEF p
  <2>2. \A k \in DOMAIN Pattern : v[first + k - 1] = Pattern[k]
    BY <1>1, <1>14
  <2> QED
    BY <2>1, <2>2 DEF Occurs
<1>16. FirstMatch(v) # 0
  BY <1>1, <1>10, <1>13, <1>15, FirstMatchRange
<1> QED
  BY <1>16 DEF v

(* No bytes are lost by failing, and no call that has begun changes tool. *)
LEMMA DropFreeStays ==
    ASSUME DropInv, lost \subseteq lost', \A l \in lost' : l[3] \in Failure => l \in lost,
           UNCHANGED data,
           \A c \in Call : pc[c] = "returned" => pc'[c] = "returned",
           \A c \in Call : tool'[c] = tool[c] \/ pc[c] = "idle"
    PROVE  DropInv'
<1>1. FailedReturned'
  BY DEF DropInv, FailedReturned
<1>2. ASSUME NEW c \in Call, tool'[c] = "wait_for"
      PROVE  ~ HidesIn(data, LostOf(lost', c, Failure))
  <2>1. LostOf(lost', c, Failure) = LostOf(lost, c, Failure)
    <3>1. \A l \in lost' : l[2] = c /\ l[3] \in Failure => l \in lost
      OBVIOUS
    <3> QED
      BY <3>1, LostOfSame
  <2>2. CASE tool'[c] = tool[c]
    BY <1>2, <2>1, <2>2 DEF DropInv, DropFree
  <2>3. CASE pc[c] = "idle"
    <3>1. \A b : b \notin LostOf(lost, c, Failure)
      BY <2>3, LostMembers DEF DropInv, FailedReturned
    <3>2. LostOf(lost, c, Failure) = {}
      BY <3>1
    <3> QED
      BY <2>1, <3>2, NothingHides
  <2> QED
    BY <2>2, <2>3
<1>3. DropFree(data', lost', tool')
  BY <1>2 DEF DropFree
<1> QED
  BY <1>1, <1>3 DEF DropInv

(* A call that fails drops its buffer, in which its pattern is not found. *)
LEMMA FailureStep ==
    ASSUME IInv, DropInv, NEW c \in Call, NEW reason \in Failure,
           pc[c] = "reading", Discard(c, reason), Return(c),
           UNCHANGED <<data, tool>>, tool[c] = "wait_for" => Found(c) = 0
    PROVE  DropInv'
<1> DEFINE more == {<<b, c, reason>> : b \in ToSet(buf[c])}
<1>1. lost' = lost \cup more
  BY DEF Discard
<1>2. /\ pc'[c] = "returned"
      /\ \A d \in Call : d # c => pc'[d] = pc[d]
  BY DEF Return, IInv, TypeOK
<1>3. \A l \in more : l[2] = c /\ l[1] \in ToSet(buf[c])
  OBVIOUS
<1>4. FailedReturned'
  BY <1>1, <1>2, <1>3 DEF DropInv, FailedReturned
<1>5. ASSUME NEW d \in Call, d # c, tool[d] = "wait_for"
      PROVE  ~ HidesIn(data, LostOf(lost', d, Failure))
  <2>1. lost \subseteq lost' /\ \A l \in lost' : l[2] = d /\ l[3] \in Failure => l \in lost
    BY <1>1, <1>3, <1>5
  <2> HIDE DEF more
  <2>2. LostOf(lost', d, Failure) = LostOf(lost, d, Failure)
    BY <2>1, LostOfSame
  <2> QED
    BY <1>5, <2>2 DEF DropInv, DropFree
<1>6. ASSUME tool[c] = "wait_for" PROVE ~ HidesIn(data, LostOf(lost', c, Failure))
  <2>1. \A l \in lost : ~ (l[2] = c /\ l[3] \in Failure)
    BY DEF DropInv, FailedReturned
  <2>2. \A b \in ToSet(buf[c]) : <<b, c, reason>> \in lost'
    BY <1>1
  <2>3. ASSUME NEW b
        PROVE  b \in LostOf(lost', c, Failure) <=> b \in ToSet(buf[c])
    <3>1. ASSUME b \in ToSet(buf[c]) PROVE b \in LostOf(lost', c, Failure)
      <4>1. <<b, c, reason>> \in lost'
        BY <2>2, <3>1
      <4>2. \E l \in lost' : l[1] = b /\ l[2] = c /\ l[3] \in Failure
        BY <4>1
      <4> QED
        BY <4>2, LostMembers
    <3>2. ASSUME b \in LostOf(lost', c, Failure) PROVE b \in ToSet(buf[c])
      <4>1. PICK l \in lost' : l[1] = b /\ l[2] = c /\ l[3] \in Failure
        BY <3>2, LostMembers
      <4>2. l \in more
        BY <1>1, <2>1, <4>1
      <4> QED
        BY <1>3, <4>1, <4>2
    <3> QED
      BY <3>1, <3>2
  <2>4. LostOf(lost', c, Failure) = ToSet(buf[c])
    BY <2>3, SameMembers
  <2>5. buf[c] \in Seq(Byte) /\ Increasing(buf[c])
    <3>1. result[c] = <<>> /\ buf[c] \in Seq(Byte)
      BY <1>6 DEF IInv, CallShape, TypeOK, Byte
    <3>2. Increasing(result[c] \o buf[c])
      BY DEF IInv, Shares, Held
    <3>3. result[c] \o buf[c] = buf[c]
      BY <3>1
    <3> QED
      BY <3>1, <3>2, <3>3
  <2>6. FirstMatch(DataOf(data, buf[c])) = 0
    <3>1. Values(buf[c]) = DataOf(data, buf[c])
      BY Zenon DEF Values, DataOf
    <3> QED
      BY <1>6, <3>1 DEF Found
  <2> QED
    BY <2>4, <2>5, <2>6, SearchComplete
<1>7. DropFree(data', lost', tool')
  BY <1>5, <1>6 DEF DropFree
<1> QED
  BY <1>4, <1>7 DEF DropInv

LEMMA DropNextHolds == ASSUME IInv, DropInv, [Next]_vars PROVE DropInv'
<1>1. ASSUME UNCHANGED <<data, pc, tool, lost>> PROVE DropInv'
  BY <1>1 DEF DropInv, FailedReturned
<1>2. CASE UNCHANGED vars
  BY <1>1, <1>2 DEF vars
<1>3. CASE Arrive
  BY <1>1, <1>3 DEF Arrive
<1>4. CASE FlushInput
  <2>1. /\ lost' = lost \cup {<<b, "client", "flush">> : b \in ToSet(osBuf)}
        /\ UNCHANGED <<data, pc, tool>>
    BY <1>4 DEF FlushInput
  <2>2. "flush" \notin Failure
    BY DEF Failure
  <2>3. lost \subseteq lost' /\ \A l \in lost' : l[3] \in Failure => l \in lost
    BY <2>1, <2>2
  <2> QED
    BY <2>1, <2>3, DropFreeStays
<1>5. ASSUME NEW c \in Call, Start(c) PROVE DropInv'
  <2>1. /\ UNCHANGED <<data, lost>>
        /\ \A d \in Call : pc[d] = "returned" => pc'[d] = "returned"
        /\ \A d \in Call : tool'[d] = tool[d] \/ pc[d] = "idle"
    BY <1>5 DEF Start, IInv, TypeOK
  <2>2. lost \subseteq lost' /\ \A l \in lost' : l[3] \in Failure => l \in lost
    BY <2>1
  <2> QED
    BY <2>1, <2>2, DropFreeStays
<1>6. ASSUME NEW c \in Call,
             ReadTakes(c) \/ WaitTakes(c) \/ CollectTakes(c) \/ StreamTakes(c) \/ RawTakes(c)
      PROVE  DropInv'
  <2>1. PICK n \in 1..Len(osBuf) : Take(c, n)
    BY <1>6 DEF ReadTakes, WaitTakes, CollectTakes, StreamTakes, RawTakes
  <2> QED
    BY <1>1, <2>1 DEF Take
<1>7. ASSUME NEW c \in Call, NEW reason, reason \notin Failure,
             \/ UNCHANGED lost
             \/ lost' = lost \cup {<<b, c, reason>> : b \in ToSet(buf[c])},
             Return(c) \/ UNCHANGED pc, UNCHANGED <<data, tool>>
      PROVE  DropInv'
  <2>1. lost \subseteq lost' /\ \A l \in lost' : l[3] \in Failure => l \in lost
    BY <1>7
  <2>2. \A d \in Call : pc[d] = "returned" => pc'[d] = "returned"
    BY <1>7 DEF Return, IInv, TypeOK
  <2> QED
    BY <1>7, <2>1, <2>2, DropFreeStays
<1>8. "encoding" \notin Failure /\ "cancelled" \notin Failure
      /\ "aborted" \notin Failure /\ "peer gone" \notin Failure
      /\ "timeout" \in Failure /\ "port error" \in Failure
  BY DEF Failure
<1>9. ASSUME NEW c \in Call,
             \/ ReadReturns(c) \/ WaitMatches(c) \/ WaitFillsUp(c) \/ CollectReturns(c)
             \/ StreamNotifies(c) \/ RawReturns(c)
      PROVE  DropInv'
  <2>1. /\ UNCHANGED lost
           \/ lost' = lost \cup {<<b, c, "encoding">> : b \in ToSet(buf[c])}
        /\ Return(c) \/ UNCHANGED pc
        /\ UNCHANGED <<data, tool>>
    BY <1>9 DEF ReadReturns, WaitMatches, WaitFillsUp, CollectReturns, StreamNotifies,
                RawReturns, Deliver
  <2> QED
    BY <1>7, <1>8, <2>1
<1>10. ASSUME NEW c \in Call, NEW reason \in {"cancelled", "aborted", "peer gone"},
              Discard(c, reason), Return(c), UNCHANGED <<data, tool>>
       PROVE  DropInv'
  <2>1. /\ lost' = lost \cup {<<b, c, reason>> : b \in ToSet(buf[c])}
        /\ reason \notin Failure
    BY <1>8, <1>10 DEF Discard
  <2> QED
    BY <1>7, <1>10, <2>1
<1>11. ASSUME NEW c \in Call, ReadTimesOut(c) \/ WaitTimesOut(c) PROVE DropInv'
  <2>1. /\ pc[c] = "reading" /\ Discard(c, "timeout") /\ Return(c)
        /\ UNCHANGED <<data, tool>> /\ (tool[c] = "wait_for" => Found(c) = 0)
    BY <1>11 DEF ReadTimesOut, WaitTimesOut, Running
  <2> QED
    BY <1>8, <2>1, FailureStep
<1>12. ASSUME NEW c \in Call, ReadFails(c) \/ WaitFails(c) \/ CollectFails(c) \/ StreamEnds(c)
       PROVE  DropInv'
  <2>1. pc[c] = "reading" /\ Return(c) /\ UNCHANGED <<data, tool>>
    BY <1>12 DEF ReadFails, WaitFails, CollectFails, StreamEnds, Running
  <2>2. CASE Discard(c, "port error") /\ (tool[c] = "wait_for" => Found(c) = 0)
    BY <1>8, <2>1, <2>2, FailureStep
  <2>3. CASE \E reason \in {"cancelled", "aborted", "peer gone"} : Discard(c, reason)
    BY <1>10, <2>1, <2>3
  <2> QED
    BY <1>12, <2>2, <2>3 DEF ReadFails, WaitFails, CollectFails, StreamEnds, Running
<1> QED
  BY <1>2, <1>3, <1>4, <1>5, <1>6, <1>9, <1>11, <1>12 DEF Next

LEMMA DropInvHolds == Spec => []DropInv
<1>1. Init => DropInv
  <2> SUFFICES ASSUME Init PROVE DropInv
    OBVIOUS
  <2>1. FailedReturned /\ \A c \in Call : LostOf(lost, c, Failure) = {}
    BY DEF Init, FailedReturned, LostOf
  <2>2. DropFree(data, lost, tool)
    BY <2>1, NothingHides DEF DropFree
  <2> QED
    BY <2>1, <2>2 DEF DropInv
<1>2. IInv /\ DropInv /\ [Next]_vars => DropInv'
  BY DropNextHolds
<1> QED
  BY <1>1, <1>2, Invariance, PTL DEF Spec

-----------------------------------------------------------------------------
(* Where a byte is. *)

LEMMA PlaceKinds ==
    ASSUME NEW b, NEW x
    PROVE  x \in Places(b) <=>
               \/ \E k \in DOMAIN osBuf : osBuf[k] = b /\ x = <<"os", k>>
               \/ \E c \in Call : \E k \in DOMAIN buf[c] : buf[c][k] = b /\ x = <<"call", c, k>>
               \/ \E c \in Call : \E k \in DOMAIN result[c] :
                      result[c][k] = b /\ x = <<"client", c, k>>
               \/ \E l \in lost : l[1] = b /\ x = <<"lost", l>>
<1>1. x \in {<<"os", k>> : k \in At(osBuf, b)}
         <=> \E k \in DOMAIN osBuf : osBuf[k] = b /\ x = <<"os", k>>
  BY DEF At
<1>2. x \in UNION {{<<"call", c, k>> : k \in At(buf[c], b)} : c \in Call}
         <=> \E c \in Call : \E k \in DOMAIN buf[c] : buf[c][k] = b /\ x = <<"call", c, k>>
  BY DEF At
<1>3. x \in UNION {{<<"client", c, k>> : k \in At(result[c], b)} : c \in Call}
         <=> \E c \in Call : \E k \in DOMAIN result[c] :
                 result[c][k] = b /\ x = <<"client", c, k>>
  BY DEF At
<1>4. x \in {<<"lost", l>> : l \in {y \in lost : y[1] = b}}
         <=> \E l \in lost : l[1] = b /\ x = <<"lost", l>>
  OBVIOUS
<1>5. x \in Places(b) <=>
         \/ x \in {<<"os", k>> : k \in At(osBuf, b)}
         \/ x \in UNION {{<<"call", c, k>> : k \in At(buf[c], b)} : c \in Call}
         \/ x \in UNION {{<<"client", c, k>> : k \in At(result[c], b)} : c \in Call}
         \/ x \in {<<"lost", l>> : l \in {y \in lost : y[1] = b}}
  <2> DEFINE os == {<<"os", k>> : k \in At(osBuf, b)}
             calls == UNION {{<<"call", c, k>> : k \in At(buf[c], b)} : c \in Call}
             clients == UNION {{<<"client", c, k>> : k \in At(result[c], b)} : c \in Call}
             gone == {<<"lost", l>> : l \in {y \in lost : y[1] = b}}
  <2>1. Places(b) = os \cup calls \cup clients \cup gone
    BY DEF Places
  <2> HIDE DEF os, calls, clients, gone
  <2>2. x \in Places(b) <=> x \in os \/ x \in calls \/ x \in clients \/ x \in gone
    BY <2>1
  <2> QED
    BY <2>2 DEF os, calls, clients, gone
<1> QED
  BY <1>1, <1>2, <1>3, <1>4, <1>5

LEMMA Elements ==
    ASSUME NEW S, NEW s \in Seq(S)
    PROVE  ToSet(s) \subseteq S /\ \A k \in DOMAIN s : s[k] \in ToSet(s)
<1>1. DOMAIN s = 1..Len(s) /\ \A k \in 1..Len(s) : s[k] \in S
  OBVIOUS
<1> QED
  BY <1>1 DEF ToSet

LEMMA Singleton ==
    ASSUME NEW T, NEW a, \A x : x \in T <=> x = a
    PROVE  T = {a}
  OBVIOUS

LEMMA HeldParts ==
    ASSUME IInv, NEW c \in Call
    PROVE  /\ ToSet(Held[c]) = ToSet(result[c]) \cup ToSet(buf[c])
           /\ \A j, k \in DOMAIN result[c] : result[c][j] = result[c][k] => j = k
           /\ \A j, k \in DOMAIN buf[c] : buf[c][j] = buf[c][k] => j = k
           /\ \A j \in DOMAIN result[c], k \in DOMAIN buf[c] : result[c][j] # buf[c][k]
           /\ ToSet(Held[c]) \subseteq 1..(arrived - Len(osBuf))
<1>1. result[c] \in Seq(Byte) /\ buf[c] \in Seq(Byte) /\ Held[c] = result[c] \o buf[c]
  BY DEF IInv, TypeOK, Byte, Held
<1>2. Held[c] \in Seq(1..(arrived - Len(osBuf))) /\ Increasing(result[c] \o buf[c])
  BY <1>1 DEF IInv, Shares
<1>3. ToSet(Held[c]) = ToSet(result[c]) \cup ToSet(buf[c])
  BY <1>1, ConcatSet
<1>4. /\ \A j, k \in DOMAIN result[c] : result[c][j] = result[c][k] => j = k
      /\ \A j, k \in DOMAIN buf[c] : buf[c][j] = buf[c][k] => j = k
      /\ \A j \in DOMAIN result[c], k \in DOMAIN buf[c] : result[c][j] # buf[c][k]
  BY <1>1, <1>2, IncreasingOnce
<1>5. ToSet(Held[c]) \subseteq 1..(arrived - Len(osBuf))
  BY <1>2, Elements
<1> QED
  BY <1>3, <1>4, <1>5

LEMMA OnePlace ==
    ASSUME IInv, NEW b \in 1..arrived
    PROVE  \E p : Places(b) = {p}
<1> DEFINE old == arrived - Len(osBuf)
<1>1. /\ arrived \in Nat /\ Len(osBuf) \in Nat /\ old \in Nat /\ arrived = old + Len(osBuf)
      /\ DOMAIN osBuf = 1..Len(osBuf)
      /\ \A k \in 1..Len(osBuf) : osBuf[k] = old + k
  BY OsProperties DEF IInv, OsNewest
<1>2. Shares(Held, lost, old)
  BY DEF IInv
<1>3. \A c \in Call :
         /\ \A k \in DOMAIN buf[c] : buf[c][k] \in ToSet(Held[c])
         /\ \A k \in DOMAIN result[c] : result[c][k] \in ToSet(Held[c])
  <2> SUFFICES ASSUME NEW c \in Call
               PROVE  /\ \A k \in DOMAIN buf[c] : buf[c][k] \in ToSet(Held[c])
                      /\ \A k \in DOMAIN result[c] : result[c][k] \in ToSet(Held[c])
    OBVIOUS
  <2>1. buf[c] \in Seq(Byte) /\ result[c] \in Seq(Byte)
    BY DEF IInv, TypeOK, Byte
  <2>2. ToSet(Held[c]) = ToSet(result[c]) \cup ToSet(buf[c])
    BY HeldParts
  <2> QED
    BY <2>1, <2>2, Elements
<1>4. \A c \in Call : ToSet(Held[c]) \subseteq 1..old
  BY HeldParts
<1>5. \A l \in lost : l[1] \in 1..old
  BY <1>2 DEF Shares
<1> HIDE DEF old
<1>6. CASE b > old
  <2>1. b - old \in DOMAIN osBuf /\ \A k \in DOMAIN osBuf : osBuf[k] = b <=> k = b - old
    BY <1>1, <1>6
  <2>2. b \notin 1..old
    BY <1>1, <1>6
  <2>3. \A x : x \in Places(b) <=> x = <<"os", b - old>>
    <3> SUFFICES ASSUME NEW x PROVE x \in Places(b) <=> x = <<"os", b - old>>
      OBVIOUS
    <3>1. (\E k \in DOMAIN osBuf : osBuf[k] = b /\ x = <<"os", k>>) <=> x = <<"os", b - old>>
      BY <2>1
    <3>2. ~ \E d \in Call : \E k \in DOMAIN buf[d] : buf[d][k] = b /\ x = <<"call", d, k>>
      BY <1>3, <1>4, <2>2
    <3>3. ~ \E d \in Call :
             \E k \in DOMAIN result[d] : result[d][k] = b /\ x = <<"client", d, k>>
      BY <1>3, <1>4, <2>2
    <3>4. ~ \E g \in lost : g[1] = b /\ x = <<"lost", g>>
      BY <1>5, <2>2
    <3> QED
      BY <3>1, <3>2, <3>3, <3>4, PlaceKinds
  <2>4. Places(b) = {<<"os", b - old>>}
    BY <2>3, Singleton
  <2> QED
    BY <2>4
<1>7. CASE b \in 1..old
  <2>1. \A k \in DOMAIN osBuf : osBuf[k] # b
    BY <1>1, <1>7
  <2>2. CASE \E l \in lost : l[1] = b
    <3>1. PICK l \in lost : l[1] = b
      BY <2>2
    <3>2. \A m \in lost : m[1] = b => m = l
      BY <1>2, <3>1 DEF Shares
    <3>3. \A c \in Call : b \notin ToSet(Held[c])
      BY <1>2, <3>1 DEF Shares
    <3>4. \A x : x \in Places(b) <=> x = <<"lost", l>>
      <4> SUFFICES ASSUME NEW x PROVE x \in Places(b) <=> x = <<"lost", l>>
        OBVIOUS
      <4>1. ~ \E k \in DOMAIN osBuf : osBuf[k] = b /\ x = <<"os", k>>
        BY <2>1
      <4>2. ~ \E d \in Call : \E k \in DOMAIN buf[d] : buf[d][k] = b /\ x = <<"call", d, k>>
        BY <1>3, <3>3
      <4>3. ~ \E d \in Call :
               \E k \in DOMAIN result[d] : result[d][k] = b /\ x = <<"client", d, k>>
        BY <1>3, <3>3
      <4>4. (\E g \in lost : g[1] = b /\ x = <<"lost", g>>) <=> x = <<"lost", l>>
        BY <3>1, <3>2
      <4> QED
        BY <4>1, <4>2, <4>3, <4>4, PlaceKinds
    <3>5. Places(b) = {<<"lost", l>>}
      BY <3>4, Singleton
    <3> QED
      BY <3>5
  <2>3. CASE \E c \in Call : b \in ToSet(Held[c])
    <3>1. PICK c \in Call : b \in ToSet(Held[c])
      BY <2>3
    <3>2. \A d \in Call : d # c => b \notin ToSet(Held[d])
      BY <1>2, <3>1 DEF Shares
    <3>3. \A l \in lost : l[1] # b
      BY <1>2, <3>1 DEF Shares
    <3>4. CASE b \in ToSet(result[c])
      <4>1. PICK j \in DOMAIN result[c] : result[c][j] = b
        BY <3>4 DEF ToSet
      <4>2. \A k \in DOMAIN result[c] : result[c][k] = b => k = j
        BY <4>1, HeldParts
      <4>3. \A k \in DOMAIN buf[c] : buf[c][k] # b
        BY <4>1, HeldParts
      <4>4. \A x : x \in Places(b) <=> x = <<"client", c, j>>
        <5> SUFFICES ASSUME NEW x PROVE x \in Places(b) <=> x = <<"client", c, j>>
          OBVIOUS
        <5>1. ~ \E k \in DOMAIN osBuf : osBuf[k] = b /\ x = <<"os", k>>
          BY <2>1
        <5>2. ~ \E d \in Call : \E k \in DOMAIN buf[d] : buf[d][k] = b /\ x = <<"call", d, k>>
          BY <1>3, <3>2, <4>3
        <5>3. (\E d \in Call :
                \E k \in DOMAIN result[d] : result[d][k] = b /\ x = <<"client", d, k>>)
             <=> x = <<"client", c, j>>
          BY <1>3, <3>2, <4>1, <4>2
        <5>4. ~ \E g \in lost : g[1] = b /\ x = <<"lost", g>>
          BY <3>3
        <5> QED
          BY <5>1, <5>2, <5>3, <5>4, PlaceKinds
      <4>5. Places(b) = {<<"client", c, j>>}
        BY <4>4, Singleton
      <4> QED
        BY <4>5
    <3>5. CASE b \in ToSet(buf[c])
      <4>1. PICK j \in DOMAIN buf[c] : buf[c][j] = b
        BY <3>5 DEF ToSet
      <4>2. \A k \in DOMAIN buf[c] : buf[c][k] = b => k = j
        BY <4>1, HeldParts
      <4>3. \A k \in DOMAIN result[c] : result[c][k] # b
        BY <4>1, HeldParts
      <4>4. \A x : x \in Places(b) <=> x = <<"call", c, j>>
        <5> SUFFICES ASSUME NEW x PROVE x \in Places(b) <=> x = <<"call", c, j>>
          OBVIOUS
        <5>1. ~ \E k \in DOMAIN osBuf : osBuf[k] = b /\ x = <<"os", k>>
          BY <2>1
        <5>2. (\E d \in Call :
                \E k \in DOMAIN buf[d] : buf[d][k] = b /\ x = <<"call", d, k>>)
             <=> x = <<"call", c, j>>
          BY <1>3, <3>2, <4>1, <4>2
        <5>3. ~ \E d \in Call :
                 \E k \in DOMAIN result[d] : result[d][k] = b /\ x = <<"client", d, k>>
          BY <1>3, <3>2, <4>3
        <5>4. ~ \E g \in lost : g[1] = b /\ x = <<"lost", g>>
          BY <3>3
        <5> QED
          BY <5>1, <5>2, <5>3, <5>4, PlaceKinds
      <4>5. Places(b) = {<<"call", c, j>>}
        BY <4>4, Singleton
      <4> QED
        BY <4>5
    <3> QED
      BY <3>1, <3>4, <3>5, HeldParts
  <2> QED
    BY <1>2, <1>7, <2>2, <2>3 DEF Shares
<1>8. b > old \/ b \in 1..old
  BY <1>1
<1> QED
  BY <1>6, <1>7, <1>8

-----------------------------------------------------------------------------
(* Every step of the tools is a step of ByteFates. *)

GoneFrom(gone) == {l[1] : l \in gone}

LEMMA FatesInit == Init => Fates!Init
<1> SUFFICES ASSUME Init PROVE Fates!Init
  OBVIOUS
<1>1. ToSet(<<>>) = {}
  BY DEF ToSet
<1>2. Waiting = {}
  BY <1>1 DEF Init, Waiting
<1>3. InHand = [c \in Call |-> {}] /\ PassedOn = [c \in Call |-> {}]
  BY <1>1 DEF Init, InHand, PassedOn
<1>4. Dropped = {}
  BY DEF Init, Dropped
<1>5. arrived = 0
  BY DEF Init
<1> QED
  BY <1>2, <1>3, <1>4, <1>5 DEF Fates!Init

LEMMA GoneOfLosing ==
    ASSUME NEW gone, NEW c, NEW reason, NEW s
    PROVE  GoneFrom(Losing(gone, c, reason, s)) = GoneFrom(gone) \cup ToSet(s)
<1> DEFINE more == Losing(gone, c, reason, s)
<1>1. /\ \A b \in ToSet(s) : <<b, c, reason>> \in more
      /\ \A l \in gone : l \in more
      /\ \A l \in more : l \in gone \/ l[1] \in ToSet(s)
  BY DEF Losing
<1> HIDE DEF more
<1>2. ASSUME NEW b
      PROVE  b \in GoneFrom(more) <=> b \in GoneFrom(gone) \cup ToSet(s)
  <2>1. ASSUME b \in ToSet(s) PROVE \E l \in more : l[1] = b
    <3>1. <<b, c, reason>> \in more /\ <<b, c, reason>>[1] = b
      BY <1>1, <2>1
    <3> QED
      BY <3>1
  <2>2. (\E l \in more : l[1] = b) <=> (\E l \in gone : l[1] = b) \/ b \in ToSet(s)
    BY <1>1, <2>1
  <2>3. \A g : b \in GoneFrom(g) <=> \E l \in g : l[1] = b
    BY DEF GoneFrom
  <2> QED
    BY <2>2, <2>3
<1> QED
  BY <1>2, SameMembers DEF more

LEMMA AppendSet ==
    ASSUME NEW S, NEW s \in Seq(S), NEW e \in S
    PROVE  ToSet(Append(s, e)) = ToSet(s) \cup {e}
<1>1. /\ DOMAIN s = 1..Len(s) /\ DOMAIN Append(s, e) = 1..(Len(s) + 1) /\ Len(s) \in Nat
      /\ \A k \in 1..Len(s) : Append(s, e)[k] = s[k]
      /\ Append(s, e)[Len(s) + 1] = e
  OBVIOUS
<1>2. \A k : k \in 1..(Len(s) + 1) <=> k \in 1..Len(s) \/ k = Len(s) + 1
  BY <1>1
<1>3. \A x : /\ x \in ToSet(s) <=> \E k \in 1..Len(s) : s[k] = x
             /\ x \in ToSet(Append(s, e)) <=> \E k \in 1..(Len(s) + 1) : Append(s, e)[k] = x
  BY <1>1 DEF ToSet
<1>4. ASSUME NEW x PROVE x \in ToSet(Append(s, e)) <=> x \in ToSet(s) \cup {e}
  BY <1>1, <1>2, <1>3
<1> QED
  BY <1>4, SameMembers

(* What a step of one call does to the bytes in hand and passed on. *)
LEMMA FatesSame ==
    /\ UNCHANGED osBuf => Waiting' = Waiting
    /\ UNCHANGED buf => InHand' = InHand
    /\ UNCHANGED result => PassedOn' = PassedOn
    /\ UNCHANGED lost => Dropped' = Dropped
  BY DEF Waiting, InHand, PassedOn, Dropped

LEMMA HandChanges ==
    ASSUME IInv, NEW c \in Call, NEW s, buf' = [buf EXCEPT ![c] = s]
    PROVE  InHand' = [InHand EXCEPT ![c] = ToSet(s)]
<1>1. /\ buf'[c] = s
      /\ \A d \in Call : d # c => buf'[d] = buf[d]
  BY DEF IInv, TypeOK
<1>2. /\ InHand' = [d \in Call |-> ToSet(buf'[d])]
      /\ InHand = [d \in Call |-> ToSet(buf[d])]
  BY DEF InHand
<1> QED
  BY <1>1, <1>2

LEMMA FatesArrive == ASSUME IInv, Arrive PROVE Fates!Arrive
<1>1. /\ osBuf' = Append(osBuf, arrived + 1) /\ arrived' = arrived + 1
      /\ UNCHANGED <<buf, result, lost>>
  BY DEF Arrive
<1>2. osBuf \in Seq(Byte) /\ arrived + 1 \in Byte
  BY OsProperties, ParameterAssumption DEF Arrive, Byte
<1>3. ToSet(Append(osBuf, arrived + 1)) = ToSet(osBuf) \cup {arrived + 1}
  BY <1>2, AppendSet
<1>4. Waiting' = Waiting \cup {arrived + 1}
  BY <1>1, <1>3 DEF Waiting
<1> QED
  BY <1>1, <1>4, FatesSame DEF Fates!Arrive

LEMMA FatesFlush == ASSUME IInv, FlushInput PROVE Fates!Flush
<1>1. /\ lost' = lost \cup {<<b, "client", "flush">> : b \in ToSet(osBuf)}
      /\ osBuf' = <<>> /\ UNCHANGED <<arrived, buf, result>>
  BY DEF FlushInput
<1>2. GoneFrom(lost') = GoneFrom(lost) \cup ToSet(osBuf)
  <2>1. lost' = Losing(lost, "client", "flush", osBuf)
    BY <1>1 DEF Losing
  <2> QED
    BY <2>1, GoneOfLosing
<1>3. Dropped' = Dropped \cup Waiting
  BY <1>2 DEF Dropped, GoneFrom, Waiting
<1>4. Waiting' = {}
  BY <1>1 DEF Waiting, ToSet
<1> QED
  BY <1>1, <1>3, <1>4, FatesSame DEF Fates!Flush

LEMMA FatesTake ==
    ASSUME IInv, NEW c \in Call, NEW n \in 1..Len(osBuf), Take(c, n)
    PROVE  Fates!Take(c)
<1> DEFINE old == arrived - Len(osBuf)
           taken == SubSeq(osBuf, 1, n)
           rest == SubSeq(osBuf, n + 1, Len(osBuf))
<1>1. /\ buf' = [buf EXCEPT ![c] = @ \o taken] /\ osBuf' = rest
      /\ UNCHANGED <<arrived, result, lost>>
  BY DEF Take
<1>2. /\ arrived \in Nat /\ Len(osBuf) \in Nat /\ old \in Nat
      /\ osBuf \in Seq(Byte) /\ n \in Nat /\ n <= Len(osBuf)
      /\ \A k \in 1..Len(osBuf) : osBuf[k] = old + k
      /\ osBuf = Row(old, Len(osBuf))
  BY OsProperties DEF IInv, OsNewest
<1>3. taken = Row(old, n) /\ rest = Row(old + n, Len(osBuf) - n)
  <2>1. /\ taken = [k \in 1..n |-> osBuf[k]]
        /\ rest = [k \in 1..(Len(osBuf) - n) |-> osBuf[n + k]]
    BY <1>2
  <2>2. /\ \A k \in 1..n : osBuf[k] = old + k
        /\ \A k \in 1..(Len(osBuf) - n) : osBuf[n + k] = (old + n) + k
    BY <1>2
  <2> QED
    BY <2>1, <2>2 DEF Row
<1>4. Waiting = (old + 1)..(old + Len(osBuf))
  BY <1>2, RowProperties DEF Waiting
<1>5. ToSet(taken) = (old + 1)..(old + n)
  BY <1>2, <1>3, RowProperties
<1>6. Waiting' = ((old + n) + 1)..(old + Len(osBuf))
  <2>1. ToSet(Row(old + n, Len(osBuf) - n)) = ((old + n) + 1)..((old + n) + (Len(osBuf) - n))
    <3>1. old + n \in Nat /\ Len(osBuf) - n \in Nat
      BY <1>2
    <3> HIDE DEF old
    <3> QED
      BY <3>1, RowProperties
  <2>2. (old + n) + (Len(osBuf) - n) = old + Len(osBuf)
    BY <1>2
  <2>3. Waiting' = ToSet(rest)
    BY <1>1 DEF Waiting
  <2> QED
    BY <1>3, <2>1, <2>2, <2>3
<1> DEFINE b == old + n
<1>7. b \in Waiting
  BY <1>2, <1>4
<1>8. Fates!UpTo(b) = (old + 1)..b
  <2>1. \A a : a \in Fates!UpTo(b) <=> a \in Waiting /\ a <= b
    BY DEF Fates!UpTo
  <2>2. \A a : a \in (old + 1)..(old + Len(osBuf)) /\ a <= old + n <=> a \in (old + 1)..(old + n)
    BY <1>2
  <2> HIDE DEF old
  <2>3. \A a : a \in Fates!UpTo(b) <=> a \in (old + 1)..b
    BY <1>4, <2>1, <2>2
  <2> QED
    BY <2>3, SameMembers
<1>9. Waiting' = Waiting \ Fates!UpTo(b)
  BY <1>2, <1>4, <1>6, <1>8
<1>10. InHand' = [InHand EXCEPT ![c] = @ \cup Fates!UpTo(b)]
  <2>1. buf[c] \in Seq(Byte) /\ taken \in Seq(Byte)
    <3>1. taken \in Seq(Byte)
      BY <1>2
    <3> HIDE DEF taken
    <3> QED
      BY <3>1 DEF IInv, TypeOK, Byte
  <2>2. ToSet(buf[c] \o taken) = ToSet(buf[c]) \cup ToSet(taken)
    BY <2>1, ConcatSet
  <2>3. InHand' = [InHand EXCEPT ![c] = ToSet(buf[c] \o taken)]
    BY <1>1, HandChanges
  <2>4. InHand[c] = ToSet(buf[c])
    BY DEF InHand
  <2> QED
    BY <1>5, <1>8, <2>2, <2>3, <2>4
<1>11. /\ \E a \in Waiting :
             /\ InHand' = [InHand EXCEPT ![c] = @ \cup Fates!UpTo(a)]
             /\ Waiting' = Waiting \ Fates!UpTo(a)
       /\ arrived' = arrived /\ PassedOn' = PassedOn /\ Dropped' = Dropped
  BY <1>1, <1>7, <1>9, <1>10, FatesSame
<1> QED
  BY <1>11 DEF Fates!Take

LEMMA FatesPass ==
    ASSUME IInv, NEW c \in Call, result' = [result EXCEPT ![c] = @ \o buf[c]],
           buf' = [buf EXCEPT ![c] = <<>>], UNCHANGED <<arrived, osBuf, lost>>
    PROVE  Fates!Pass(c)
<1>1. result[c] \in Seq(Byte) /\ buf[c] \in Seq(Byte)
  BY DEF IInv, TypeOK, Byte
<1>2. /\ result'[c] = result[c] \o buf[c]
      /\ \A d \in Call : d # c => result'[d] = result[d]
  BY DEF IInv, TypeOK
<1>3. ToSet(result[c] \o buf[c]) = ToSet(result[c]) \cup ToSet(buf[c])
  BY <1>1, ConcatSet
<1>4. PassedOn' = [PassedOn EXCEPT ![c] = @ \cup InHand[c]]
  <2>1. /\ PassedOn' = [d \in Call |-> ToSet(result'[d])]
        /\ PassedOn = [d \in Call |-> ToSet(result[d])]
        /\ InHand[c] = ToSet(buf[c])
    BY DEF PassedOn, InHand
  <2>2. ToSet(result'[c]) = PassedOn[c] \cup InHand[c]
    BY <1>2, <1>3, <2>1
  <2>3. \A d \in Call : d # c => ToSet(result'[d]) = PassedOn[d]
    BY <1>2, <2>1
  <2>4. PassedOn' = [d \in Call |-> IF d = c THEN PassedOn[c] \cup InHand[c] ELSE PassedOn[d]]
    BY <2>1, <2>2, <2>3, Zenon
  <2> QED
    BY <2>1, <2>4
<1>5. InHand' = [InHand EXCEPT ![c] = {}]
  <2>1. ToSet(<<>>) = {}
    BY DEF ToSet
  <2> QED
    BY <2>1, HandChanges
<1> QED
  BY <1>4, <1>5, FatesSame DEF Fates!Pass

LEMMA FatesDrop ==
    ASSUME IInv, NEW c \in Call, NEW reason,
           lost' = lost \cup {<<b, c, reason>> : b \in ToSet(buf[c])},
           buf' = [buf EXCEPT ![c] = <<>>], UNCHANGED <<arrived, osBuf, result>>
    PROVE  Fates!Drop(c)
<1>1. GoneFrom(lost') = GoneFrom(lost) \cup ToSet(buf[c])
  <2>1. lost' = Losing(lost, c, reason, buf[c])
    BY DEF Losing
  <2> QED
    BY <2>1, GoneOfLosing
<1>2. Dropped' = Dropped \cup InHand[c]
  BY <1>1 DEF Dropped, GoneFrom, InHand
<1>3. InHand' = [InHand EXCEPT ![c] = {}]
  <2>1. ToSet(<<>>) = {}
    BY DEF ToSet
  <2> QED
    BY <2>1, HandChanges
<1> QED
  BY <1>2, <1>3, FatesSame DEF Fates!Drop

LEMMA FatesDeliver ==
    ASSUME IInv, NEW c \in Call, Deliver(c), UNCHANGED <<arrived, osBuf>>
    PROVE  Fates!Pass(c) \/ Fates!Drop(c)
<1>1. CASE result' = [result EXCEPT ![c] = @ \o buf[c]] /\ UNCHANGED lost
  BY <1>1, FatesPass DEF Deliver
<1>2. CASE lost' = lost \cup {<<b, c, "encoding">> : b \in ToSet(buf[c])} /\ UNCHANGED result
  BY <1>2, FatesDrop DEF Deliver
<1> QED
  BY <1>1, <1>2 DEF Deliver

LEMMA FatesNext == ASSUME IInv, [Next]_vars PROVE [Fates!Next]_Fates!vars
<1>1. CASE UNCHANGED vars
  <2>1. UNCHANGED <<arrived, osBuf, buf, result, lost>>
    BY <1>1 DEF vars
  <2> QED
    BY <2>1, FatesSame DEF Fates!vars
<1>2. CASE Arrive
  BY <1>2, FatesArrive DEF Fates!Next
<1>3. CASE FlushInput
  BY <1>3, FatesFlush DEF Fates!Next
<1>4. ASSUME NEW c \in Call, Start(c) PROVE UNCHANGED Fates!vars
  BY <1>4, FatesSame DEF Start, Fates!vars
<1>5. ASSUME NEW c \in Call,
             ReadTakes(c) \/ WaitTakes(c) \/ CollectTakes(c) \/ StreamTakes(c) \/ RawTakes(c)
      PROVE  Fates!Next
  <2>1. PICK n \in 1..Len(osBuf) : Take(c, n)
    BY <1>5 DEF ReadTakes, WaitTakes, CollectTakes, StreamTakes, RawTakes
  <2> QED
    BY <2>1, FatesTake DEF Fates!Next
<1>6. ASSUME NEW c \in Call,
             \/ ReadReturns(c) \/ WaitMatches(c) \/ WaitFillsUp(c) \/ CollectReturns(c)
             \/ StreamNotifies(c)
      PROVE  Fates!Next
  <2>1. Deliver(c) /\ UNCHANGED <<arrived, osBuf>>
    BY <1>6 DEF ReadReturns, WaitMatches, WaitFillsUp, CollectReturns, StreamNotifies
  <2> QED
    BY <2>1, FatesDeliver DEF Fates!Next
<1>7. ASSUME NEW c \in Call, RawReturns(c) PROVE Fates!Next
  <2>1. /\ pc[c] = "reading" /\ tool[c] = "raw"
        /\ result' = [result EXCEPT ![c] = buf[c]] /\ buf' = [buf EXCEPT ![c] = <<>>]
        /\ UNCHANGED <<arrived, osBuf, lost>>
    BY <1>7 DEF RawReturns, Running
  <2>2. result[c] = <<>> /\ buf[c] \in Seq(Byte)
    BY <2>1 DEF IInv, CallShape, TypeOK, Byte
  <2>3. result[c] \o buf[c] = buf[c]
    BY <2>2
  <2>4. result' = [result EXCEPT ![c] = @ \o buf[c]]
    BY <2>1, <2>3
  <2> QED
    BY <2>1, <2>4, FatesPass DEF Fates!Next
<1>8. ASSUME NEW c \in Call,
             \/ ReadTimesOut(c) \/ WaitTimesOut(c) \/ ReadFails(c) \/ WaitFails(c)
             \/ CollectFails(c) \/ StreamEnds(c)
      PROVE  Fates!Next
  <2>1. PICK reason : Discard(c, reason)
    BY <1>8 DEF ReadTimesOut, WaitTimesOut, ReadFails, WaitFails, CollectFails, StreamEnds
  <2>2. UNCHANGED <<arrived, osBuf>>
    BY <1>8 DEF ReadTimesOut, WaitTimesOut, ReadFails, WaitFails, CollectFails, StreamEnds
  <2>3. Fates!Drop(c)
    BY <2>1, <2>2, FatesDrop DEF Discard
  <2> QED
    BY <2>3 DEF Fates!Next
<1> QED
  BY <1>1, <1>2, <1>3, <1>4, <1>5, <1>6, <1>7, <1>8 DEF Next

-----------------------------------------------------------------------------
(* A lone reader misses nothing. *)

(* A call that is the only one to have read anything, with nothing lost,   *)
(* has every byte the operating system has given out, in order.            *)
SoleReader ==
    \A c \in Call :
        (\A d \in Call \ {c} : buf[d] = <<>> /\ result[d] = <<>>) /\ lost = {}
            => result[c] \o buf[c] = Row(0, arrived - Len(osBuf))

LEMMA IncreasingFull ==
    ASSUME NEW n \in Nat, NEW s \in Seq(1..n), Increasing(s), 1..n \subseteq ToSet(s)
    PROVE  s = Row(0, n)
<1> DEFINE m == Len(s)
           T == {k \in 1..m : s[k] # k}
<1>1. /\ m \in Nat /\ DOMAIN s = 1..m /\ s = [k \in 1..m |-> s[k]]
      /\ \A k \in 1..m : s[k] \in 1..n
      /\ \A j, k \in 1..m : j < k => s[j] < s[k]
      /\ \A b \in 1..n : \E j \in 1..m : s[j] = b
  BY DEF Increasing, ToSet
<1> HIDE DEF m
<1>2. ASSUME T # {} PROVE FALSE
  <2>1. PICK x \in T : \A y \in T : ~ (y < x)
    <3>1. T \subseteq Nat
      BY <1>1
    <3> HIDE DEF T
    <3> QED
      BY <1>2, <3>1, LeastMember
  <2>2. x \in 1..m /\ s[x] # x /\ \A j \in 1..m : j < x => s[j] = j
    BY <2>1
  <2>3. s[x] > x
    <3>1. CASE x = 1
      BY <1>1, <2>2, <3>1
    <3>2. CASE x # 1
      <4>1. x - 1 \in 1..m /\ x - 1 < x
        BY <1>1, <2>2, <3>2
      <4>2. s[x - 1] = x - 1 /\ s[x - 1] < s[x]
        BY <1>1, <2>2, <4>1
      <4> QED
        BY <1>1, <2>2, <4>2
    <3> QED
      BY <3>1, <3>2
  <2>4. x \in 1..n
    BY <1>1, <2>2, <2>3
  <2>5. PICK j \in 1..m : s[j] = x
    BY <1>1, <2>4
  <2>6. ~ (j < x) /\ j # x
    BY <2>2, <2>5
  <2>7. x < j
    BY <1>1, <2>2, <2>5, <2>6
  <2>8. s[x] < s[j]
    BY <1>1, <2>2, <2>7
  <2> QED
    BY <1>1, <2>2, <2>3, <2>5, <2>8
<1>3. \A k \in 1..m : s[k] = k
  BY <1>2
<1>4. m = n
  <2>1. m <= n
    <3>1. CASE m = 0
      BY <3>1
    <3>2. CASE m # 0
      <4>1. m \in 1..m
        BY <1>1, <3>2
      <4> QED
        BY <1>1, <1>3, <4>1
    <3> QED
      BY <3>1, <3>2
  <2>2. n <= m
    <3>1. CASE n = 0
      BY <1>1, <3>1
    <3>2. CASE n # 0
      <4>1. PICK j \in 1..m : s[j] = n
        BY <1>1, <3>2
      <4> QED
        BY <1>1, <1>3, <4>1
    <3> QED
      BY <3>1, <3>2
  <2> QED
    BY <1>1, <2>1, <2>2
<1>5. s = [k \in 1..n |-> 0 + k]
  BY <1>1, <1>3, <1>4
<1> QED
  BY <1>5 DEF Row

LEMMA SoleReaderHolds == ASSUME IInv PROVE SoleReader
<1> SUFFICES ASSUME NEW c \in Call, lost = {},
                    \A d \in Call \ {c} : buf[d] = <<>> /\ result[d] = <<>>
             PROVE  result[c] \o buf[c] = Row(0, arrived - Len(osBuf))
  BY DEF SoleReader
<1> DEFINE old == arrived - Len(osBuf)
<1>1. old \in Nat
  BY OsProperties
<1>2. Shares(Held, lost, old) /\ Held[c] = result[c] \o buf[c]
  BY DEF IInv, Held
<1>3. \A d \in Call : d # c => ToSet(Held[d]) = {}
  <2>1. \A d \in Call : d # c => Held[d] = <<>>
    BY DEF Held
  <2>2. ToSet(<<>>) = {}
    BY DEF ToSet
  <2> QED
    BY <2>1, <2>2
<1> HIDE DEF old
<1>4. Held[c] \in Seq(1..old) /\ Increasing(Held[c])
  BY <1>2 DEF Shares
<1>5. 1..old \subseteq ToSet(Held[c])
  BY <1>2, <1>3 DEF Shares
<1>6. Held[c] = Row(0, old)
  BY <1>1, <1>4, <1>5, IncreasingFull
<1> QED
  BY <1>2, <1>6 DEF old

-----------------------------------------------------------------------------
(* Results. *)

(* Each variable keeps its type; a byte that is lost has arrived.          *)
THEOREM TypeCorrect == Spec => []TypeOK
<1>1. IInv => TypeOK
  BY DEF IInv
<1> QED
  BY <1>1, Invariance, PTL

(* Every byte that arrived is in exactly one place, whatever the readers,  *)
(* flushes, deadlines and cancellations do.                                *)
THEOREM BytesOnce == Spec => []EveryByteOnce
<1>1. ASSUME IInv PROVE EveryByteOnce
  <2>1. \A b \in 1..arrived : \E p : Places(b) = {p}
    BY <1>1, OnePlace
  <2>2. \A p : Cardinality({p}) = 1
    BY FS_Singleton
  <2> QED
    BY <2>1, <2>2 DEF EveryByteOnce
<1> QED
  BY <1>1, Invariance, PTL

(* A reader sees its bytes in the order of the device, and no byte is      *)
(* taken before an earlier one.                                            *)
THEOREM OrderKept == Spec => []InOrder
<1>1. ASSUME IInv PROVE InOrder
  <2>1. \A c \in Call : Increasing(result[c] \o buf[c])
    BY <1>1 DEF IInv, Shares, Held
  <2>2. \A k \in DOMAIN osBuf : osBuf[k] = arrived - Len(osBuf) + k
    BY <1>1 DEF IInv, OsNewest
  <2> QED
    BY <2>1, <2>2 DEF InOrder
<1> QED
  BY <1>1, Invariance, PTL

(* Only a wait_for loses bytes to its deadline. *)
THEOREM LossAtDeadline == Spec => []OnlyWaitForLosesAtDeadline
<1>1. IInv => OnlyWaitForLosesAtDeadline
  BY DEF IInv, TimeoutsOfWaitFor, OnlyWaitForLosesAtDeadline
<1> QED
  BY <1>1, Invariance, PTL

(* A wait_for that answers without a match has none in what it answers.    *)
LEMMA UnmatchedFree ==
    ASSUME IInv, NEW c \in Call, tool[c] = "wait_for", matchAt[c] = 0
    PROVE  ~ HidesIn(data, ToSet(result[c]))
<1>1. CASE result[c] = <<>>
  <2>1. ToSet(result[c]) = {}
    BY <1>1 DEF ToSet
  <2> QED
    BY <2>1, NothingHides
<1>2. CASE result[c] # <<>>
  <2>1. FirstMatch(DataOf(data, result[c])) = 0
    <3>1. Values(result[c]) = DataOf(data, result[c])
      BY Zenon DEF Values, DataOf
    <3> QED
      BY <1>2, <3>1 DEF IInv, MatchIsFirst
  <2>2. result[c] \in Seq(Byte) /\ Increasing(result[c])
    <3>1. result[c] \in Seq(Byte) /\ buf[c] \in Seq(Byte)
      BY DEF IInv, TypeOK, Byte
    <3>2. Increasing(result[c] \o buf[c])
      BY DEF IInv, Shares, Held
    <3> QED
      BY <3>1, <3>2, IncreasingPrefix
  <2> QED
    BY <2>1, <2>2, SearchComplete
<1> QED
  BY <1>1, <1>2

(* A wait_for that ends at its deadline, by an error of the port or with   *)
(* max_bytes read did not have its pattern in hand.                        *)
THEOREM MatchesAnswered == Spec => []NoMatchDropped
<1>1. ASSUME IInv, DropInv PROVE NoMatchDropped
  <2>1. \A c \in Call : LostBy(c, {"timeout", "port error"}) = LostOf(lost, c, Failure)
    BY Zenon DEF LostBy, LostOf, Failure
  <2>2. \A B : Hides(B) <=> HidesIn(data, B)
    BY Zenon DEF Hides, HidesIn
  <2>3. \A c \in Call : tool[c] = "wait_for" /\ matchAt[c] = 0 => ~ Hides(ToSet(result[c]))
    BY <1>1, <2>2, UnmatchedFree
  <2> QED
    BY <1>1, <2>1, <2>2, <2>3 DEF DropInv, DropFree, NoMatchDropped
<1> QED
  BY <1>1, Invariance, DropInvHolds, PTL

(* No buffer and no answer is longer than the client allowed. *)
THEOREM SizesKept == Spec => []AtMostMaxBytes
<1>1. IInv => AtMostMaxBytes
  BY DEF IInv
<1> QED
  BY <1>1, Invariance, PTL

(* A lone reader, with no flush and no failure, sees what the device sent, *)
(* all of it and in order.                                                 *)
THEOREM LoneReaderComplete == Spec => []SoleReader
<1>1. IInv => SoleReader
  BY SoleReaderHolds
<1> QED
  BY <1>1, Invariance, PTL

(* Refinement: every byte goes the way ByteFates promises. *)
THEOREM FatesKept == Spec => FatesSpec
<1>1. Init => Fates!Init
  BY FatesInit
<1>2. IInv /\ [Next]_vars => [Fates!Next]_Fates!vars
  BY FatesNext
<1> QED
  BY <1>1, <1>2, Invariance, PTL DEF Spec, FatesSpec, Fates!Spec
=============================================================================
