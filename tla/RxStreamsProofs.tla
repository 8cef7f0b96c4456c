--------------------------- MODULE RxStreamsProofs --------------------------
(***************************************************************************)
(* No interleaving of subscribe, unsubscribe and close loses the handle of *)
(* a running stream: proved for any number of requests, streams and        *)
(* connections.                                                            *)
(***************************************************************************)
EXTENDS StreamReplies, TLAPS

RegistryProofs == INSTANCE ConnectionRegistryProofs WITH Task <- Request \cup Stream \cup Reset

-----------------------------------------------------------------------------
(* The handlers and streams use the registry as its own module allows.     *)
LEMMA RegistryStep == [Next]_vars => [Registry!Next]_registryVars
<1> SUFFICES ASSUME [Next]_vars PROVE Registry!Next \/ UNCHANGED registryVars
  OBVIOUS
<1>1. ASSUME NEW t \in Request, OpenConnection(t) PROVE Registry!Next
  BY <1>1 DEF OpenConnection, Registry!Next
<1>2. ASSUME NEW t \in Request, NEW i \in ConnId,
             SubscribeLookup(t, i) \/ UseConnection(t, i)
      PROVE  Registry!Next
  BY <1>2 DEF SubscribeLookup, UseConnection, Registry!Next
<1>3. ASSUME NEW t \in Request, NEW i \in ConnId, CloseConnection(t, i)
      PROVE  Registry!Next
  BY <1>3 DEF CloseConnection, Registry!Next
<1>4. ASSUME NEW t \in Request,
             SubscribeFails(t) \/ CollectAndReplace(t) \/ EndUse(t)
      PROVE  Registry!Next
  BY <1>4 DEF SubscribeFails, CollectAndReplace, EndUse, Registry!Next
<1>5. ASSUME NEW t \in Request, NEW s \in Stream, SpawnStream(t, s)
      PROVE  Registry!Next
  BY <1>5 DEF SpawnStream, Registry!Next
<1>6. ASSUME NEW s \in Stream, StreamEnds(s) \/ AbortTakesEffect(s)
      PROVE  Registry!Next
  BY <1>6 DEF StreamEnds, AbortTakesEffect, Registry!Next
<1>7. ASSUME NEW t \in Request, MapStep(t) PROVE UNCHANGED registryVars
  BY <1>7 DEF MapStep, RegisterStream, CloseStream
<1>8. ASSUME NEW t \in Request, NEW i \in ConnId, Unsubscribe(t, i)
      PROVE  UNCHANGED registryVars
  BY <1>8 DEF Unsubscribe
<1>9. CASE UNCHANGED vars
  BY <1>9 DEF vars
<1>10. ASSUME NEW t \in Request, NEW r \in Reset, SendBreakFails(t, r)
       PROVE  Registry!Next
  BY <1>10 DEF SendBreakFails, Registry!Next
<1>11. ASSUME NEW r \in Reset, ResetEnds(r) PROVE Registry!Next
  BY <1>11 DEF ResetEnds, Registry!Next
<1> QED
  BY <1>1, <1>2, <1>3, <1>4, <1>5, <1>6, <1>7, <1>8, <1>9, <1>10, <1>11 DEF Next

(* Hence what was proved of the registry holds here: its types, that a     *)
(* port has one connection, and whose connection an opening task holds.    *)
RegistryInv ==
    /\ Registry!TypeOK
    /\ Registry!PortUnique
    /\ \A t \in Request \cup Stream \cup Reset : pc[t] = "opened" => arc[t] \in ConnId

LEMMA RegistrySame ==
    /\ Registry!Init => RegistryProofs!Init
    /\ [Registry!Next]_registryVars => [RegistryProofs!Next]_RegistryProofs!vars
<1>1. Registry!Init => RegistryProofs!Init
  BY DEF Registry!Init, RegistryProofs!Init
<1>2. [Registry!Next]_registryVars => [RegistryProofs!Next]_RegistryProofs!vars
  BY DEF registryVars, Registry!Reserve, RegistryProofs!Reserve, Registry!OpenDevice,
     RegistryProofs!OpenDevice, Registry!OpenDeviceFails,
     RegistryProofs!OpenDeviceFails, Registry!Register,
     RegistryProofs!Register, Registry!ReturnOpenError,
     RegistryProofs!ReturnOpenError, Registry!Insert,
     RegistryProofs!Insert, Registry!Get, RegistryProofs!Get,
     Registry!DropArc, RegistryProofs!DropArc, Registry!HandArc,
     RegistryProofs!HandArc, Registry!Close, RegistryProofs!Close,
     Registry!OpenStep, RegistryProofs!OpenStep, Registry!Idle,
     RegistryProofs!Idle, Registry!Fresh, RegistryProofs!Fresh,
     Registry!IsPortInUse, RegistryProofs!IsPortInUse, Registry!Next,
     RegistryProofs!Next, Registry!vars, RegistryProofs!vars
<1> QED
  BY <1>1, <1>2

LEMMA RegistryBehaves == Spec => RegistryProofs!Spec
<1>1. Init => RegistryProofs!Init
  BY RegistrySame DEF Init
<1>2. [Next]_vars => [RegistryProofs!Next]_RegistryProofs!vars
  BY RegistryStep, RegistrySame
<1> QED
  BY <1>1, <1>2, PTL DEF Spec, RegistryProofs!Spec

LEMMA RegistryInvariant == Spec => []RegistryInv
<1>1. RegistryProofs!IInv => RegistryInv
  BY DEF RegistryProofs!IInv, RegistryProofs!TypeOK, RegistryProofs!PortUnique,
     RegistryProofs!OpenedOnTarget, RegistryInv, Registry!TypeOK, Registry!PortUnique
<1>2. RegistryProofs!Spec => []RegistryProofs!IInv
  BY RegistryProofs!Inductive, TaskAssumption, RegistryAssumption
<1> QED
  BY <1>1, <1>2, RegistryBehaves, PTL

(* Whatever the tools and streams of all sessions do, a port has one owner *)
(* at a time, which gets it, passes it on and gives it up as PortOwnership *)
(* says.                                                                   *)
THEOREM ServerOwnsPorts == Spec => RegistryProofs!OwnershipSpec
  BY RegistryBehaves, RegistryProofs!ImplementsOwnership,
     TaskAssumption, RegistryAssumption, PTL

(* And no port has two connections, nor stays reserved without a running   *)
(* open.                                                                   *)
THEOREM ServerPortsUnique ==
    Spec => [](Registry!PortUnique /\ Registry!ReservationOwned
                                   /\ Registry!RegisteredNotOpening)
<1>1. RegistryProofs!IInv => Registry!PortUnique /\ Registry!ReservationOwned
                                                /\ Registry!RegisteredNotOpening
  BY DEF RegistryProofs!IInv, RegistryProofs!PortUnique, Registry!PortUnique,
     RegistryProofs!ReservationOwned, Registry!ReservationOwned,
     RegistryProofs!Opening, Registry!Opening,
     RegistryProofs!RegisteredNotOpening, Registry!RegisteredNotOpening
<1>2. RegistryProofs!Spec => []RegistryProofs!IInv
  BY RegistryProofs!Inductive, TaskAssumption, RegistryAssumption
<1> QED
  BY <1>1, <1>2, RegistryBehaves, PTL

(* What a handler holds at each of its steps. *)
HandlerShape ==
    \A t \in Request :
        /\ handler[t] # "idle" => pc[t] = "idle" /\ argId[t] \in ConnId
        /\ handler[t] \in {"subscribing", "using"} => arc[t] = argId[t]
        /\ handler[t] = "spawned" <=> mine[t] # NoStream

(* A stream task holds an Arc exactly while it is alive, and never opens. *)
StreamShape ==
    \A s \in Stream :
        /\ pc[s] = "idle"
        /\ task[s] = "off" <=> arc[s] = NoConn

(* A task has at most one handle, in the map or with the subscribe that    *)
(* spawned it.                                                             *)
HandlesDistinct ==
    /\ \A i, j \in ConnId : streams[i] = streams[j] /\ streams[i] # NoStream => i = j
    /\ \A t, u \in Request : mine[t] = mine[u] /\ mine[t] # NoStream => t = u
    /\ \A i \in ConnId, t \in Request : streams[i] # NoStream => streams[i] # mine[t]

(* A live task with a handle is not aborted, and the handle is kept under  *)
(* the connection the task reads.                                          *)
HandlesKeyed ==
    /\ \A i \in ConnId : streams[i] # NoStream /\ task[streams[i]] # "off" =>
          task[streams[i]] = "running" /\ arc[streams[i]] = i
    /\ \A t \in Request : mine[t] # NoStream /\ task[mine[t]] # "off" =>
          task[mine[t]] = "running" /\ arc[mine[t]] = argId[t]

IInv ==
    /\ TypeOK
    /\ HandlerShape
    /\ StreamShape
    /\ HandlesDistinct
    /\ HandlesKeyed
    /\ StreamStoppable

(* The server starts with no streams and no calls. *)
LEMMA InitIInv == Init => IInv
  BY TaskAssumption, RegistryAssumption
     DEF Init, Registry!Init, IInv, TypeOK, Registry!TypeOK, HandlerShape,
         StreamShape, HandlesDistinct, HandlesKeyed, StreamStoppable

(* Every step of a handler or of a stream keeps the invariant. *)
LEMMA NextIInv == IInv /\ RegistryInv /\ RegistryInv' /\ [Next]_vars => IInv'
<1> SUFFICES ASSUME IInv, RegistryInv, RegistryInv', [Next]_vars PROVE IInv'
  OBVIOUS
<1> USE TaskAssumption, RegistryAssumption
    DEF IInv, TypeOK, Registry!TypeOK, HandlerShape, StreamShape, HandlesDistinct,
        HandlesKeyed, StreamStoppable, RegistryInv
<1>1. ASSUME NEW t \in Request, OpenConnection(t)
      PROVE IInv'
  <2> USE <1>1 DEF OpenConnection, Registry!Reserve, Registry!OpenStep,
          Registry!OpenDevice, Registry!OpenDeviceFails, Registry!Register,
          Registry!ReturnOpenError, Registry!Insert, Registry!Idle,
          Registry!Fresh
  <2>1. TypeOK'
    OBVIOUS
  <2>2. HandlerShape'
    OBVIOUS
  <2>3. StreamShape'
    OBVIOUS
  <2>4. HandlesDistinct'
    OBVIOUS
  <2>5. HandlesKeyed'
    OBVIOUS
  <2>6. StreamStoppable'
    OBVIOUS
  <2> QED BY <2>1, <2>2, <2>3, <2>4, <2>5, <2>6
<1>2. ASSUME NEW t \in Request, NEW i \in ConnId, SubscribeLookup(t, i)
      PROVE IInv'
  <2> USE <1>2 DEF SubscribeLookup, Registry!Get, Registry!Idle, Enter
  <2>1. TypeOK'
    OBVIOUS
  <2>2. HandlerShape'
    OBVIOUS
  <2>3. StreamShape'
    OBVIOUS
  <2>4. HandlesDistinct'
    OBVIOUS
  <2>5. HandlesKeyed'
    OBVIOUS
  <2>6. StreamStoppable'
    OBVIOUS
  <2> QED BY <2>1, <2>2, <2>3, <2>4, <2>5, <2>6
<1>3. ASSUME NEW t \in Request, NEW i \in ConnId, Unsubscribe(t, i)
      PROVE IInv'
  <2> USE <1>3 DEF Unsubscribe, HandleDropped, registryVars
  <2>1. TypeOK'
    OBVIOUS
  <2>2. HandlerShape'
    OBVIOUS
  <2>3. StreamShape'
    OBVIOUS
  <2>4. HandlesDistinct'
    OBVIOUS
  <2>5. HandlesKeyed'
    OBVIOUS
  <2>6. StreamStoppable'
    OBVIOUS
  <2> QED BY <2>1, <2>2, <2>3, <2>4, <2>5, <2>6
<1>4. ASSUME NEW t \in Request, NEW i \in ConnId, CloseConnection(t, i)
      PROVE IInv'
  <2> USE <1>4 DEF CloseConnection, Registry!Close, Registry!Idle, Enter
  <2>1. TypeOK'
    OBVIOUS
  <2>2. HandlerShape'
    OBVIOUS
  <2>3. StreamShape'
    OBVIOUS
  <2>4. HandlesDistinct'
    OBVIOUS
  <2>5. HandlesKeyed'
    OBVIOUS
  <2>6. StreamStoppable'
    OBVIOUS
  <2> QED BY <2>1, <2>2, <2>3, <2>4, <2>5, <2>6
<1>5. ASSUME NEW t \in Request, NEW i \in ConnId, UseConnection(t, i)
      PROVE IInv'
  <2> USE <1>5 DEF UseConnection, Registry!Get, Registry!Idle, Enter
  <2>1. TypeOK'
    OBVIOUS
  <2>2. HandlerShape'
    OBVIOUS
  <2>3. StreamShape'
    OBVIOUS
  <2>4. HandlesDistinct'
    OBVIOUS
  <2>5. HandlesKeyed'
    OBVIOUS
  <2>6. StreamStoppable'
    OBVIOUS
  <2> QED BY <2>1, <2>2, <2>3, <2>4, <2>5, <2>6
<1>6. ASSUME NEW t \in Request, SubscribeFails(t)
      PROVE IInv'
  <2> USE <1>6 DEF SubscribeFails, Registry!DropArc, Leave, Enter
  <2>1. TypeOK'
    OBVIOUS
  <2>2. HandlerShape'
    OBVIOUS
  <2>3. StreamShape'
    OBVIOUS
  <2>4. HandlesDistinct'
    OBVIOUS
  <2>5. HandlesKeyed'
    OBVIOUS
  <2>6. StreamStoppable'
    OBVIOUS
  <2> QED BY <2>1, <2>2, <2>3, <2>4, <2>5, <2>6
<1>7. ASSUME NEW t \in Request, CollectAndReplace(t)
      PROVE IInv'
  <2> USE <1>7 DEF CollectAndReplace, Registry!DropArc, HandleDropped,
          Leave, Enter
  <2>1. TypeOK'
    OBVIOUS
  <2>2. HandlerShape'
    OBVIOUS
  <2>3. StreamShape'
    OBVIOUS
  <2>4. HandlesDistinct'
    OBVIOUS
  <2>5. HandlesKeyed'
    OBVIOUS
  <2>6. StreamStoppable'
    OBVIOUS
  <2> QED BY <2>1, <2>2, <2>3, <2>4, <2>5, <2>6
<1>8. ASSUME NEW t \in Request, NEW s \in Stream, SpawnStream(t, s)
      PROVE IInv'
  <2> USE <1>8 DEF SpawnStream, Registry!HandArc, Registry!Idle, Unused
  <2>1. TypeOK'
    OBVIOUS
  <2>2. HandlerShape'
    OBVIOUS
  <2>3. StreamShape'
    OBVIOUS
  <2>4. HandlesDistinct'
    OBVIOUS
  <2>5. HandlesKeyed'
    OBVIOUS
  <2>6. StreamStoppable'
    OBVIOUS
  <2> QED BY <2>1, <2>2, <2>3, <2>4, <2>5, <2>6
<1>9. ASSUME NEW t \in Request, RegisterStream(t)
      PROVE IInv'
  <2> USE <1>9 DEF RegisterStream, HandleDropped, Leave, Enter, registryVars
  <2>1. TypeOK'
    OBVIOUS
  <2>2. HandlerShape'
    OBVIOUS
  <2>3. StreamShape'
    OBVIOUS
  <2>4. HandlesDistinct'
    OBVIOUS
  <2>5. HandlesKeyed'
    OBVIOUS
  <2>6. StreamStoppable'
    OBVIOUS
  <2> QED BY <2>1, <2>2, <2>3, <2>4, <2>5, <2>6
<1>10. ASSUME NEW t \in Request, CloseStream(t)
      PROVE IInv'
  <2> USE <1>10 DEF CloseStream, HandleDropped, Leave, Enter, registryVars
  <2>1. TypeOK'
    OBVIOUS
  <2>2. HandlerShape'
    OBVIOUS
  <2>3. StreamShape'
    OBVIOUS
  <2>4. HandlesDistinct'
    OBVIOUS
  <2>5. HandlesKeyed'
    OBVIOUS
  <2>6. StreamStoppable'
    OBVIOUS
  <2> QED BY <2>1, <2>2, <2>3, <2>4, <2>5, <2>6
<1>11. ASSUME NEW t \in Request, EndUse(t)
      PROVE IInv'
  <2> USE <1>11 DEF EndUse, Registry!DropArc, Leave, Enter
  <2>1. TypeOK'
    OBVIOUS
  <2>2. HandlerShape'
    OBVIOUS
  <2>3. StreamShape'
    OBVIOUS
  <2>4. HandlesDistinct'
    OBVIOUS
  <2>5. HandlesKeyed'
    OBVIOUS
  <2>6. StreamStoppable'
    OBVIOUS
  <2> QED BY <2>1, <2>2, <2>3, <2>4, <2>5, <2>6
<1>12. ASSUME NEW s \in Stream, StreamEnds(s)
      PROVE IInv'
  <2> USE <1>12 DEF StreamEnds, Registry!DropArc
  <2>1. TypeOK'
    OBVIOUS
  <2>2. HandlerShape'
    OBVIOUS
  <2>3. StreamShape'
    OBVIOUS
  <2>4. HandlesDistinct'
    OBVIOUS
  <2>5. HandlesKeyed'
    OBVIOUS
  <2>6. StreamStoppable'
    OBVIOUS
  <2> QED BY <2>1, <2>2, <2>3, <2>4, <2>5, <2>6
<1>13. ASSUME NEW s \in Stream, AbortTakesEffect(s)
      PROVE IInv'
  <2> USE <1>13 DEF AbortTakesEffect, Registry!DropArc
  <2>1. TypeOK'
    OBVIOUS
  <2>2. HandlerShape'
    OBVIOUS
  <2>3. StreamShape'
    OBVIOUS
  <2>4. HandlesDistinct'
    OBVIOUS
  <2>5. HandlesKeyed'
    OBVIOUS
  <2>6. StreamStoppable'
    OBVIOUS
  <2> QED BY <2>1, <2>2, <2>3, <2>4, <2>5, <2>6
<1>14. ASSUME NEW t \in Request, NEW r \in Reset, SendBreakFails(t, r)
      PROVE IInv'
  <2> USE <1>14 DEF SendBreakFails, Registry!HandArc, Registry!Idle, Leave, Enter
  <2>1. TypeOK'
    OBVIOUS
  <2>2. HandlerShape'
    OBVIOUS
  <2>3. StreamShape'
    OBVIOUS
  <2>4. HandlesDistinct'
    OBVIOUS
  <2>5. HandlesKeyed'
    OBVIOUS
  <2>6. StreamStoppable'
    OBVIOUS
  <2> QED BY <2>1, <2>2, <2>3, <2>4, <2>5, <2>6
<1>15. ASSUME NEW r \in Reset, ResetEnds(r)
      PROVE IInv'
  <2> USE <1>15 DEF ResetEnds, Registry!DropArc
  <2>1. TypeOK'
    OBVIOUS
  <2>2. HandlerShape'
    OBVIOUS
  <2>3. StreamShape'
    OBVIOUS
  <2>4. HandlesDistinct'
    OBVIOUS
  <2>5. HandlesKeyed'
    OBVIOUS
  <2>6. StreamStoppable'
    OBVIOUS
  <2> QED BY <2>1, <2>2, <2>3, <2>4, <2>5, <2>6
<1>16. CASE UNCHANGED vars
  BY <1>16 DEF vars, registryVars
<1> QED
  <2> HIDE DEF IInv
  <2> QED
    BY <1>1, <1>2, <1>3, <1>4, <1>5, <1>6, <1>7,
       <1>8, <1>9, <1>10, <1>11, <1>12, <1>13, <1>14,
       <1>15, <1>16
       DEF Next, MapStep

(* The strengthened invariant holds in every reachable state. *)
LEMMA Inductive == Spec => []IInv
  BY InitIInv, NextIInv, RegistryInvariant, PTL DEF Spec

(* A running stream can always be stopped. *)
THEOREM StreamsStoppable == Spec => []StreamStoppable
<1>1. IInv => StreamStoppable
  BY DEF IInv
<1> QED BY <1>1, Inductive, PTL

(* Two streams on one connection: only while a subscribe is replacing one. *)
THEOREM OneStream == Spec => []OneStreamPerConnection
<1>1. IInv => OneStreamPerConnection
  BY TaskAssumption DEF IInv, TypeOK, Registry!TypeOK, StreamShape, StreamStoppable,
     OneStreamPerConnection
<1> QED BY <1>1, Inductive, PTL

(* Handlers, streams and the map keep their types. *)
THEOREM TypeCorrect == Spec => []TypeOK
<1>1. IInv => TypeOK
  BY DEF IInv
<1> QED BY <1>1, Inductive, PTL

(* No call that was under way reaches a connection that is gone. *)
LEMMA ReleasedStep ==
    ASSUME IInv, [Next]_vars, NEW i \in ConnId, Closed(i), Released(i)
    PROVE  Closed(i)' /\ Released(i)'
<1>1. RegistryProofs!Gone(i)'
  <2>1. RegistryProofs!TypeOK
    BY DEF IInv, TypeOK, Registry!TypeOK, RegistryProofs!TypeOK
  <2>2. RegistryProofs!Gone(i)
    BY DEF Closed, Released, Registry!Fresh, RegistryProofs!Gone, RegistryProofs!Fresh
  <2>3. [RegistryProofs!Next]_RegistryProofs!vars
    BY RegistryStep, RegistrySame
  <2> QED
    BY <2>1, <2>2, <2>3, RegistryProofs!GoneStays, TaskAssumption, RegistryAssumption
<1>2. ~ Registry!Fresh(i)' /\ i \notin connections' /\ Released(i)'
  BY <1>1 DEF Released, Registry!Fresh, RegistryProofs!Gone, RegistryProofs!Fresh
<1>3. \A t \in Request : argId'[t] # i
  <2> USE RegistryAssumption DEF Closed, IInv, TypeOK
  <2>1. ASSUME NEW t \in Request, NEW j \in ConnId,
               SubscribeLookup(t, j) \/ CloseConnection(t, j) \/ UseConnection(t, j)
        PROVE  \A u \in Request : argId'[u] # i
    <3>1. j \in connections
      BY <2>1 DEF SubscribeLookup, CloseConnection, UseConnection,
         Registry!Get, Registry!Close
    <3> QED
      BY <2>1, <3>1 DEF SubscribeLookup, CloseConnection, UseConnection, Enter
  <2>2. ASSUME NEW t \in Request,
               \/ SubscribeFails(t) \/ CollectAndReplace(t) \/ EndUse(t) \/ MapStep(t)
               \/ \E r \in Reset : SendBreakFails(t, r)
        PROVE  \A u \in Request : argId'[u] # i
    BY <2>2 DEF SubscribeFails, CollectAndReplace, EndUse, MapStep, RegisterStream,
       CloseStream, SendBreakFails, Leave, Enter
  <2>3. ASSUME NEW t \in Request,
               \/ OpenConnection(t)
               \/ \E j \in ConnId : Unsubscribe(t, j)
               \/ \E s \in Stream : SpawnStream(t, s)
        PROVE  argId' = argId
    BY <2>3 DEF OpenConnection, Unsubscribe, SpawnStream
  <2>4. ASSUME NEW s \in Stream, StreamEnds(s) \/ AbortTakesEffect(s)
        PROVE  argId' = argId
    BY <2>4 DEF StreamEnds, AbortTakesEffect
  <2>5. ASSUME NEW r \in Reset, ResetEnds(r) PROVE argId' = argId
    BY <2>5 DEF ResetEnds
  <2>6. CASE UNCHANGED vars
    BY <2>6 DEF vars
  <2> QED
    BY <2>1, <2>2, <2>3, <2>4, <2>5, <2>6 DEF Next
<1> QED
  BY <1>2, <1>3 DEF Closed, Released

(* A connection that is closed and released stays so: no call, no stream   *)
(* and no task that a send_break has left behind gets its device again.    *)
THEOREM GoneForGood == Spec => ReleasedForGood
<1> DEFINE Stays == \A i \in ConnId :
                      Closed(i) /\ Released(i) => Closed(i)' /\ Released(i)'
<1>1. IInv /\ [Next]_vars => [Stays]_vars
  BY ReleasedStep
<1> HIDE DEF Stays
<1>2. Spec => [][Stays]_vars
  BY <1>1, Inductive, PTL DEF Spec
<1> QED
  BY <1>2 DEF Stays, ReleasedForGood

-----------------------------------------------------------------------------
(* With the history of replies, the streaming tools do what they did, so   *)
(* that all that was proved of them holds of them with their replies.      *)
LEMMA RepliesStep == [RepliesNext]_replyVars => [Next]_vars
  BY DEF RepliesNext, replyVars, SilentStep, UnsubscribeReply, CollectReply,
         RegisterReply, SpawnNew, Next, MapStep

THEOREM RepliesBehave == RepliesSpec => Spec
<1>1. RepliesInit => Init
  BY DEF RepliesInit
<1> QED
  BY <1>1, RepliesStep, PTL DEF RepliesSpec, Spec

LEMMA RepliesInductive == RepliesSpec => []IInv
  BY RepliesBehave, Inductive, PTL

ToldInv == told \subseteq Stream /\ ReportedOnce

(* Each action either leaves the told streams alone or takes the one it    *)
(* reports out of the map, where it was the only handle of its task.       *)
LEMMA ToldStep == IInv /\ ToldInv /\ [RepliesNext]_replyVars => ToldInv'
<1> SUFFICES ASSUME IInv, ToldInv, [RepliesNext]_replyVars PROVE ToldInv'
  OBVIOUS
<1> USE TaskAssumption, RegistryAssumption DEF ToldInv, ReportedOnce
<1>1. ASSUME NEW t \in Request, NEW i \in ConnId, UnsubscribeReply(t, i)
      PROVE  ToldInv'
  BY <1>1 DEF UnsubscribeReply, Unsubscribe, Report, HandleDropped, IInv, TypeOK,
     HandlesDistinct
<1>2. ASSUME NEW t \in Request, CollectReply(t) PROVE ToldInv'
  BY <1>2 DEF CollectReply, CollectAndReplace, Report, HandleDropped, IInv, TypeOK,
     HandlesDistinct, HandlerShape
<1>3. ASSUME NEW t \in Request, RegisterReply(t) PROVE ToldInv'
  BY <1>3 DEF RegisterReply, RegisterStream, Report, Leave, Enter, HandleDropped,
     IInv, TypeOK, HandlesDistinct, HandlerShape
<1>4. ASSUME NEW t \in Request, NEW s \in Stream, SpawnNew(t, s) PROVE ToldInv'
  BY <1>4 DEF SpawnNew, SpawnStream, IInv, TypeOK
<1>5. CASE SilentStep
  <2> USE <1>5 DEF SilentStep
  <2>1. ASSUME NEW t \in Request,
               \/ OpenConnection(t) \/ SubscribeFails(t) \/ EndUse(t)
               \/ \E r \in Reset : SendBreakFails(t, r)
        PROVE  ToldInv'
    BY <2>1 DEF OpenConnection, SubscribeFails, EndUse, SendBreakFails
  <2>2. ASSUME NEW t \in Request, NEW i \in ConnId,
               SubscribeLookup(t, i) \/ CloseConnection(t, i) \/ UseConnection(t, i)
        PROVE  ToldInv'
    BY <2>2 DEF SubscribeLookup, CloseConnection, UseConnection
  <2>3. ASSUME NEW t \in Request, CloseStream(t) PROVE ToldInv'
    BY <2>3 DEF CloseStream, HandleDropped, IInv, TypeOK
  <2>4. ASSUME NEW s \in Stream, StreamEnds(s) \/ AbortTakesEffect(s)
        PROVE  ToldInv'
    BY <2>4 DEF StreamEnds, AbortTakesEffect, IInv, TypeOK
  <2>5. ASSUME NEW r \in Reset, ResetEnds(r) PROVE ToldInv'
    BY <2>5 DEF ResetEnds
  <2> QED BY <2>1, <2>2, <2>3, <2>4, <2>5
<1>6. CASE UNCHANGED replyVars
  BY <1>6 DEF replyVars, vars
<1> QED BY <1>1, <1>2, <1>3, <1>4, <1>5, <1>6 DEF RepliesNext

(* One reply at most says that it stopped a stream. *)
THEOREM OneReport == RepliesSpec => []ReportedOnce
<1>1. RepliesInit => ToldInv
  BY DEF RepliesInit, ToldInv, ReportedOnce
<1> QED BY <1>1, RepliesInductive, ToldStep, PTL DEF RepliesSpec, ToldInv

(* A handler of close that is done with the map. *)
ClosedBy(t, i) == handler[t] = "closing" /\ argId[t] = i /\ handler'[t] = "idle"

(* A step that leaves the map alone, stops the stream of one entry with a  *)
(* reply, or is that of a close.                                           *)
LEMMA EntryLeaves ==
    ASSUME IInv, [RepliesNext]_replyVars, NEW i \in ConnId,
           streams[i] # NoStream, streams'[i] # streams[i]
    PROVE  streams[i] \in told' \/ \E t \in Request : ClosedBy(t, i)
<1>1. streams \in [ConnId -> Stream \cup {NoStream}]
  BY DEF IInv, TypeOK
<1>2. ASSUME NEW t \in Request, NEW j \in ConnId, UnsubscribeReply(t, j)
      PROVE  streams[i] \in told'
  BY <1>1, <1>2 DEF UnsubscribeReply, Unsubscribe, Report
<1>3. ASSUME NEW t \in Request, CollectReply(t) PROVE streams[i] \in told'
  BY <1>1, <1>3 DEF CollectReply, CollectAndReplace, Report
<1>4. ASSUME NEW t \in Request, RegisterReply(t) PROVE streams[i] \in told'
  BY <1>1, <1>4 DEF RegisterReply, RegisterStream, Report
<1>5. ASSUME NEW t \in Request, NEW s \in Stream, SpawnNew(t, s) PROVE FALSE
  BY <1>5 DEF SpawnNew, SpawnStream
<1>6. ASSUME NEW t \in Request, CloseStream(t) PROVE ClosedBy(t, i)
  <2>1. /\ handler[t] = "closing" /\ Leave(t)
        /\ streams' = [streams EXCEPT ![argId[t]] = NoStream]
    BY <1>6 DEF CloseStream
  <2>2. argId[t] = i
    BY <1>1, <2>1
  <2>3. handler'[t] = "idle"
    BY <2>1 DEF Leave, Enter, IInv, TypeOK
  <2> QED
    BY <2>1, <2>2, <2>3 DEF ClosedBy
<1>7. CASE SilentStep
  <2> USE <1>7 DEF SilentStep
  <2>1. ASSUME NEW t \in Request,
               \/ OpenConnection(t) \/ SubscribeFails(t) \/ EndUse(t)
               \/ \E r \in Reset : SendBreakFails(t, r)
        PROVE  FALSE
    BY <2>1 DEF OpenConnection, SubscribeFails, EndUse, SendBreakFails
  <2>2. ASSUME NEW t \in Request, NEW j \in ConnId,
               SubscribeLookup(t, j) \/ CloseConnection(t, j) \/ UseConnection(t, j)
        PROVE  FALSE
    BY <2>2 DEF SubscribeLookup, CloseConnection, UseConnection
  <2>3. ASSUME NEW s \in Stream, StreamEnds(s) \/ AbortTakesEffect(s)
        PROVE  FALSE
    BY <2>3 DEF StreamEnds, AbortTakesEffect
  <2>4. ASSUME NEW r \in Reset, ResetEnds(r) PROVE FALSE
    BY <2>4 DEF ResetEnds
  <2> QED
    BY <1>6, <2>1, <2>2, <2>3, <2>4
<1>8. CASE UNCHANGED replyVars
  BY <1>8 DEF replyVars, vars
<1> QED
  BY <1>2, <1>3, <1>4, <1>5, <1>7, <1>8 DEF RepliesNext

(* Streams leave the map by a reply or a close, never by ending. *)
THEOREM EntryKept == RepliesSpec => RemovedByReplyOrClose
<1> DEFINE Kept ==
      \A i \in ConnId :
        streams[i] # NoStream /\ streams'[i] # streams[i] =>
            \/ streams[i] \in told'
            \/ \E t \in Request : handler[t] = "closing" /\ argId[t] = i
                                  /\ handler'[t] = "idle"
<1>1. IInv /\ [RepliesNext]_replyVars => [Kept]_replyVars
  BY EntryLeaves DEF ClosedBy
<1> HIDE DEF Kept
<1>2. RepliesSpec => [][Kept]_replyVars
  BY <1>1, RepliesInductive, PTL DEF RepliesSpec
<1> QED
  BY <1>2 DEF Kept, RemovedByReplyOrClose
=============================================================================
