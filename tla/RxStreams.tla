----------------------------- MODULE RxStreams ------------------------------
(***************************************************************************)
(* Background streaming of received bytes: the subscribe, unsubscribe and  *)
(* close tools, the `streams` map they share, and the stream_rx tasks they *)
(* start and abort, composed with the connection registry.                 *)
(*                                                                         *)
(* Request tasks run tool handlers, of any session: sessions share the     *)
(* manager and the map.  Each action is one stretch of a handler between   *)
(* two awaits at which another task can change what it read.  Dropping a   *)
(* StreamHandle only asks for the abort; the task keeps its Arc until it   *)
(* stops.  A send_break that does not end well leaves an Arc behind, with  *)
(* the task that its guard spawns to clear BREAK.                          *)
(***************************************************************************)
EXTENDS FiniteSets, Naturals

CONSTANTS Port, Allowed, ConnId, NoPort, NoConn,
          Request,   \* tasks that run tool handlers
          Stream,    \* tasks spawned for stream_rx
          Reset,     \* tasks spawned to clear BREAK
          NoStream

ASSUME TaskAssumption ==
    /\ Request \cap Stream = {}
    /\ Reset \cap (Request \cup Stream) = {}
    /\ (Request \cup Stream \cup Reset) \cap ConnId = {}
    /\ NoStream \notin Stream
ASSUME RegistryAssumption ==
    Allowed \subseteq Port /\ NoPort \notin Port /\ NoConn \notin ConnId

VARIABLES
    connections, openingPorts, portOf, pc, target, arc,  \* the registry's
    streams,   \* the map: the stream registered for a connection id
    task,      \* "off", "running", or "aborting" when its handle is gone
    handler,   \* where a request handler is
    argId,     \* the connection_id argument of the handler's call
    mine       \* the stream a handler has spawned and not yet registered

registryVars == <<connections, openingPorts, portOf, pc, target, arc>>
vars == <<registryVars, streams, task, handler, argId, mine>>

Registry == INSTANCE ConnectionRegistry WITH Task <- Request \cup Stream \cup Reset

Init ==
    /\ Registry!Init
    /\ streams = [i \in ConnId |-> NoStream]
    /\ task = [s \in Stream |-> "off"]
    /\ handler = [t \in Request |-> "idle"]
    /\ argId = [t \in Request |-> NoConn]
    /\ mine = [t \in Request |-> NoStream]

Enter(t, h, i) ==
    /\ handler' = [handler EXCEPT ![t] = h]
    /\ argId' = [argId EXCEPT ![t] = i]

Leave(t) == Enter(t, "idle", NoConn)

(* Faulty variant: a bare JoinHandle, whose drop detaches the task. *)
HandleDetached(s) == task

(* The value of `task` once the handle of s, if there is one, is dropped. *)
HandleDropped(s) ==
    [u \in Stream |->
        IF u = s /\ task[u] = "running" THEN "aborting" ELSE task[u]]

(* A task that no handle refers to: spawning makes a new one. *)
Unused(s) ==
    /\ task[s] = "off"
    /\ \A i \in ConnId : streams[i] # s
    /\ \A t \in Request : mine[t] # s

-----------------------------------------------------------------------------
(* The open tool, and `insert`: the registry's own steps. *)
OpenConnection(t) ==
    /\ handler[t] = "idle"
    /\ \/ \E p \in Port : Registry!Reserve(t, p)
       \/ Registry!OpenStep(t)
       \/ \E p \in Port, i \in ConnId : Registry!Insert(t, p, i)
    /\ UNCHANGED <<streams, task, handler, argId, mine>>

(* subscribe looks the connection up and works on its own Arc from here on. *)
SubscribeLookup(t, i) ==
    /\ handler[t] = "idle"
    /\ Registry!Get(t, i)
    /\ Enter(t, "subscribing", i)
    /\ UNCHANGED <<streams, task, mine>>

(* subscribe returns an error: an argument out of range, or in blocking    *)
(* mode a cancelled call, a read error or bytes that cannot be encoded.    *)
(* An earlier subscription is left as it was.                              *)
SubscribeFails(t) ==
    /\ handler[t] = "subscribing"
    /\ Registry!DropArc(t)
    /\ Leave(t)
    /\ UNCHANGED <<streams, task, mine>>

(* Blocking mode: when the bytes are collected, whatever stream is now     *)
(* registered for the connection is aborted.                               *)
CollectAndReplace(t) ==
    /\ handler[t] = "subscribing"
    /\ Registry!DropArc(t)
    /\ task' = HandleDropped(streams[argId[t]])
    /\ streams' = [streams EXCEPT ![argId[t]] = NoStream]
    /\ Leave(t)
    /\ UNCHANGED mine

(* Background mode: the new stream runs before the map is locked. *)
SpawnStream(t, s) ==
    /\ handler[t] = "subscribing"
    /\ Unused(s)
    /\ Registry!HandArc(t, s)
    /\ task' = [task EXCEPT ![s] = "running"]
    /\ mine' = [mine EXCEPT ![t] = s]
    /\ handler' = [handler EXCEPT ![t] = "spawned"]
    /\ UNCHANGED <<streams, argId>>

(* Faulty variant: the replaced handle is forgotten, not dropped. *)
RegisterStreamForgetting(t) ==
    /\ handler[t] = "spawned"
    /\ streams' = [streams EXCEPT ![argId[t]] = mine[t]]
    /\ mine' = [mine EXCEPT ![t] = NoStream]
    /\ Leave(t)
    /\ UNCHANGED <<registryVars, task>>

(* Faulty variant: the Arc goes into the map instead of the handle. *)
RegisterArc(t) ==
    /\ handler[t] = "spawned"
    /\ task' = HandleDropped(streams[argId[t]])
    /\ streams' = [streams EXCEPT ![argId[t]] = arc[t]]
    /\ mine' = [mine EXCEPT ![t] = NoStream]
    /\ Leave(t)
    /\ UNCHANGED registryVars

(* The handle goes into the map; the one it replaces is dropped. *)
RegisterStream(t) ==
    /\ handler[t] = "spawned"
    /\ task' = HandleDropped(streams[argId[t]])
    /\ streams' = [streams EXCEPT ![argId[t]] = mine[t]]
    /\ mine' = [mine EXCEPT ![t] = NoStream]
    /\ Leave(t)
    /\ UNCHANGED registryVars

(* Faulty variant: the task is aborted, its handle stays in the map. *)
UnsubscribeKeeping(t, i) ==
    /\ handler[t] = "idle" /\ pc[t] = "idle"
    /\ streams[i] # NoStream
    /\ task' = HandleDropped(streams[i])
    /\ UNCHANGED <<registryVars, streams, handler, argId, mine>>

(* unsubscribe does not look the connection up: the map decides. *)
Unsubscribe(t, i) ==
    /\ handler[t] = "idle" /\ pc[t] = "idle"
    /\ streams[i] # NoStream
    /\ task' = HandleDropped(streams[i])
    /\ streams' = [streams EXCEPT ![i] = NoStream]
    /\ UNCHANGED <<registryVars, handler, argId, mine>>

(* close: first the registry, whose error ends the call, then the map. *)
CloseConnection(t, i) ==
    /\ handler[t] = "idle"
    /\ Registry!Close(t, i)
    /\ Enter(t, "closing", i)
    /\ UNCHANGED <<streams, task, mine>>

CloseStream(t) ==
    /\ handler[t] = "closing"
    /\ task' = HandleDropped(streams[argId[t]])
    /\ streams' = [streams EXCEPT ![argId[t]] = NoStream]
    /\ Leave(t)
    /\ UNCHANGED <<registryVars, mine>>

(* Faulty variant: an Arc is found although the registry has dropped it. *)
UseConnectionCached(t, i) ==
    /\ handler[t] = "idle" /\ Registry!Idle(t)
    /\ ~ Registry!Fresh(i)
    /\ arc' = [arc EXCEPT ![t] = i]
    /\ Enter(t, "using", i)
    /\ UNCHANGED <<connections, openingPorts, portOf, pc, target, streams, task, mine>>

(* Any other tool looks the connection up and works on its own Arc. *)
UseConnection(t, i) ==
    /\ handler[t] = "idle"
    /\ Registry!Get(t, i)
    /\ Enter(t, "using", i)
    /\ UNCHANGED <<streams, task, mine>>

EndUse(t) ==
    /\ handler[t] = "using"
    /\ Registry!DropArc(t)
    /\ Leave(t)
    /\ UNCHANGED <<streams, task, mine>>

(* send_break is cancelled, or cannot clear BREAK: its guard moves an Arc  *)
(* into a task of its own, and the call returns.                           *)
SendBreakFails(t, r) ==
    /\ handler[t] = "using"
    /\ Registry!HandArc(t, r)
    /\ Leave(t)
    /\ UNCHANGED <<streams, task, mine>>

(* The task has had the io mutex and has cleared BREAK, or could not. *)
ResetEnds(r) ==
    /\ Registry!DropArc(r)
    /\ UNCHANGED <<streams, task, handler, argId, mine>>

(* Faulty variant: a stream that ends clears its connection's entry. *)
StreamEndsClearing(s) ==
    /\ task[s] = "running"
    /\ Registry!DropArc(s)
    /\ task' = [task EXCEPT ![s] = "off"]
    /\ streams' = [streams EXCEPT ![arc[s]] = NoStream]
    /\ UNCHANGED <<handler, argId, mine>>

(* stream_rx ends by itself on a read error, or when the peer it notifies  *)
(* is gone.  Its handle stays in the map.                                  *)
StreamEnds(s) ==
    /\ task[s] = "running"
    /\ Registry!DropArc(s)
    /\ task' = [task EXCEPT ![s] = "off"]
    /\ UNCHANGED <<streams, handler, argId, mine>>

(* An aborted task stops at its next await. *)
AbortTakesEffect(s) ==
    /\ task[s] = "aborting"
    /\ Registry!DropArc(s)
    /\ task' = [task EXCEPT ![s] = "off"]
    /\ UNCHANGED <<streams, handler, argId, mine>>

(* Steps that wait only for the lock of the streams map. *)
MapStep(t) == RegisterStream(t) \/ CloseStream(t)

Next ==
    \/ \E t \in Request :
        \/ OpenConnection(t)
        \/ \E i \in ConnId :
            \/ SubscribeLookup(t, i)
            \/ Unsubscribe(t, i)
            \/ CloseConnection(t, i)
            \/ UseConnection(t, i)
        \/ SubscribeFails(t)
        \/ CollectAndReplace(t)
        \/ \E s \in Stream : SpawnStream(t, s)
        \/ MapStep(t)
        \/ EndUse(t)
        \/ \E r \in Reset : SendBreakFails(t, r)
    \/ \E s \in Stream : StreamEnds(s) \/ AbortTakesEffect(s)
    \/ \E r \in Reset : ResetEnds(r)

(* The lock of the map is never held across an await, so a handler that    *)
(* waits for it gets it; and an aborted task reaches an await.  No call is *)
(* fair, which may wait for the device, nor the end of a stream by itself: *)
(* an idle device never errs, and a peer that is gone shows only when      *)
(* bytes come.                                                             *)
Fairness ==
    /\ \A t \in Request : WF_vars(MapStep(t))
    /\ \A s \in Stream : WF_vars(AbortTakesEffect(s))

(* Not of the code alone: the io mutex, which is handed over in order of   *)
(* arrival, comes to a task that is to clear BREAK, as long as no write    *)
(* ahead of it waits for ever for the device.                              *)
ResetsEnd == \A r \in Reset : WF_vars(ResetEnds(r))

Spec == Init /\ [][Next]_vars
FairSpec == Spec /\ Fairness /\ ResetsEnd

-----------------------------------------------------------------------------
(* Properties. *)

TypeOK ==
    /\ Registry!TypeOK
    /\ streams \in [ConnId -> Stream \cup {NoStream}]
    /\ task \in [Stream -> {"off", "running", "aborting"}]
    /\ handler \in [Request -> {"idle", "subscribing", "spawned", "closing", "using"}]
    /\ argId \in [Request -> ConnId \cup {NoConn}]
    /\ mine \in [Request -> Stream \cup {NoStream}]

(* A running stream can always be stopped: its handle is in the map under  *)
(* the connection it reads, or a subscribe on that connection is about to  *)
(* put it there.  No subscribe, unsubscribe or close, however they         *)
(* interleave, loses the handle of a task that goes on reading the port.   *)
StreamStoppable ==
    \A s \in Stream : task[s] = "running" =>
        \/ streams[arc[s]] = s
        \/ \E t \in Request : mine[t] = s /\ argId[t] = arc[s]

(* Two streams compete for the bytes of one connection only while a        *)
(* subscribe that spawned one of them has yet to replace the other.        *)
OneStreamPerConnection ==
    \A r, s \in Stream :
        /\ task[r] = "running" /\ task[s] = "running"
        /\ r # s /\ arc[r] = arc[s]
        => \E t \in Request : mine[t] \in {r, s}

(* Nobody opens, has registered, or is still closing the connection. *)
Closed(i) ==
    /\ ~ Registry!Fresh(i)
    /\ i \notin connections
    /\ \A t \in Request : argId[t] # i /\ ~ (pc[t] = "opened" /\ arc[t] = i)

(* No call, no stream and no task left by a send_break has its Arc. *)
Released(i) == \A u \in Request \cup Stream \cup Reset : arc[u] # i

(* Once a connection is closed, no call on it is under way and no stream   *)
(* is registered for it, its device is released: an aborted stream gives   *)
(* its Arc up, a task that a send_break has left behind does when it has   *)
(* cleared BREAK, and nothing else has kept one.                           *)
AbortedStreamsRelease ==
    \A i \in ConnId : Closed(i) /\ streams[i] = NoStream ~> Released(i)

(* And it stays released: no subscribe, tool, stream or guard that was     *)
(* under way when the connection was closed gets hold of its device later, *)
(* so that the port is free for a new connection or another program.       *)
ReleasedForGood ==
    [][\A i \in ConnId :
         Closed(i) /\ Released(i) => Closed(i)' /\ Released(i)']_vars

(* "Stop with unsubscribe or by closing the connection": when close has    *)
(* returned and no call on the connection is under way, its streams stop.  *)
CloseStopsStreams == \A i \in ConnId : Closed(i) ~> Released(i)
=============================================================================
