---------------------------- MODULE StreamReplies ----------------------------
(***************************************************************************)
(* What subscribe and unsubscribe tell their clients: the flags            *)
(* replaced_previous and was_active are whether the call took a handle out *)
(* of the streams map.  The streaming tools of RxStreams, with a history   *)
(* of the streams that a reply has reported in this way.  Calls that       *)
(* report nothing (flag false, an error, close) leave it alone.            *)
(***************************************************************************)
EXTENDS RxStreams

VARIABLE told   \* the streams that a reply said were stopped or replaced

replyVars == <<vars, told>>

RepliesInit == Init /\ told = {}

(* The reply is true if the map had a stream for the connection. *)
Report(i) == told' = told \cup ({streams[i]} \ {NoStream})

(* was_active *)
UnsubscribeReply(t, i) == Unsubscribe(t, i) /\ Report(i)

(* replaced_previous, blocking mode: whatever stream is there when the     *)
(* bytes are collected, also one subscribed while they were.               *)
CollectReply(t) == CollectAndReplace(t) /\ Report(argId[t])

(* replaced_previous, background mode *)
RegisterReply(t) == RegisterStream(t) /\ Report(argId[t])

(* A spawned task is a new stream. *)
SpawnNew(t, s) == SpawnStream(t, s) /\ told' = told \ {s}

SilentStep ==
    /\ \/ \E t \in Request :
           \/ OpenConnection(t)
           \/ \E i \in ConnId :
               SubscribeLookup(t, i) \/ CloseConnection(t, i) \/ UseConnection(t, i)
           \/ SubscribeFails(t) \/ CloseStream(t) \/ EndUse(t)
           \/ \E r \in Reset : SendBreakFails(t, r)
       \/ \E s \in Stream : StreamEnds(s) \/ AbortTakesEffect(s)
       \/ \E r \in Reset : ResetEnds(r)
    /\ UNCHANGED told

RepliesNext ==
    \/ \E t \in Request :
        \/ \E i \in ConnId : UnsubscribeReply(t, i)
        \/ CollectReply(t)
        \/ RegisterReply(t)
        \/ \E s \in Stream : SpawnNew(t, s)
    \/ SilentStep

RepliesSpec == RepliesInit /\ [][RepliesNext]_replyVars
FairRepliesSpec == RepliesSpec /\ Fairness /\ ResetsEnd

-----------------------------------------------------------------------------
(* Properties. *)

(* Each stream is reported by one reply: a stream that a call said it      *)
(* stopped or replaced is in no other call's reach and reads no further    *)
(* than its next await.  Of calls that race for one stream, also when a    *)
(* blocking subscribe ends after a newer subscribe has registered, one     *)
(* says that it stopped it.                                                *)
ReportedOnce ==
    \A s \in told :
        /\ task[s] # "running"
        /\ \A i \in ConnId : streams[i] # s
        /\ \A t \in Request : mine[t] # s

(* A stream leaves the map only because a reply or a close stops it: one   *)
(* whose subscribe has returned is there for unsubscribe until then, also  *)
(* when it has ended by itself.                                            *)
RemovedByReplyOrClose ==
    [][\A i \in ConnId :
         streams[i] # NoStream /\ streams'[i] # streams[i] =>
             \/ streams[i] \in told'
             \/ \E t \in Request : handler[t] = "closing" /\ argId[t] = i
                                   /\ handler'[t] = "idle"]_replyVars
=============================================================================
