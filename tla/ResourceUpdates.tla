-------------------------- MODULE ResourceUpdates ---------------------------
(***************************************************************************)
(* Resource subscriptions and the notifications that open and close send.  *)
(* Every session has a handler of its own, with its own reference counts;  *)
(* the connections are shared by all sessions. One open or close of a      *)
(* session runs at a time.                                                 *)
(***************************************************************************)
EXTENDS Naturals

CONSTANTS Session,   \* client sessions
          Conn,      \* connection ids, each with its serial://connections/{id}
          MaxCount,  \* bound on a reference count
          NoConn

ASSUME ParameterAssumption == NoConn \notin Conn /\ MaxCount \in Nat

VARIABLES
    state,      \* of a connection: "new", "open" or "closed"
    count,      \* `subscribers`: the count of a session for a connection
    step,       \* where the session's open or close call is
    changed,    \* the connection that call has changed
    unseen,     \* <<session, conn>>: subscribed when it changed, not notified yet
    invited     \* history: sessions subscribed to what their call has changed,
                \* at some moment of that call

vars == <<state, count, step, changed, unseen, invited>>

Init ==
    /\ state = [c \in Conn |-> "new"]
    /\ count = [s \in Session |-> [c \in Conn |-> 0]]
    /\ step = [s \in Session |-> "idle"]
    /\ changed = [s \in Session |-> NoConn]
    /\ unseen = {}
    /\ invited = {}

(* resources/subscribe: ids are random, so only opened ones are known. *)
Subscribe(s, c) ==
    /\ state[c] # "new"
    /\ count[s][c] < MaxCount
    /\ count' = [count EXCEPT ![s][c] = @ + 1]
    /\ invited' = IF changed[s] = c THEN invited \cup {s} ELSE invited
    /\ UNCHANGED <<state, step, changed, unseen>>

(* Faulty variant: a count may go below zero. *)
UnsubscribeUnchecked(s, c) ==
    /\ count' = [count EXCEPT ![s][c] = @ - 1]
    /\ unseen' = IF count[s][c] = 1 THEN unseen \ {<<s, c>>} ELSE unseen
    /\ UNCHANGED <<state, step, changed, invited>>

(* resources/unsubscribe: the last one gives up what is still unseen. *)
Unsubscribe(s, c) ==
    /\ count[s][c] > 0
    /\ count' = [count EXCEPT ![s][c] = @ - 1]
    /\ unseen' = IF count[s][c] = 1 THEN unseen \ {<<s, c>>} ELSE unseen
    /\ UNCHANGED <<state, step, changed, invited>>

(* The registry has opened or closed c for a call of session s. *)
Change(s, c) ==
    /\ step[s] = "idle"
    /\ \/ state[c] = "new" /\ state' = [state EXCEPT ![c] = "open"]
       \/ state[c] = "open" /\ state' = [state EXCEPT ![c] = "closed"]
    /\ step' = [step EXCEPT ![s] = "list"]
    /\ changed' = [changed EXCEPT ![s] = c]
    /\ unseen' = unseen \cup {<<x, c>> : x \in {y \in Session : count[y][c] > 0}}
    /\ invited' = IF count[s][c] > 0 THEN invited \cup {s} ELSE invited \ {s}
    /\ UNCHANGED count

(* notify_resource_changed: list_changed goes out first, to the caller; an *)
(* error is logged and forgotten.                                          *)
ListChanged(s) ==
    /\ step[s] = "list"
    /\ step' = [step EXCEPT ![s] = "check"]
    /\ UNCHANGED <<state, count, changed, unseen, invited>>

(* Faulty variant: the counts are looked up under another key. *)
CheckNobody(s) ==
    /\ step[s] = "check"
    /\ step' = [step EXCEPT ![s] = "idle"]
    /\ changed' = [changed EXCEPT ![s] = NoConn]
    /\ UNCHANGED <<state, count, unseen, invited>>

(* Faulty variant: sessions share their subscriptions as they do the       *)
(* connections.                                                            *)
CheckAnySession(s) ==
    /\ step[s] = "check"
    /\ IF \E x \in Session : count[x][changed[s]] > 0
       THEN step' = [step EXCEPT ![s] = "update"] /\ UNCHANGED changed
       ELSE /\ step' = [step EXCEPT ![s] = "idle"]
            /\ changed' = [changed EXCEPT ![s] = NoConn]
    /\ UNCHANGED <<state, count, unseen, invited>>

(* Then the counts are looked at, and the lock is released... *)
CheckSubscribers(s) ==
    /\ step[s] = "check"
    /\ IF count[s][changed[s]] > 0
       THEN step' = [step EXCEPT ![s] = "update"] /\ UNCHANGED changed
       ELSE /\ step' = [step EXCEPT ![s] = "idle"]
            /\ changed' = [changed EXCEPT ![s] = NoConn]
    /\ UNCHANGED <<state, count, unseen, invited>>

(* ... before the caller is told that the connection was updated. *)
Updated(s) ==
    /\ step[s] = "update"
    /\ unseen' = unseen \ {<<s, changed[s]>>}
    /\ step' = [step EXCEPT ![s] = "idle"]
    /\ changed' = [changed EXCEPT ![s] = NoConn]
    /\ UNCHANGED <<state, count, invited>>

(* Or it is not: the notification cannot be sent... *)
UpdateFails(s) ==
    /\ step[s] = "update"
    /\ step' = [step EXCEPT ![s] = "unsent"]
    /\ UNCHANGED <<state, count, changed, unseen, invited>>

(* ... and the call returns as if it had been. *)
ErrorForgotten(s) ==
    /\ step[s] = "unsent"
    /\ step' = [step EXCEPT ![s] = "idle"]
    /\ changed' = [changed EXCEPT ![s] = NoConn]
    /\ UNCHANGED <<state, count, unseen, invited>>

NotifyStep(s) ==
    \/ ListChanged(s)
    \/ CheckSubscribers(s)
    \/ Updated(s)
    \/ UpdateFails(s)
    \/ ErrorForgotten(s)

Next ==
    \E s \in Session :
        \/ \E c \in Conn : Subscribe(s, c) \/ Unsubscribe(s, c) \/ Change(s, c)
        \/ NotifyStep(s)

(* A handler goes on once it has changed the registry. *)
Fairness == \A s \in Session : WF_vars(NotifyStep(s))

Spec == Init /\ [][Next]_vars
FairSpec == Spec /\ Fairness

-----------------------------------------------------------------------------
(* The subscriptions that change with a count of more than zero are the only *)
(* ones owed a notification, and a call in flight knows what it changed.     *)
TypeOK ==
    /\ state \in [Conn -> {"new", "open", "closed"}]
    /\ count \in [Session -> [Conn -> 0..MaxCount]]
    /\ step \in [Session -> {"idle", "list", "check", "update", "unsent"}]
    /\ changed \in [Session -> Conn \cup {NoConn}]
    /\ \A s \in Session : step[s] = "idle" <=> changed[s] = NoConn
    /\ unseen \subseteq {p \in Session \X Conn : count[p[1]][p[2]] > 0}
    /\ invited \subseteq Session

(* open and close return only when their client has been told of the change *)
(* that they made, if it was subscribed and still is, whatever it has       *)
(* subscribed or given up since and whatever other sessions do; or when     *)
(* the notification could not be sent.                                      *)
ToldBeforeReturn ==
    [][\A s \in Session : step[s] \notin {"idle", "unsent"} /\ step'[s] = "idle" =>
         <<s, changed[s]>> \notin unseen']_vars

(* A session that is subscribed to a connection and opens or closes it is   *)
(* told of the update or gives the subscription up, whatever the other      *)
(* sessions do between the steps of the notification, unless it cannot be   *)
(* sent (server.rs 325-344).                                                *)
OwnChangesUpdate ==
    \A s \in Session, c \in Conn :
        changed[s] = c /\ <<s, c>> \in unseen
            ~> <<s, c>> \notin unseen \/ step[s] = "unsent"

(* A session is told of an update only of what it has itself subscribed to, *)
(* if not by now - the lock is released before the notification goes out -  *)
(* then at some moment of the call that has made the change.                *)
ToldOnlyIfInvited ==
    \A s \in Session : step[s] \in {"update", "unsent"} => s \in invited

(* Every subscriber is told of every change, unsubscribes first or cannot   *)
(* be told: what SPECIFICATION_COMPLIANCE.md says of                        *)
(* notifications/resources/updated.                                         *)
SubscribersUpdate ==
    \A s \in Session, c \in Conn :
        <<s, c>> \in unseen ~> <<s, c>> \notin unseen \/ step[s] = "unsent"
=============================================================================
