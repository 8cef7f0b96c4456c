------------------------ MODULE ResourceUpdatesProofs ------------------------
(* Notifications are owed to present subscribers only, and a call in flight *)
(* knows the connection it changed: proved for any sessions, connections    *)
(* and counts; and so is that a caller is told of its own change.           *)
EXTENDS ResourceUpdates, TLAPS

LEMMA InitTyped == Init => TypeOK
  BY ParameterAssumption DEF Init, TypeOK

LEMMA CountsTyped ==
    ASSUME TypeOK, NEW s \in Session, NEW c \in Conn, Subscribe(s, c) \/ Unsubscribe(s, c)
    PROVE  TypeOK'
<1>1. /\ count \in [Session -> [Conn -> 0..MaxCount]] /\ count[s][c] \in 0..MaxCount
      /\ unseen \subseteq {p \in Session \X Conn : count[p[1]][p[2]] > 0}
      /\ UNCHANGED <<state, step, changed>>
      /\ invited' \subseteq Session
  BY DEF TypeOK, Subscribe, Unsubscribe
<1>2. CASE Subscribe(s, c)
  <2>1. /\ count' = [count EXCEPT ![s][c] = @ + 1] /\ unseen' = unseen
        /\ count[s][c] + 1 \in 0..MaxCount
    BY <1>1, <1>2, ParameterAssumption DEF Subscribe
  <2>2. count' \in [Session -> [Conn -> 0..MaxCount]]
    BY <1>1, <2>1
  <2>3. \A x \in Session, y \in Conn : count[x][y] > 0 => count'[x][y] > 0
    BY <1>1, <2>1, ParameterAssumption
  <2> QED
    BY <1>1, <2>1, <2>2, <2>3 DEF TypeOK
<1>3. CASE Unsubscribe(s, c)
  <2>1. /\ count[s][c] > 0 /\ count' = [count EXCEPT ![s][c] = @ - 1]
        /\ unseen' = IF count[s][c] = 1 THEN unseen \ {<<s, c>>} ELSE unseen
        /\ count[s][c] - 1 \in 0..MaxCount
    BY <1>1, <1>3, ParameterAssumption DEF Unsubscribe
  <2>2. count' \in [Session -> [Conn -> 0..MaxCount]]
    BY <1>1, <2>1
  <2>3. /\ \A x \in Session, y \in Conn : <<x, y>> # <<s, c>> => count'[x][y] = count[x][y]
        /\ count'[s][c] = count[s][c] - 1
    BY <1>1, <2>1
  <2>4. count[s][c] # 1 => count'[s][c] > 0
    BY <1>1, <2>1, <2>3, ParameterAssumption
  <2>5. unseen' \subseteq {p \in Session \X Conn : count'[p[1]][p[2]] > 0}
    BY <1>1, <2>1, <2>3, <2>4
  <2> QED
    BY <1>1, <2>2, <2>5 DEF TypeOK
<1> QED
  BY <1>2, <1>3

LEMMA ChangeTyped ==
    ASSUME TypeOK, NEW s \in Session, NEW c \in Conn, Change(s, c)
    PROVE  TypeOK'
<1>1. /\ state' \in [Conn -> {"new", "open", "closed"}]
      /\ step' \in [Session -> {"idle", "list", "check", "update", "unsent"}]
      /\ changed' \in [Session -> Conn \cup {NoConn}]
      /\ count' = count /\ invited' \subseteq Session
  BY DEF TypeOK, Change
<1>2. \A x \in Session : step'[x] = "idle" <=> changed'[x] = NoConn
  BY ParameterAssumption DEF TypeOK, Change
<1>3. unseen' \subseteq {p \in Session \X Conn : count[p[1]][p[2]] > 0}
  BY DEF TypeOK, Change
<1> QED
  BY <1>1, <1>2, <1>3 DEF TypeOK

LEMMA NotifyTyped ==
    ASSUME TypeOK, NEW s \in Session, NotifyStep(s)
    PROVE  TypeOK'
<1>1. CASE ListChanged(s)
  BY <1>1 DEF TypeOK, ListChanged
<1>2. CASE CheckSubscribers(s)
  BY <1>2 DEF TypeOK, CheckSubscribers
<1>3. CASE Updated(s)
  BY <1>3 DEF TypeOK, Updated
<1>4. CASE UpdateFails(s)
  BY <1>4 DEF TypeOK, UpdateFails
<1>5. CASE ErrorForgotten(s)
  BY <1>5 DEF TypeOK, ErrorForgotten
<1> QED
  BY <1>1, <1>2, <1>3, <1>4, <1>5 DEF NotifyStep

(* Each variable keeps its type; who is owed a notification is subscribed,  *)
(* also when counts change between the steps of a notification.             *)
THEOREM TypeCorrect == Spec => []TypeOK
<1>1. TypeOK /\ [Next]_vars => TypeOK'
  <2> SUFFICES ASSUME TypeOK, [Next]_vars PROVE TypeOK'
    OBVIOUS
  <2>1. CASE UNCHANGED vars
    BY <2>1 DEF TypeOK, vars
  <2>2. CASE Next
    <3>1. PICK s \in Session :
            \/ \E c \in Conn : Subscribe(s, c) \/ Unsubscribe(s, c) \/ Change(s, c)
            \/ NotifyStep(s)
      BY <2>2 DEF Next
    <3> QED
      BY <3>1, CountsTyped, ChangeTyped, NotifyTyped
  <2> QED
    BY <2>1, <2>2
<1> QED
  BY <1>1, InitTyped, PTL DEF Spec

(* What ends a call of open or close leaves nothing owed to its session:    *)
(* there was no subscription any more, or it has been told.                 *)
LEMMA CallEnds ==
    ASSUME TypeOK, Next, NEW x \in Session,
           step[x] \notin {"idle", "unsent"}, step'[x] = "idle"
    PROVE  <<x, changed[x]>> \notin unseen'
<1>1. step \in [Session -> {"idle", "list", "check", "update", "unsent"}]
  BY DEF TypeOK
<1>2. PICK s \in Session :
        \/ \E c \in Conn : Subscribe(s, c) \/ Unsubscribe(s, c) \/ Change(s, c)
        \/ NotifyStep(s)
  BY DEF Next
<1>3. ASSUME NEW c \in Conn, Subscribe(s, c) \/ Unsubscribe(s, c) \/ Change(s, c)
      PROVE  FALSE
  BY <1>1, <1>3 DEF Subscribe, Unsubscribe, Change
<1>4. CASE ListChanged(s)
  BY <1>1, <1>4 DEF ListChanged
<1>5. CASE CheckSubscribers(s)
  <2>1. s = x /\ ~ (count[s][changed[s]] > 0) /\ unseen' = unseen
    BY <1>1, <1>5 DEF CheckSubscribers
  <2> QED
    BY <2>1 DEF TypeOK
<1>6. CASE Updated(s)
  <2>1. s = x /\ unseen' = unseen \ {<<s, changed[s]>>}
    BY <1>1, <1>6 DEF Updated
  <2> QED
    BY <2>1
<1>7. CASE UpdateFails(s) \/ ErrorForgotten(s)
  BY <1>1, <1>7 DEF UpdateFails, ErrorForgotten
<1> QED
  BY <1>2, <1>3, <1>4, <1>5, <1>6, <1>7 DEF NotifyStep

(* open and close return when their own session has been told, or cannot be. *)
THEOREM CallersTold == Spec => ToldBeforeReturn
<1> DEFINE Told == \A s \in Session : step[s] \notin {"idle", "unsent"} /\ step'[s] = "idle" =>
                       <<s, changed[s]>> \notin unseen'
<1>1. TypeOK /\ [Next]_vars => [Told]_vars
  BY CallEnds
<1> HIDE DEF Told
<1>2. Spec => [][Told]_vars
  BY <1>1, TypeCorrect, PTL DEF Spec
<1> QED
  BY <1>2 DEF Told, ToldBeforeReturn

(* Who is about to be told was subscribed when the counts were looked at,   *)
(* which is during the call.                                                *)
InvitedInv ==
    \A s \in Session : step[s] # "idle" /\ count[s][changed[s]] > 0 => s \in invited

LEMMA InvitedStep ==
    ASSUME TypeOK, InvitedInv, ToldOnlyIfInvited, [Next]_vars
    PROVE  InvitedInv' /\ ToldOnlyIfInvited'
<1> USE DEF InvitedInv, ToldOnlyIfInvited
<1>1. /\ step \in [Session -> {"idle", "list", "check", "update", "unsent"}]
      /\ changed \in [Session -> Conn \cup {NoConn}]
      /\ count \in [Session -> [Conn -> 0..MaxCount]]
      /\ \A s \in Session : step[s] # "idle" => changed[s] \in Conn
  BY DEF TypeOK
<1>2. ASSUME NEW s \in Session, NEW c \in Conn, Subscribe(s, c)
      PROVE  InvitedInv' /\ ToldOnlyIfInvited'
  <2>1. \A x \in Session, y \in Conn : <<x, y>> # <<s, c>> => count'[x][y] = count[x][y]
    BY <1>1, <1>2 DEF Subscribe
  <2> QED
    BY <1>1, <1>2, <2>1 DEF Subscribe
<1>3. ASSUME NEW s \in Session, NEW c \in Conn, Unsubscribe(s, c)
      PROVE  InvitedInv' /\ ToldOnlyIfInvited'
  <2>1. \A x \in Session, y \in Conn : count'[x][y] > 0 => count[x][y] > 0
    BY <1>1, <1>3, ParameterAssumption DEF Unsubscribe
  <2> QED
    BY <1>1, <1>3, <2>1 DEF Unsubscribe
<1>4. ASSUME NEW s \in Session, NEW c \in Conn, Change(s, c)
      PROVE  InvitedInv' /\ ToldOnlyIfInvited'
  BY <1>1, <1>4 DEF Change
<1>5. ASSUME NEW s \in Session, NotifyStep(s)
      PROVE  InvitedInv' /\ ToldOnlyIfInvited'
  BY <1>1, <1>5
     DEF NotifyStep, ListChanged, CheckSubscribers, Updated, UpdateFails, ErrorForgotten
<1>6. CASE UNCHANGED vars
  BY <1>6 DEF vars
<1> QED
  BY <1>2, <1>3, <1>4, <1>5, <1>6 DEF Next

(* No session is told of an update of a connection that it was not          *)
(* subscribed to during the call, however sessions interleave.              *)
THEOREM InvitedTold == Spec => []ToldOnlyIfInvited
<1>1. Init => InvitedInv /\ ToldOnlyIfInvited
  BY DEF Init, InvitedInv, ToldOnlyIfInvited
<1> QED
  BY <1>1, InvitedStep, TypeCorrect, PTL DEF Spec
=============================================================================
