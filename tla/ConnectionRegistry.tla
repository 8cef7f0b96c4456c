------------------------ MODULE ConnectionRegistry -------------------------
(***************************************************************************)
(* The ConnectionManager of serial.rs: the registry of open connections    *)
(* behind one mutex, and the two-phase `open` that releases that mutex     *)
(* while the operating system opens the device.                            *)
(*                                                                         *)
(* A Task is a tokio task: the handler of a request, or a background task. *)
(* Every critical section of the state mutex is one action; the mutex      *)
(* itself is abstracted because nothing is awaited while it is held.  A    *)
(* call that is refused (port in use or not allowed, unknown id) returns   *)
(* without a change of state: it is a stuttering step.                     *)
(***************************************************************************)
EXTENDS FiniteSets

CONSTANTS Port,      \* names of serial ports a client may ask for
          Allowed,   \* the ports the allowlist accepts
          ConnId,    \* connection ids; a UUID is drawn at most once
          Task,      \* the tokio tasks that use the manager
          NoPort, NoConn

ASSUME AllowedAssumption == Allowed \subseteq Port
ASSUME NullAssumption == NoPort \notin Port /\ NoConn \notin ConnId
ASSUME KindAssumption == Task \cap ConnId = {}

VARIABLES
    connections,   \* ids in the `connections` map
    openingPorts,  \* the `opening_ports` set
    portOf,        \* the immutable `port` field of a built connection, NoPort before
    pc,            \* where a task is in `open`
    target,        \* the port a task is opening
    arc            \* the connection a task owns or holds an Arc to

vars == <<connections, openingPorts, portOf, pc, target, arc>>

Init ==
    /\ connections = {}
    /\ openingPorts = {}
    /\ portOf = [i \in ConnId |-> NoPort]
    /\ pc = [t \in Task |-> "idle"]
    /\ target = [t \in Task |-> NoPort]
    /\ arc = [t \in Task |-> NoConn]

(* Faulty variant: the port is compared with the keys of the map. *)
IsPortInUseByKey(p) == \E i \in connections : i = p

IsPortInUse(p) == \E i \in connections : portOf[i] = p

Fresh(i) == portOf[i] = NoPort

Idle(t) == pc[t] = "idle" /\ arc[t] = NoConn

-----------------------------------------------------------------------------

(* Faulty variant: a port that another call is opening is not refused. *)
ReserveTwice(t, p) ==
    /\ Idle(t) /\ p \in Allowed /\ ~ IsPortInUse(p)
    /\ openingPorts' = openingPorts \cup {p}
    /\ pc' = [pc EXCEPT ![t] = "reserved"]
    /\ target' = [target EXCEPT ![t] = p]
    /\ UNCHANGED <<connections, portOf, arc>>

(* open, first critical section: refuse a port that is registered or that  *)
(* another call is opening, else reserve it.                               *)
Reserve(t, p) ==
    /\ Idle(t)
    /\ p \in Allowed
    /\ ~ IsPortInUse(p)
    /\ p \notin openingPorts
    /\ openingPorts' = openingPorts \cup {p}
    /\ pc' = [pc EXCEPT ![t] = "reserved"]
    /\ target' = [target EXCEPT ![t] = p]
    /\ UNCHANGED <<connections, portOf, arc>>

(* The device is opened with no lock held; the new connection, with its    *)
(* fresh id, is still private to the task.                                 *)
OpenDevice(t, i) ==
    /\ pc[t] = "reserved"
    /\ Fresh(i)
    /\ portOf' = [portOf EXCEPT ![i] = target[t]]
    /\ arc' = [arc EXCEPT ![t] = i]
    /\ pc' = [pc EXCEPT ![t] = "opened"]
    /\ UNCHANGED <<connections, openingPorts, target>>

(* A bad baud rate, or any refusal of the operating system. *)
OpenDeviceFails(t) ==
    /\ pc[t] = "reserved"
    /\ pc' = [pc EXCEPT ![t] = "failed"]
    /\ UNCHANGED <<connections, openingPorts, portOf, target, arc>>

(* Faulty variant: the connection is taken out before it is registered. *)
RegisterTaken(t) ==
    /\ pc[t] = "opened"
    /\ openingPorts' = openingPorts \ {target[t]}
    /\ arc' = [arc EXCEPT ![t] = NoConn]
    /\ connections' = connections \cup {arc'[t]}
    /\ pc' = [pc EXCEPT ![t] = "idle"]
    /\ target' = [target EXCEPT ![t] = NoPort]
    /\ UNCHANGED portOf

(* open, second critical section: the reservation is given back first,     *)
(* then `opened?` returns the error or the connection is registered.       *)
Register(t) ==
    /\ pc[t] = "opened"
    /\ openingPorts' = openingPorts \ {target[t]}
    /\ connections' = connections \cup {arc[t]}
    /\ pc' = [pc EXCEPT ![t] = "idle"]
    /\ target' = [target EXCEPT ![t] = NoPort]
    /\ arc' = [arc EXCEPT ![t] = NoConn]
    /\ UNCHANGED portOf

(* Faulty variant: `opened?` returns before the reservation is given back. *)
ReturnOpenErrorReserved(t) ==
    /\ pc[t] = "failed"
    /\ pc' = [pc EXCEPT ![t] = "idle"]
    /\ target' = [target EXCEPT ![t] = NoPort]
    /\ UNCHANGED <<connections, openingPorts, portOf, arc>>

ReturnOpenError(t) ==
    /\ pc[t] = "failed"
    /\ openingPorts' = openingPorts \ {target[t]}
    /\ pc' = [pc EXCEPT ![t] = "idle"]
    /\ target' = [target EXCEPT ![t] = NoPort]
    /\ UNCHANGED <<connections, portOf, arc>>

(* Faulty variant: a port that is being opened is not refused. *)
InsertWhileOpening(t, p, i) ==
    /\ Idle(t) /\ Fresh(i) /\ ~ IsPortInUse(p)
    /\ portOf' = [portOf EXCEPT ![i] = p]
    /\ connections' = connections \cup {i}
    /\ UNCHANGED <<openingPorts, pc, target, arc>>

(* insert: register a connection built elsewhere, under the same rule. *)
Insert(t, p, i) ==
    /\ Idle(t)
    /\ Fresh(i)
    /\ ~ IsPortInUse(p)
    /\ p \notin openingPorts
    /\ portOf' = [portOf EXCEPT ![i] = p]
    /\ connections' = connections \cup {i}
    /\ UNCHANGED <<openingPorts, pc, target, arc>>

(* get: clone the Arc of a registered connection. *)
Get(t, i) ==
    /\ Idle(t)
    /\ i \in connections
    /\ arc' = [arc EXCEPT ![t] = i]
    /\ UNCHANGED <<connections, openingPorts, portOf, pc, target>>

(* The task is done with the connection and drops its Arc. *)
DropArc(t) ==
    /\ pc[t] = "idle"
    /\ arc[t] # NoConn
    /\ arc' = [arc EXCEPT ![t] = NoConn]
    /\ UNCHANGED <<connections, openingPorts, portOf, pc, target>>

(* The Arc is moved into a task that is being spawned. *)
HandArc(t, u) ==
    /\ pc[t] = "idle"
    /\ arc[t] # NoConn
    /\ Idle(u)
    /\ arc' = [arc EXCEPT ![t] = NoConn, ![u] = arc[t]]
    /\ UNCHANGED <<connections, openingPorts, portOf, pc, target>>

(* close: forget the connection.  Tasks that hold its Arc keep the device. *)
Close(t, i) ==
    /\ Idle(t)
    /\ i \in connections
    /\ connections' = connections \ {i}
    /\ UNCHANGED <<openingPorts, portOf, pc, target, arc>>

OpenStep(t) ==
    \/ \E i \in ConnId : OpenDevice(t, i)
    \/ OpenDeviceFails(t)
    \/ Register(t)
    \/ ReturnOpenError(t)

Next ==
    \E t \in Task :
        \/ \E p \in Port : Reserve(t, p)
        \/ OpenStep(t)
        \/ \E p \in Port, i \in ConnId : Insert(t, p, i)
        \/ \E i \in ConnId : Get(t, i) \/ Close(t, i)
        \/ DropArc(t)
        \/ \E u \in Task : HandArc(t, u)

(* A call of `open` that has begun runs to its end: its task is scheduled  *)
(* and request futures are never dropped half way.                         *)
Fairness == \A t \in Task : WF_vars(OpenStep(t))

Spec == Init /\ [][Next]_vars
FairSpec == Spec /\ Fairness
-----------------------------------------------------------------------------
(* Properties. *)

Opening(t) == pc[t] # "idle"

TypeOK ==
    /\ connections \subseteq ConnId
    /\ openingPorts \subseteq Port
    /\ portOf \in [ConnId -> Port \cup {NoPort}]
    /\ pc \in [Task -> {"idle", "reserved", "opened", "failed"}]
    /\ target \in [Task -> Port \cup {NoPort}]
    /\ arc \in [Task -> ConnId \cup {NoConn}]

(* The registry never holds two connections on one port ("Rejects opening  *)
(* the same port twice"), although `open` checks the port and registers    *)
(* the connection in two critical sections with the device opened between. *)
PortUnique ==
    \A i, j \in connections : portOf[i] = portOf[j] => i = j

(* A reserved port is reserved by exactly one running `open`, and every    *)
(* running `open` holds its reservation: a failed open cannot leave a port *)
(* behind that nobody can ever open again.                                 *)
ReservationOwned ==
    /\ \A p \in openingPorts : \E t \in Task : Opening(t) /\ target[t] = p
    /\ \A t \in Task : Opening(t) => target[t] \in openingPorts
    /\ \A t, u \in Task :
          Opening(t) /\ Opening(u) /\ target[t] = target[u] => t = u

(* A port being opened has no registered connection, so that the second    *)
(* critical section needs no second check before it registers.             *)
RegisteredNotOpening == \A i \in connections : portOf[i] \notin openingPorts

(* A port does not stay reserved for ever. *)
ReservationResolves == \A p \in Port : p \in openingPorts ~> p \notin openingPorts

(* The registry implements exclusive ownership of ports: an owner is a     *)
(* running `open` or a registered connection.                              *)
Owner ==
    [p \in Port |-> {t \in Task : Opening(t) /\ target[t] = p}
                    \cup {i \in connections : portOf[i] = p}]

Ownership == INSTANCE PortOwnership WITH Opener <- Task, Conn <- ConnId, owner <- Owner

OwnershipSpec == Ownership!Spec
=============================================================================
