---------------------- MODULE ConnectionRegistryProofs ----------------------
(***************************************************************************)
(* The registry's safety properties, for any number of ports, connections  *)
(* and tasks.                                                              *)
(***************************************************************************)
EXTENDS ConnectionRegistry, TLAPS

(* Between the two critical sections of `open` the new connection belongs  *)
(* to the reserved port.                                                   *)
OpenedOnTarget ==
    \A t \in Task : pc[t] = "opened" =>
        /\ arc[t] \in ConnId
        /\ portOf[arc[t]] = target[t]

(* A registered id has been drawn, so it cannot be drawn again. *)
RegisteredBuilt == \A i \in connections : ~ Fresh(i)

IInv ==
    /\ TypeOK
    /\ PortUnique
    /\ ReservationOwned
    /\ RegisteredNotOpening
    /\ OpenedOnTarget
    /\ RegisteredBuilt

(* Nothing is registered or being opened when the manager is created. *)
LEMMA InitIInv == Init => IInv
  BY DEF Init, IInv, TypeOK, PortUnique, ReservationOwned, RegisteredNotOpening,
         OpenedOnTarget, RegisteredBuilt, Opening

(* Every critical section of the manager, and every step between two of    *)
(* them, keeps the registry's inductive invariant.                         *)
LEMMA NextIInv == IInv /\ [Next]_vars => IInv'
<1> SUFFICES ASSUME IInv, [Next]_vars PROVE IInv'
  OBVIOUS
<1> USE NullAssumption, AllowedAssumption
    DEF IInv, TypeOK, PortUnique, ReservationOwned, RegisteredNotOpening,
        OpenedOnTarget, RegisteredBuilt, Opening
<1>1. ASSUME NEW t \in Task, NEW p \in Port, Reserve(t, p) PROVE IInv'
  <2> USE <1>1 DEF Reserve, Idle, IsPortInUse, Fresh
  <2>1. TypeOK'
    OBVIOUS
  <2>2. PortUnique' /\ RegisteredNotOpening' /\ RegisteredBuilt'
    OBVIOUS
  <2>3. ReservationOwned'
    OBVIOUS
  <2>4. OpenedOnTarget'
    OBVIOUS
  <2> QED BY <2>1, <2>2, <2>3, <2>4
<1>2. ASSUME NEW t \in Task, NEW i \in ConnId, OpenDevice(t, i) PROVE IInv'
  <2> USE <1>2 DEF OpenDevice, Fresh
  <2>1. TypeOK'
    OBVIOUS
  <2>2. PortUnique' /\ RegisteredNotOpening' /\ RegisteredBuilt'
    OBVIOUS
  <2>3. ReservationOwned'
    OBVIOUS
  <2>4. OpenedOnTarget'
    OBVIOUS
  <2> QED BY <2>1, <2>2, <2>3, <2>4
<1>3. ASSUME NEW t \in Task, OpenDeviceFails(t) PROVE IInv'
  <2> USE <1>3 DEF OpenDeviceFails, Fresh
  <2>1. TypeOK' /\ PortUnique' /\ RegisteredNotOpening' /\ RegisteredBuilt'
    OBVIOUS
  <2>2. ReservationOwned' /\ OpenedOnTarget'
    OBVIOUS
  <2> QED BY <2>1, <2>2
<1>4. ASSUME NEW t \in Task, Register(t) PROVE IInv'
  <2> USE <1>4 DEF Register, Fresh
  <2>1. TypeOK'
    OBVIOUS
  <2>2. PortUnique'
    OBVIOUS
  <2>3. RegisteredNotOpening' /\ RegisteredBuilt'
    OBVIOUS
  <2>4. ReservationOwned'
    OBVIOUS
  <2>5. OpenedOnTarget'
    OBVIOUS
  <2> QED BY <2>1, <2>2, <2>3, <2>4, <2>5
<1>5. ASSUME NEW t \in Task, ReturnOpenError(t) PROVE IInv'
  <2> USE <1>5 DEF ReturnOpenError, Fresh
  <2>1. TypeOK' /\ PortUnique' /\ RegisteredNotOpening' /\ RegisteredBuilt'
    OBVIOUS
  <2>2. ReservationOwned' /\ OpenedOnTarget'
    OBVIOUS
  <2> QED BY <2>1, <2>2
<1>6. ASSUME NEW t \in Task, NEW p \in Port, NEW i \in ConnId, Insert(t, p, i)
      PROVE IInv'
  <2> USE <1>6 DEF Insert, Idle, IsPortInUse, Fresh
  <2>1. TypeOK'
    OBVIOUS
  <2>2. PortUnique' /\ RegisteredNotOpening' /\ RegisteredBuilt'
    OBVIOUS
  <2>3. ReservationOwned' /\ OpenedOnTarget'
    OBVIOUS
  <2> QED BY <2>1, <2>2, <2>3
<1>7. ASSUME NEW t \in Task, NEW i \in ConnId, Get(t, i) PROVE IInv'
  BY <1>7 DEF Get, Idle, Fresh
<1>8. ASSUME NEW t \in Task, NEW i \in ConnId, Close(t, i) PROVE IInv'
  BY <1>8 DEF Close, Fresh
<1>9. ASSUME NEW t \in Task, DropArc(t) PROVE IInv'
  BY <1>9 DEF DropArc, Fresh
<1>10. ASSUME NEW t \in Task, NEW u \in Task, HandArc(t, u) PROVE IInv'
  BY <1>10 DEF HandArc, Idle, Fresh
<1>11. CASE UNCHANGED vars
  BY <1>11 DEF vars, Fresh
<1> QED
  BY <1>1, <1>2, <1>3, <1>4, <1>5, <1>6, <1>7, <1>8, <1>9, <1>10, <1>11
     DEF Next, OpenStep

(* The strengthened invariant holds in every reachable state. *)
LEMMA Inductive == Spec => []IInv
  BY InitIInv, NextIInv, PTL DEF Spec

(* The state of the manager keeps its type. *)
THEOREM TypeCorrect == Spec => []TypeOK
<1>1. IInv => TypeOK
  BY DEF IInv
<1> QED BY <1>1, Inductive, PTL

(* The registry never holds two connections on one port. *)
THEOREM PortsUnique == Spec => []PortUnique
<1>1. IInv => PortUnique
  BY DEF IInv
<1> QED BY <1>1, Inductive, PTL

(* Reservations and running opens correspond one to one, and a reserved    *)
(* port has no registered connection.                                      *)
THEOREM ReservationsOwned == Spec => [](ReservationOwned /\ RegisteredNotOpening)
<1>1. IInv => ReservationOwned /\ RegisteredNotOpening
  BY DEF IInv
<1> QED BY <1>1, Inductive, PTL
-----------------------------------------------------------------------------
(* A connection that was closed and that no task holds any more.           *)
Gone(i) == ~ Fresh(i) /\ i \notin connections /\ \A t \in Task : arc[t] # i

(* Nothing brings it back: an Arc comes from the map, from another task or *)
(* from a device opened under a new id.                                    *)
LEMMA GoneStays ==
    ASSUME TypeOK, [Next]_vars, NEW i \in ConnId, Gone(i) PROVE Gone(i)'
<1> USE NullAssumption DEF TypeOK, Gone, Fresh
<1>1. ASSUME NEW t \in Task, NEW p \in Port, Reserve(t, p) PROVE Gone(i)'
  BY <1>1 DEF Reserve
<1>2. ASSUME NEW t \in Task, OpenStep(t) PROVE Gone(i)'
  BY <1>2 DEF OpenStep, OpenDevice, OpenDeviceFails, Register, ReturnOpenError
<1>3. ASSUME NEW t \in Task, NEW p \in Port, NEW j \in ConnId, Insert(t, p, j)
      PROVE Gone(i)'
  BY <1>3 DEF Insert
<1>4. ASSUME NEW t \in Task, NEW j \in ConnId, Get(t, j) \/ Close(t, j)
      PROVE Gone(i)'
  BY <1>4 DEF Get, Close
<1>5. ASSUME NEW t \in Task, DropArc(t) PROVE Gone(i)'
  BY <1>5 DEF DropArc
<1>6. ASSUME NEW t \in Task, NEW u \in Task, HandArc(t, u) PROVE Gone(i)'
  BY <1>6 DEF HandArc
<1>7. CASE UNCHANGED vars
  BY <1>7 DEF vars
<1> QED
  BY <1>1, <1>2, <1>3, <1>4, <1>5, <1>6, <1>7 DEF Next

-----------------------------------------------------------------------------
(* The registry implements PortOwnership.  `OwnersOf(p)` is one component  *)
(* of the refinement mapping.                                              *)
OwnersOf(p) ==
    {t \in Task : Opening(t) /\ target[t] = p} \cup {i \in connections : portOf[i] = p}

(* A new manager has no owners. *)
LEMMA OwnerInit == Init => Ownership!Init
  BY DEF Init, Ownership!Init, Owner, Opening

(* When the owners of every port but p are unchanged, the mapped state     *)
(* changes at p only.                                                      *)
LEMMA OwnerExcept ==
  ASSUME NEW p \in Port, NEW S,
         OwnersOf(p)' = S,
         \A q \in Port : q # p => OwnersOf(q)' = OwnersOf(q)
  PROVE  Owner' = [Owner EXCEPT ![p] = S]
  BY DEF Owner, OwnersOf

(* When no port's owners change, the mapped state does not change. *)
LEMMA OwnerSame ==
  ASSUME \A q \in Port : OwnersOf(q)' = OwnersOf(q)
  PROVE  Owner' = Owner
  BY DEF Owner, OwnersOf

(* Every step of the manager is a step of the abstract owner or a stutter. *)
LEMMA OwnerStep == IInv /\ [Next]_vars => [Ownership!Next]_Owner
<1> SUFFICES ASSUME IInv, [Next]_vars PROVE [Ownership!Next]_Owner
  OBVIOUS
<1> USE NullAssumption, AllowedAssumption
    DEF IInv, TypeOK, PortUnique, ReservationOwned, RegisteredNotOpening,
        OpenedOnTarget, RegisteredBuilt, Opening
<1>0. \A p \in Port : Owner[p] = OwnersOf(p)
  BY DEF Owner, OwnersOf
<1>1. ASSUME NEW t \in Task, NEW p \in Port, Reserve(t, p) PROVE Ownership!Claim(p, t)
  <2> USE <1>1 DEF Reserve, Idle, IsPortInUse, OwnersOf
  <2>1. OwnersOf(p) = {}
    OBVIOUS
  <2>2. OwnersOf(p)' = {t}
    OBVIOUS
  <2>3. ASSUME NEW q \in Port, q # p PROVE OwnersOf(q)' = OwnersOf(q)
    BY <2>3
  <2> QED BY <1>0, <2>1, <2>2, <2>3, OwnerExcept DEF Ownership!Claim
<1>2. ASSUME NEW t \in Task, NEW i \in ConnId, OpenDevice(t, i) PROVE Owner' = Owner
  <2> USE <1>2 DEF OpenDevice, Fresh, OwnersOf
  <2>1. ASSUME NEW q \in Port PROVE OwnersOf(q)' = OwnersOf(q)
    OBVIOUS
  <2> QED BY <2>1, OwnerSame
<1>3. ASSUME NEW t \in Task, OpenDeviceFails(t) PROVE Owner' = Owner
  <2> USE <1>3 DEF OpenDeviceFails, OwnersOf
  <2>1. ASSUME NEW q \in Port PROVE OwnersOf(q)' = OwnersOf(q)
    OBVIOUS
  <2> QED BY <2>1, OwnerSame
<1>4. ASSUME NEW t \in Task, Register(t)
      PROVE Ownership!Bind(target[t], t, arc[t])
  <2> USE <1>4 DEF Register, OwnersOf, Fresh
  <2>1. target[t] \in Port /\ arc[t] \in ConnId
    OBVIOUS
  <2>2. OwnersOf(target[t]) = {t}
    OBVIOUS
  <2>3. ASSUME NEW p \in Port, p = target[t] PROVE OwnersOf(p)' = {arc[t]}
    BY <2>3
  <2>4. ASSUME NEW q \in Port, q # target[t] PROVE OwnersOf(q)' = OwnersOf(q)
    BY <2>4
  <2> HIDE <1>4 DEF Register, OwnersOf, Fresh
  <2>5. Owner' = [Owner EXCEPT ![target[t]] = {arc[t]}]
    <3>1. PICK p \in Port : p = target[t]
      BY <2>1
    <3>2. PICK S : S = {arc[t]}
      OBVIOUS
    <3>3. OwnersOf(p)' = S
      BY <2>3, <3>1, <3>2
    <3>4. \A q \in Port : q # p => OwnersOf(q)' = OwnersOf(q)
      BY <2>4, <3>1
    <3>5. Owner' = [Owner EXCEPT ![p] = S]
      BY <3>3, <3>4, OwnerExcept
    <3> QED BY <3>1, <3>2, <3>5
  <2> QED BY <1>0, <2>1, <2>2, <2>5 DEF Ownership!Bind
<1>5. ASSUME NEW t \in Task, ReturnOpenError(t) PROVE Ownership!Abandon(target[t], t)
  <2> USE <1>5 DEF ReturnOpenError, OwnersOf
  <2>1. target[t] \in Port
    OBVIOUS
  <2>2. OwnersOf(target[t]) = {t}
    OBVIOUS
  <2>3. ASSUME NEW p \in Port, p = target[t] PROVE OwnersOf(p)' = {}
    BY <2>3
  <2>4. ASSUME NEW q \in Port, q # target[t] PROVE OwnersOf(q)' = OwnersOf(q)
    BY <2>4
  <2> HIDE <1>5 DEF ReturnOpenError, OwnersOf
  <2>5. Owner' = [Owner EXCEPT ![target[t]] = {}]
    <3>1. PICK p \in Port : p = target[t]
      BY <2>1
    <3>2. OwnersOf(p)' = {}
      BY <2>3, <3>1
    <3>3. \A q \in Port : q # p => OwnersOf(q)' = OwnersOf(q)
      BY <2>4, <3>1
    <3>4. Owner' = [Owner EXCEPT ![p] = {}]
      BY <3>2, <3>3, OwnerExcept
    <3> QED BY <3>1, <3>4
  <2> QED BY <1>0, <2>1, <2>2, <2>5 DEF Ownership!Abandon
<1>6. ASSUME NEW t \in Task, NEW p \in Port, NEW i \in ConnId, Insert(t, p, i)
      PROVE Ownership!Adopt(p, i)
  <2> USE <1>6 DEF Insert, IsPortInUse, Fresh, OwnersOf
  <2>1. OwnersOf(p) = {}
    OBVIOUS
  <2>2. OwnersOf(p)' = {i}
    OBVIOUS
  <2>3. ASSUME NEW q \in Port, q # p PROVE OwnersOf(q)' = OwnersOf(q)
    BY <2>3
  <2> QED BY <1>0, <2>1, <2>2, <2>3, OwnerExcept DEF Ownership!Adopt
<1>7. ASSUME NEW t \in Task, NEW i \in ConnId, Close(t, i)
      PROVE Ownership!Vacate(portOf[i], i)
  <2> USE <1>7 DEF Close, OwnersOf, Fresh
  <2>1. portOf[i] \in Port
    OBVIOUS
  <2>2. OwnersOf(portOf[i]) = {i}
    OBVIOUS
  <2>3. ASSUME NEW p \in Port, p = portOf[i] PROVE OwnersOf(p)' = {}
    BY <2>3
  <2>4. ASSUME NEW q \in Port, q # portOf[i] PROVE OwnersOf(q)' = OwnersOf(q)
    BY <2>4
  <2> HIDE <1>7 DEF Close, OwnersOf, Fresh
  <2>5. Owner' = [Owner EXCEPT ![portOf[i]] = {}]
    <3>1. PICK p \in Port : p = portOf[i]
      BY <2>1
    <3>2. OwnersOf(p)' = {}
      BY <2>3, <3>1
    <3>3. \A q \in Port : q # p => OwnersOf(q)' = OwnersOf(q)
      BY <2>4, <3>1
    <3>4. Owner' = [Owner EXCEPT ![p] = {}]
      BY <3>2, <3>3, OwnerExcept
    <3> QED BY <3>1, <3>4
  <2> QED BY <1>0, <2>1, <2>2, <2>5 DEF Ownership!Vacate
<1>8. ASSUME NEW t \in Task, NEW i \in ConnId, Get(t, i) PROVE Owner' = Owner
  BY <1>8 DEF Get, Owner
<1>9. ASSUME NEW t \in Task, DropArc(t) PROVE Owner' = Owner
  BY <1>9 DEF DropArc, Owner
<1>10. ASSUME NEW t \in Task, NEW u \in Task, HandArc(t, u) PROVE Owner' = Owner
  BY <1>10 DEF HandArc, Owner
<1>11. CASE UNCHANGED vars
  BY <1>11 DEF vars, Owner
<1>12. ASSUME NEW t \in Task, pc[t] \in {"opened", "failed"} PROVE target[t] \in Port
  BY <1>12
<1>13. ASSUME NEW t \in Task, pc[t] = "opened" PROVE arc[t] \in ConnId
  BY <1>13
<1>14. ASSUME NEW t \in Task, Register(t) PROVE Ownership!Next
  BY <1>4, <1>12, <1>13, <1>14 DEF Ownership!Next, Register
<1>15. ASSUME NEW t \in Task, ReturnOpenError(t) PROVE Ownership!Next
  BY <1>5, <1>12, <1>15 DEF Ownership!Next, ReturnOpenError
<1>16. ASSUME NEW t \in Task, NEW i \in ConnId, Close(t, i) PROVE Ownership!Next
  BY <1>7, <1>16 DEF Ownership!Next, Close, Fresh
<1> QED
  <2> HIDE DEF IInv
  <2> QED
    BY <1>1, <1>2, <1>3, <1>6, <1>8, <1>9, <1>10, <1>11, <1>14, <1>15, <1>16
       DEF Next, OpenStep, Ownership!Next

(* The registry implements exclusive, gapless ownership of ports. *)
THEOREM ImplementsOwnership == Spec => OwnershipSpec
  BY OwnerInit, OwnerStep, Inductive, PTL DEF Spec, OwnershipSpec, Ownership!Spec

(* A registered connection is not one that an open is still building, so   *)
(* that the id an open returns is not also removed or handed out by it.    *)
THEOREM RegisteredDone == Spec => []RegisteredNotOpening
<1>1. IInv => RegisteredNotOpening
  BY DEF IInv
<1> QED BY <1>1, Inductive, PTL
=============================================================================
