\* Three tasks, four connection ids, two ports: two opens of a port race a third
\* task that opens the other port, closes or inserts. No symmetry, for liveness.
CONSTANTS
    Port = {p1, p2}
    Allowed = {p1, p2}
    ConnId = {c1, c2, c3, c4}
    Task = {t1, t2, t3}
    NoPort = NoPort
    NoConn = NoConn
SPECIFICATION FairSpec
INVARIANTS
    TypeOK
    PortUnique
    ReservationOwned
    RegisteredNotOpening
PROPERTIES
    OwnershipSpec
    ReservationResolves
