\* Two sessions that share the connections; no symmetry, for liveness.
CONSTANTS
    Session = {s1, s2}
    Conn = {c1, c2}
    MaxCount = 1
    NoConn = NoConn
SPECIFICATION FairSpec
PROPERTY
    SubscribersUpdate
