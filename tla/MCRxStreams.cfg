\* Three requests race on one connection and its successor on the same port; two
\* stream tasks, one to replace the other, and a task left by a send_break. No
\* symmetry, for liveness.
CONSTANTS
    Port = {p1}
    Allowed = {p1}
    ConnId = {c1, c2}
    Request = {t1, t2, t3}
    Stream = {s1, s2}
    Reset = {r1}
    NoPort = NoPort
    NoConn = NoConn
    NoStream = NoStream
SPECIFICATION FairRepliesSpec
INVARIANTS
    TypeOK
    StreamStoppable
    OneStreamPerConnection
    ReportedOnce
PROPERTIES
    AbortedStreamsRelease
    ReleasedForGood
    RemovedByReplyOrClose
