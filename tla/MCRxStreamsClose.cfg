\* A subscribe that looked the connection up before a close of it returns.
CONSTANTS
    Port = {p1}
    Allowed = {p1}
    ConnId = {c1}
    Request = {t1, t2}
    Stream = {s1}
    Reset = {r1}
    NoPort = NoPort
    NoConn = NoConn
    NoStream = NoStream
SPECIFICATION FairRepliesSpec
PROPERTY
    CloseStopsStreams
