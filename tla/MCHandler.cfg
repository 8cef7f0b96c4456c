\* Two sessions that share the connections; no symmetry, for liveness.  Lists and
\* pages of up to five items, with a largest word of five: offsets that overflow.
CONSTANTS
    Session = {s1, s2}
    Conn = {c1, c2}
    MaxCount = 2
    NoConn = NoConn
    WordMax = 5
    NoCursor = NoCursor
    Garbage = Garbage
SPECIFICATION HandlerSpec
INVARIANTS
    TypeOK
    ToldOnlyIfInvited
    ItemsOnceInOrder
PROPERTIES
    OwnChangesUpdate
    ToldBeforeReturn
    PagesAdvance
\* A client may be done with its walk.
CHECK_DEADLOCK FALSE
