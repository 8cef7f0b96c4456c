\* Two clients with messages of two bytes and three writes each: a short write, a
\* failed one and its repetition, with the other client's in between.
CONSTANTS
    Writer = {w1, w2}
    MsgLen = 2
    MaxCalls = 3
    Free = Free
SPECIFICATION Spec
INVARIANTS
    TypeOK
    ReportedOnWire
    OutOfOrderOnlyAfterError
\* Messages and calls are finite: the model stops when all are used up.
CHECK_DEADLOCK FALSE
