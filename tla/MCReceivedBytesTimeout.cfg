\* One wait_for that times out after part of what it waits for.
CONSTANTS
    byteA = byteA
    byteB = byteB
    Call = {c1}
    Symbol <- MCSymbol
    Pattern <- MCPattern
    MaxBytes = 3
    NBytes = 2
SPECIFICATION Spec
INVARIANT
    TimeoutKeepsPartialBuffer
\* Calls and bytes are finite here: the model stops when all are used up.
CHECK_DEADLOCK FALSE
