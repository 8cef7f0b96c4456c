\* Two concurrent calls of any of the tools and four bytes; max_bytes is three, so
\* that a call can fill up with bytes left over, and a match can straddle reads.
CONSTANTS
    byteA = byteA
    byteB = byteB
    Call = {c1, c2}
    Symbol <- MCSymbol
    Pattern <- MCPattern
    MaxBytes = 3
    NBytes = 4
SYMMETRY Symmetric
SPECIFICATION Spec
INVARIANTS
    TypeOK
    EveryByteOnce
    InOrder
    OnlyWaitForLosesAtDeadline
    NoMatchDropped
    AtMostMaxBytes
PROPERTY
    FatesSpec
\* Calls and bytes are finite here: the model stops when all are used up.
CHECK_DEADLOCK FALSE
