\* Two readers with timeouts of up to two slices and two writers; Cap is above the
\* bounds that the invariants state. No symmetry, for liveness.
CONSTANTS
    Reader = {r1, r2}
    Writer = {w1, w2}
    MaxSlices = 2
    Cap = 6
    Stalls = FALSE
    Free = Free
SPECIFICATION FairSpec
INVARIANTS
    TypeOK
    MutexAccounted
    WriteWaitsOneSliceEach
    ReadOverrunsOneSliceEach
PROPERTY
    ReadReturns
