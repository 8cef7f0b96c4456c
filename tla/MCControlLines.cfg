\* Two breaks, overlapping or one after the other, either of them cancelled or failing,
\* two set_dtr_rts calls, and a transfer that takes the io mutex again and again, on
\* one connection. No symmetry, for liveness.
CONSTANTS
    BreakCall = {b1, b2}
    PairCall = {p1, p2}
    Transfer = {w1}
    Free = Free
SPECIFICATION FairSpec
INVARIANTS
    TypeOK
    SomebodyWillRelease
    CutShortByAnother
    LinesOfOneCall
PROPERTY
    BreakEnds
