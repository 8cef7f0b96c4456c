\* Two breaks on one connection: the first one's release ends the second.
CONSTANTS
    BreakCall = {b1, b2}
    PairCall = {p1}
    Transfer = {w1}
    Free = Free
SPECIFICATION Spec
INVARIANT
    HeldForDuration
