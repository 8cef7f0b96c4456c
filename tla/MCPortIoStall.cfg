\* One reader behind a write that the device does not accept.
CONSTANTS
    Reader = {r1}
    Writer = {w1}
    MaxSlices = 2
    Cap = 4
    Stalls = TRUE
    Free = Free
SPECIFICATION StallingSpec
PROPERTY
    ReadReturns
