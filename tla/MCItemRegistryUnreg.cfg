CONSTANTS
    Paths = {p1}
    Items = {i1, i2}
    Holders = {h1, h2}
    NoItem = NoItem
    NoPath = NoPath
    StuckSecs = 1
    MaxTempDelay = 3
    Times <- MCTimes
    Requests <- ESharingRequests
SYMMETRY Symmetry
SPECIFICATION Spec
CHECK_DEADLOCK FALSE
INVARIANT NoDoubleUnreg
