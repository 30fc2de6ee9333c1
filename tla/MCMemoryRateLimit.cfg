CONSTANTS
    Requests = {r1, r2, r3, r4}
    Keys = {k1, k2}
    Limit = 2
    Window = 2
    MaxTime = 4
SPECIFICATION MemSpec
SYMMETRY Symmetry
CHECK_DEADLOCK FALSE
INVARIANTS
    ListExact
    AnyWindowWithinLimit
PROPERTIES
    Promise
