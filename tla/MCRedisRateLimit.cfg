CONSTANTS
    Requests = {r1, r2, r3}
    Keys = {k1, k2}
    Limit = 1
    Window = 3
    MaxTime = 4
    Concurrency = 2
    RedisFails = TRUE
SPECIFICATION RedisSpec
SYMMETRY Symmetry
CHECK_DEADLOCK FALSE
INVARIANTS
    ExactWhenUndisturbed
    RefusedOnlyUnderLoad
