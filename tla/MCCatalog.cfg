CONSTANTS
    Providers = {p1, p2}
    ProviderKeys = {k1, k2}
    Models = {m1}
    Admins = {a1, a2}
    Callers = {c1}
    DbFails = TRUE
    MaxIssued = 2
SPECIFICATION Spec
SYMMETRY Symmetry
INVARIANTS
    PoolFromTable
    EvenRotation
    PoolUpToDate
