CONSTANTS
    Users = {u1, u2}
    Slots = {s1, s2}
    MaxCost = 1
    Sends = 2
    SignupBalance = 1
    Deltas <- DeltasUpDown
    BalanceBound = 2
    ForgivenBound = 1
SPECIFICATION Spec
SYMMETRY Symmetry
INVARIANTS
    BoundedOverdraft
    ExhaustedNotServed
