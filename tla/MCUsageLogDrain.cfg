CONSTANTS
    Records = {r1, r2}
    NoEntry = NoEntry
    Poison = {}
    Batch = 2
    Faults = {}
    MaxStops = 1
    MaxRows = 1
    MaxCopies = 1
SPECIFICATION Spec
INVARIANTS
    DrainedOnExit
