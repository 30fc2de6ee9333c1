CONSTANTS
    Providers = {p1, p2, p3}
    Registered = {p1, p2}
    Chained = {p2}
    maxHistoryRecords = 3
    MaxRounds = 3
SPECIFICATION Spec
CHECK_DEADLOCK FALSE
INVARIANTS
    RingExact
    OverallAgrees
    RoundComplete
    HistoryCovers
