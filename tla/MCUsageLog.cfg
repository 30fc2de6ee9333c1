CONSTANTS
    Records = {r1, p}
    NoEntry = NoEntry
    Poison = {p}
    Batch = 2
    Faults = {"lpop", "reply", "insert", "commit", "rpush", "exec", "resend", "crash", "timeout", "evict"}
    MaxStops = 2
    MaxRows = 1
    MaxCopies = 2
SPECIFICATION FairSpec
INVARIANTS
    Conservation
    LoggedAtMostOnce
    NothingLostWhileUp
PROPERTIES
    ImplementsLedger
    EventuallySettled
