CONSTANTS
    Calls = {c1, c2, c3}
    Threshold = 2
    Retries = 1
    ResetTimeout = 2
    FailureBound = 3
SPECIFICATION FairBreakerSpec
INVARIANTS
    ClosedIffBelowThreshold
PROPERTIES
    HealsWhenUp
