CONSTANTS
    Chains <- MCChains
    Sizes = {0, 3, 6, 9}
    ScanLimit = 8
    Tokens = {0, 5}
    PromptSize = 10
    InputPrice = 1
    OutputPrice = 2
    MaxLines = 3
SPECIFICATION FairSpec
INVARIANTS
    RecordedOnce
    StreamNeverFree
    BilledAsShown
PROPERTIES
    GoneClientReleases
