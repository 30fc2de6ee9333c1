CONSTANTS
    Chains <- MCChains
    Sizes = {0, 3}
    ScanLimit = 8
    Tokens = {5}
    PromptSize = 10
    InputPrice = 1
    OutputPrice = 2
    MaxLines = 3
SPECIFICATION Spec
INVARIANTS
    SkipsOtherEvents
