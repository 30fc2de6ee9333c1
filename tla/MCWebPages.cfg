CONSTANTS
    Catalogues <- MCCatalogues
    Health = {"operational", "degraded", "unknown"}
    ValidKeys = {"good"}
    MaxCalls = 2
    MaxMishaps = 1
    Keys = {"good", "bad"}
    NoKey = "empty"
    Typing = "typing"
    DefaultModel = "deepseek"
    MaxLines = 2
    MaxActs = 3
    Tokens = {0, 1, 500}
    NoModel = "none"
    Sections = {"quickstart", "sdks"}
    Languages = {"Python", "Go"}
    MaxDocs = 4
    Locales = {"en", "zh-CN"}
    Default = "en"
    Unset = "unset"
    MaxPicks = 2
    Pages = {"home", "models", "calculator", "docs", "status", "playground"}
    MaxVisits = 2
SPECIFICATION FairSpec
INVARIANTS
    ChosenLocaleKept
    ConversationAlternates
    LinesShown
    QuotedAsBilled
    DocsComplete
PROPERTIES
    NothingWaitsForever
    StatusCatchesUp
CHECK_DEADLOCK FALSE
