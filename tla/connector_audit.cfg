SPECIFICATION Spec
CONSTANTS
    Prefixes <- OpenAIPrefixes
    RandomTokens <- Randoms
    NumberTokens <- Numbers
    Rows <- TwoRows
    ColdTwin <- ColdTwins
    Items <- RowItems
    ClassCounts <- SomeCounts
    SharedWrapperMaxRank = 1
    OtherIds <- Stages
    Fronts <- FewFronts
    Suffixes <- Draws
    FirstPrompt = "0"
    SecondPrompt = "1"
    Boundaries = {0, 16}
    MaxRequests = 2
    MaxLines <- Lines
    Declines = {"below_min", "missed"}
INVARIANTS
    RowsGetTheirOwn
    NothingInvented
    KeptIsOfThePromise
    MissesExplained
    OnlyAuditedRowsCount
    UnjoinedIsExplained
