SPECIFICATION CalSpec
CONSTANTS
    Manifest <- TwoItems
    Configs <- EveryConfig
    ResumeChoices = {TRUE}
    Tearing = TRUE
    MaxSessions = 3
    NoAnswer = NoAnswer
    NoPayload = NoPayload
    Silent = NoAnswer
    Broken = NoPayload
    Answers <- FewAnswers
    Expected <- Qwen
    CalibrateBefore = 0
INVARIANTS
    PairsFromOneSession
    UsableColdWasCold
    EveryItemReturned
    FloorIsOfColdPairs
PROPERTIES
    ResumeNeverRepeats
