SPECIFICATION CalSpec
CONSTANTS
    Manifest <- TwoItems
    Configs <- PairedOnly
    ResumeChoices = {TRUE, FALSE}
    Tearing = FALSE
    MaxSessions = 3
    NoAnswer = NoAnswer
    NoPayload = NoPayload
    Silent = NoAnswer
    Broken = NoPayload
    Answers <- FewAnswers
    Expected <- Qwen
    CalibrateBefore = 0
INVARIANTS
    PairsFromOneSession
