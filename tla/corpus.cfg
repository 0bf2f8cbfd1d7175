SPECIFICATION Spec
CONSTANTS
    Unknown = Unknown
    Blank = Blank
    Break = Blank
    NoSource = "own"
    Unsaid = Unknown
    Unavailable = Unknown
    NoCap = Unknown
    MinDistinct = 2
    Stop = "."
    Swaps <- FewSwaps
    Fillers <- TwoFillers
    ForceWindow = 2
    Capitals <- Names
    SafeStarters <- Starters
    FillerBase = 1
    Shingle = 3
    FactDraws <- Facts
    PartDraws <- Parts
    TotalDraws <- Totals
    MaxSegments = 2
    MinSegment = 3
    Lookahead = 2
    Reworded <- FewRewordings
    BoilerplateThreshold = 3
    Upstreams <- Loads
    Specs <- FewSpecs
    Window = 3
    FreezeSize = 3
    BlockSizes = {3, 4}
    CutRows = {0, 2}
    SemOutcomes <- FewOutcomes
INVARIANTS
    KeptShareNothing
    NoForeignEvidence
    ExactHitsAreOwn
    VerifiedIsClean
    NoProbeLeak
    FactsSurvive
