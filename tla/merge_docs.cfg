SPECIFICATION Spec
CONSTANTS
    Files = {"cold", "warm", "ref", "out", "out2"}
    Manifests <- MCManifests
    Campaigns <- MCCampaigns
    Tick = 10
    RequestBlocks = 10
    Thresholds <- MCThresholds
    RougeFloor = 50
    RougeCeiling = 100
INVARIANTS
    MergePairsOneToOne
    MergedRowsWhole
    ColdAnswersAreItsArms
    ProbesAccounted
    ZeroIsMeasured
    MissTaxIsOfMisses
    GreenIsEarned
CHECK_DEADLOCK FALSE
