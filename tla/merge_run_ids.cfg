SPECIFICATION Spec
CONSTANTS
    Files = {"cold", "warm", "ref", "out", "out2"}
    Manifests <- MCManifests
    Campaigns <- Chained
    Tick = 10
    RequestBlocks = 10
    Thresholds <- MCThresholds
    RougeFloor = 50
    RougeCeiling = 100
INVARIANT ColdAnswersAreItsArms
CHECK_DEADLOCK FALSE
