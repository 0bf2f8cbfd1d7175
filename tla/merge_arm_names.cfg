SPECIFICATION Spec
CONSTANTS
    Files = {"cold", "warm", "ref", "out", "out2"}
    Manifests <- MCManifests
    Campaigns <- Variants
    Tick = 10
    RequestBlocks = 10
    Thresholds <- MCThresholds
    RougeFloor = 50
    RougeCeiling = 100
INVARIANT MergedUnderItsPair
CHECK_DEADLOCK FALSE
