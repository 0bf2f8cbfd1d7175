SPECIFICATION LanesSpec
CONSTANTS
    Width = 1
    WindowFloor = 3
    WindowPerLane = 1
    StageLists <- SmallLists
    Runs <- SmallRuns
    Engines = {e1, e2}
SYMMETRY EngineSymmetry
INVARIANTS
    UsableColdWasCold
    DonorsEndFirst
PROPERTY
    DonorsReusable
