\* Two lanes, a window of three: out-of-order issue, settles, forcing.
SPECIFICATION FairSpec
CONSTANTS
    Width = 2
    WindowFloor = 3
    WindowPerLane = 1
    StageLists <- WideLists
INVARIANTS TypeOK DependenciesCompleted WidthBound NeverAsleepOnWork
PROPERTIES GapsHeld NeverOvertakenWhenReady EveryStageCompletes KeepsPromise
