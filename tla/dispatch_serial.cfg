\* One lane: the serial runs, in exactly manifest order.
SPECIFICATION FairSpec
CONSTANTS
    Width = 1
    WindowFloor = 3
    WindowPerLane = 1
    StageLists <- SerialLists
INVARIANTS StreamOrderAtWidth1
PROPERTIES SerialGapsHold
