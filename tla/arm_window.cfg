SPECIFICATION Spec
CONSTANTS
    Arms <- GatewayArms
    Threads = {t1, t2}
    Urls <- Scrapes
    Connected = {"e1"}
    Flaky = {"e1"}
SYMMETRY AnyThread
INVARIANTS
    WindowIsTheArm
    RowIdIsItsOwn
PROPERTY CapturedOnce
