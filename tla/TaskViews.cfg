SPECIFICATION FairSpec
CONSTANTS
    Flow = {f1, f2}
    MaxTasks = 2
    MaxModals = 2
    Outcome = {"failed"}
    Window = 1
    MaxLists = 2
    MaxLosses = 1
    MaxClicks = 3
INVARIANTS
    TypeOK
    ShowsItsOwn
PROPERTIES
    ProgressSettles
    DetailSettles
CHECK_DEADLOCK FALSE
