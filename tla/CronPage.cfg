SPECIFICATION Spec
CONSTANTS
    j1 = j1
    j2 = j2
    j3 = j3
    j4 = j4
    k1 = k1
    k2 = k2
    Job <- MCJob
    Comment <- MCComment
    First <- MCFirst
    MaxLoads = 1
    MaxTasks = 3
    MaxClicks = 3
    MaxLosses = 1
INVARIANTS
    TypeOK
    LinesStay
PROPERTY RemovesTheChosen
SYMMETRY Added
CHECK_DEADLOCK FALSE
