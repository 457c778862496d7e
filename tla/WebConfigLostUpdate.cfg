SPECIFICATION Spec
CONSTANTS
    Job = {j1, j2}
    Path = {p1, p2}
    Text = {gone, blank, plain, default, broken}
    Gone = gone
    Blank = blank
    Bad = {broken}
    Claim = {default}
    Unknown = unknown
    PerPath = FALSE
    MaxCancels = 0
    MaxFaults = 0
    MaxStops = 0
    j1 = j1
    j2 = j2
    p1 = p1
    p2 = p2
    gone = gone
    blank = blank
    plain = plain
    default = default
    broken = broken
    unknown = unknown
SYMMETRY Symmetry
INVARIANT FailureKeepsSuccess
CHECK_DEADLOCK FALSE
