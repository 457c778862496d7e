SPECIFICATION Spec
CONSTANTS
    Job = {j1, j2}
    Path = {p1, p2}
    Text = {gone, blank, plain, default, broken}
    Gone = gone
    Blank = blank
    Bad = {broken}
    Claim = {default}
    Unknown = unknown
    PerPath = TRUE
    MaxCancels = 2
    MaxFaults = 1
    MaxStops = 1
    j1 = j1
    j2 = j2
    p1 = p1
    p2 = p2
    gone = gone
    blank = blank
    plain = plain
    default = default
    broken = broken
    unknown = unknown
SYMMETRY Symmetry
INVARIANTS
    TypeOK
    ServedIsOnDisk
    RestedIsValid
PROPERTIES
    ImplementsRegister
    SuccessIsServed
CHECK_DEADLOCK FALSE
