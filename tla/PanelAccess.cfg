SPECIFICATION FairSpec
CONSTANTS
    Job = {j1}
    Entry = {e1, e2}
    Channel = {stable}
    Torn = torn
    NoFile = nofile
    Nothing = nothing
    Serial = TRUE
    j1 = j1
    e1 = e1
    e2 = e2
    stable = stable
    torn = torn
    nofile = nofile
    nothing = nothing
INVARIANTS
    TypeOK
    StaysReachable
    GateFollows
PROPERTIES
    ImplementsSettings
    OutageEnds
CHECK_DEADLOCK FALSE
