SPECIFICATION Spec
CONSTANTS
    Job = {j1, j2}
    Entry = {e1, e2}
    Channel = {stable, prerelease}
    Torn = torn
    NoFile = nofile
    Nothing = nothing
    Serial = FALSE
    j1 = j1
    j2 = j2
    e1 = e1
    e2 = e2
    stable = stable
    prerelease = prerelease
    torn = torn
    nofile = nofile
    nothing = nothing
INVARIANT EntryStaysSaved
CHECK_DEADLOCK FALSE
