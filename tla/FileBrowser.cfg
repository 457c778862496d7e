SPECIFICATION FairSpec
CONSTANTS
    Dir = {d0, d1}
    Foreign = {d1}
    Name = {a, b}
    Text = {e, x}
    Empty = e
    Absent = absent
    Partial = partial
    Disks <- MCDisks
    Task = {t1, t2}
    Root = d0
    NoFile = nofile
    Batch = {b1, b2}
    Size = 1
    MaxLoads = 2
    MaxOps = 3
    d0 = d0
    d1 = d1
    a = a
    x = x
INVARIANTS
    TypeOK
    LastAskedIsShown
    UploadingStaysListed
    RenameStays
    MoveKeepsText
    CopyOverwritesNothing
PROPERTIES
    UploadsLeave
CHECK_DEADLOCK FALSE
