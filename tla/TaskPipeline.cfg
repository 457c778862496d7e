SPECIFICATION FairSpec
CONSTANTS
    Task = {upgrade, apply}
    SelfUpdate = {upgrade}
    Reversible = {apply}
    MaxStops = 3
    MaxDbFaults = 2
    upgrade = upgrade
    apply = apply
INVARIANTS
    TypeOK
    RunningHasWorker
    SuccessIsReal
    AuditedBeforeWork
PROPERTIES
    TerminalIsFinal
    ExecutedOnce
    ImplementsLedger
    RunningEnds
CHECK_DEADLOCK FALSE
