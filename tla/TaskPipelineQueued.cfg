SPECIFICATION FairSpec
CONSTANTS
    Task = {upgrade, apply}
    SelfUpdate = {upgrade}
    Reversible = {apply}
    MaxStops = 1
    MaxDbFaults = 0
    upgrade = upgrade
    apply = apply
PROPERTY QueuedIsExecuted
CHECK_DEADLOCK FALSE
