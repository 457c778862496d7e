SPECIFICATION FairSpec
CONSTANTS
    Task = {upgrade, apply}
    SelfUpdate = {upgrade}
    Reversible = {apply}
    MaxStops = 1
    MaxDbFaults = 0
    upgrade = upgrade
    apply = apply
INVARIANT RolledBackIsReported
CHECK_DEADLOCK FALSE
