SPECIFICATION Spec
CONSTANTS
    Duration = {0, 2}
    Repeat = {2}
    MaxTime = 4
    MaxRules = 2
    MaxChanges = 2
    MaxStops = 1
INVARIANT TypeOK
PROPERTIES
    NotificationsFollowSpells
    RemovesTheRule
CHECK_DEADLOCK FALSE
