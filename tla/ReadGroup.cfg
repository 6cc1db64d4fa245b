SPECIFICATION Spec
CONSTANTS
    Size = 3
    MaxReadGroup = 2
    Keys = {k1, k2}
    Polls = {k2}
    RuledReads = FALSE
    Hooks = TRUE
INVARIANTS
    SettledOnce
PROPERTIES
    DispatchHolds
CHECK_DEADLOCK FALSE
