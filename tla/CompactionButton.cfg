SPECIFICATION FairSpec
CONSTANTS
    Keep = 1
    Smaller = {0}
    ToolKeep = 1
    Threshold = 4
    Capacity = 4
    ClockPasses = TRUE
    MidwayCrashes = FALSE
    MaxTurns = 3
    MaxTools = 1
    MaxTime = 3
PROPERTY StoreComesBack
CHECK_DEADLOCK FALSE
