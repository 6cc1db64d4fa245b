SPECIFICATION Spec
CONSTANTS
    Bytes = {"data", "colon", "x", "cr", "lf", "bom"}
    MaxBytes = 6
    MaxEvent = 4
    Keep = 1
    Smaller = {0}
    ToolKeep = 1
    Threshold = 4
    Capacity = 4
    ClockPasses = TRUE
    MidwayCrashes = FALSE
    MaxTurns = 3
    MaxTools = 1
    MaxTime = 3
    Letters = {"a", "b"}
    MaxPattern = 3
    MaxPath = 3
    MaxRules = 2
    Signatures = {w, q}
    Reads = {q}
    Asking = {w}
    Searches = {q}
    MaxSearches = 1
    MaxCalls = 2
    MaxMembers = 2
    MaxPrograms = 2
    MaxSignals = 1
    Forms = {"plan", "steps"}
    BadNames = FALSE
    Tasks = {1, 2, 3}
    MaxChats = 2
    MaxDrafts = 2
    MaxSwitches = 3
    Overtaken = {"select", "home"}
    OverResume = {}
    MaxAssets = 2
    MaxFiles = 1
    MaxRuns = 2
    MaxFaults = 2
    MaxStops = 2
    MaxMail = 3
    MaxLeases = 4
INVARIANTS
    ChunksDoNotMatter
    ContextHolds
    LastMatchDecides
    RunsAccounted
    TasksHold
    WindowHolds
    WholeOrAbsent
    ReferencesAreCurrent
CHECK_DEADLOCK FALSE
