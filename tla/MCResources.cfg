SPECIFICATION FairSpec
CONSTANTS
    OutputBytes = 6
    FrameSizes = {1, 3}
    PageSizes = {3, 5}
    ShellPage = 5
    MaxFrames = 5
    Processes = {1, 2}
    Calls = {1, 2}
    Nobody = nobody
    MaxActive = 2
    MaxProcesses = 1
    QueueSize = 2
    Files = {f, g}
    Contents = {v1, v2}
    Absent = absent
    Odd = odd
    Roots = {r1, r2}
    MaxSnapshots = 1
    MaxEdits = 1
    Size = 3
    MaxRetries = 2
    MaxFetches = 2
    Models = {m1, m2}
    NoModel = noModel
    Configs = {c1, c2}
    Initial = c0
    Ports = {p1}
    MaxLoads = 3
    MaxSaves = 3
    MaxTurns = 1
    Overlap = FALSE
    Engines = {"postgres", "mysql"}
    LateRoles = {}
    LateDatabases = {"postgres"}
    Outsiders = {"postgres"}
    MaxCleanups = 3
INVARIANTS
    NoSilentGap
    SettingsFollowTheModel
    Reclaimable
PROPERTIES
    LostIsReaped
    RevertDone
    DestinationKept
    FetchEnds
    NoSwapUnderTurn
    ForeignKept
CHECK_DEADLOCK FALSE
