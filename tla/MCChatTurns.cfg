SPECIFICATION Spec
CONSTANTS
    Conversations = {c1, c2}
    Calls = {s1}
    MaxRounds = 2
    MaxCalls = 1
    MaxRecoveries = 0
    MaxGenerations = 2
    User = User
    NoCall = NoCall
    NoRun = NoRun
    Caller = c1
CONSTRAINT OneCaller
INVARIANTS
    UserPauseHolds
PROPERTIES
    CancelledWasAskedFor
