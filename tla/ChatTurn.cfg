SPECIFICATION FairSpec
CONSTANTS
    Conversations = {c1}
    Calls = {s1, s2}
    MaxRounds = 3
    MaxCalls = 2
    MaxRecoveries = 1
    MaxGenerations = 2
    User = User
    NoCall = NoCall
    NoRun = NoRun
INVARIANTS
    NoUncertainReplay
PROPERTIES
    MessageAndRunAgree
    EveryTurnEnds
