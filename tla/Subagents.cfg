SPECIFICATION FairSpec
CONSTANTS
    Children = {k1, k2}
    Turn = turn
    MaxDepth = 2
    MaxRounds = 2
    MaxCalls = 2
    MaxStages = 2
    MaxSearches = 1
    MaxBackground = 1
    MaxTurns = 1
INVARIANTS
    FamilyBudget
    InterruptStopsChild
PROPERTIES
    EveryChildEnds
CHECK_DEADLOCK FALSE
