\* The properties below are statements of the code or its docs that do not hold.
\* TLC stops at the first that fails: uncomment one at a time.
SPECIFICATION Spec
CONSTANTS
    Conversations = {c1, c2}
    Calls = {s1}
    MaxRounds = 2
    MaxCalls = 1
    MaxRecoveries = 0
    MaxGenerations = 2
    User = User
    NoCall = NoCall
    NoRun = NoRun
PROPERTY PauseHoldsAtApproval
\* PROPERTY PauseBelongsToItsTurns
