SPECIFICATION Spec
CONSTANTS
    TextCalls = FALSE
    LongQuestions = TRUE
    MaxTurns = 2
    MaxRounds = 2
    MaxCalls = 1
    RecoverLimit = 1
    ListLimit = 2
    TaskRounds = 2
PROPERTIES
    LifecycleStands
    PausedRunIsCheckpointed
CHECK_DEADLOCK FALSE
