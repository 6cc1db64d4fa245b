\* The properties below are statements of the code or its docs that do not hold.
\* TLC stops at the first that fails: uncomment one at a time.
SPECIFICATION Spec
CONSTANTS
    TextCalls = FALSE
    LongQuestions = FALSE
    MaxTurns = 2
    MaxRounds = 2
    MaxCalls = 1
    RecoverLimit = 50
    ListLimit = 20
    TaskRounds = 2
INVARIANT BudgetEndsTask
\* PROPERTY ResumeStagesPausedTurn
\* INVARIANT UncertainNotCompleted   \* with TextCalls = TRUE
\* INVARIANT TimeoutNotCompleted
\* PROPERTY CheckpointReachesTurn
\* PROPERTY PausedRunCanResume   \* by a stray wake; with LongQuestions = TRUE also by a long question
CHECK_DEADLOCK FALSE
