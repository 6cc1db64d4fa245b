\* The properties below are statements of the code or its docs that do not hold.
\* TLC stops at the first that fails: uncomment one at a time.
SPECIFICATION Spec
CONSTANTS
    Sessions = {s1, s2}
    ToolCalls = {1, 2}
    Questions = {1, 2}
    MaxRounds = 1
    MaxQuestions = 2
    MaxPending = 2
INVARIANT QuestionsDieWithCall
\* INVARIANT OneQuestionPerSession
\* PROPERTY CancelledNotSucceeded
CHECK_DEADLOCK FALSE
