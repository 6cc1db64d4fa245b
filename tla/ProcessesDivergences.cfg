\* The properties below are statements of the code or its docs that do not hold.
\* TLC stops at the first that fails: uncomment one at a time.
SPECIFICATION FairSpec
CONSTANTS
    Processes = {1, 2}
    Calls = {1, 2, 3}
    Nobody = nobody
    MaxActive = 2
    MaxProcesses = 1
    QueueSize = 2
INVARIANT StopReturnsFinalState
\* PROPERTY FinalStateStands
\* PROPERTY ShellLostIsReaped
CHECK_DEADLOCK FALSE
