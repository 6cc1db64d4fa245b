\* The properties below are statements of the code or its docs that do not hold.
\* TLC stops at the first that fails: uncomment one at a time.
SPECIFICATION FairSpec
CONSTANTS
    OutputBytes = 6
    FrameSizes = {1, 3}
    PageSizes = {3, 5}
    ShellPage = 5
    MaxFrames = 5
INVARIANT ShellRunComplete
\* PROPERTY PollerSeesEnd   \* with PageSizes = {2}
CHECK_DEADLOCK FALSE
