SPECIFICATION Spec
CONSTANTS
    N = 2
    Kinds = {"edit", "create", "delete", "rename", "respell"}
    MaxEdits = 2
INVARIANTS
    OriginalKept
    ReportsTrue
    RecoverySucceeds
PROPERTIES
    EditsKept
    AllOrNothing
CHECK_DEADLOCK FALSE
