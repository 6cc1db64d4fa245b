SPECIFICATION Spec
CONSTANTS
    Files = {f, g}
    Contents = {v1, v2}
    Absent = absent
    Odd = odd
    Roots = {r1, r2}
    MaxSnapshots = 1
    MaxEdits = 2
INVARIANTS
    EditsCanBeUndone
CHECK_DEADLOCK FALSE
