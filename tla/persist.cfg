CONSTANTS
    Key = {k1, k2, k3}
    Value = {v1, v2}
    Absent = Absent
    Blank = Blank
    Broken = Broken
SPECIFICATION Spec
INVARIANTS IdleMeansSaved
PROPERTY ImplementsTable
CHECK_DEADLOCK FALSE
