CONSTANTS
    a = a  b = b
    Node = {a, b}
    Starter = a
    Key = {k1}
    MaxEdits = 1
    MaxEvents = 0
SPECIFICATION FairSpec
PROPERTIES ShownCodeRuns
CHECK_DEADLOCK FALSE
