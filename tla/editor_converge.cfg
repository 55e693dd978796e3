CONSTANTS
    a = a  b = b
    Node = {a, b}
    Starter = a
    Key = {k1}
    MaxEdits = 2
    MaxEvents = 0
SPECIFICATION Spec
INVARIANT QuiescentReplicasAgree
CHECK_DEADLOCK FALSE
