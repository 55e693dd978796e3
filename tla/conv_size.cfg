CONSTANTS
    a = a  b = b  c = c  d = d  e = e  None = None
    Node = {a, b, c, d, e}
    Knows <- Star
    Founder = {a}
    Scenarios <- OnlyLosing
SPECIFICATION Spec
CHECK_DEADLOCK FALSE
INVARIANT CliqueTestSuffices
