CONSTANTS
    a = a  b = b  c = c  d = d  e = e  None = None
    Node = {a, b, c}
    Knows <- Everyone
    Founder = {a}
    Scenarios <- OnlyLeaving
SPECIFICATION Spec
CHECK_DEADLOCK FALSE
INVARIANT MembersWereInvited
