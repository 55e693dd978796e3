CONSTANTS
    a = a  b = b  c = c  d = d  e = e  None = None
    Node = {a, b, c, d, e}
    Knows <- Star
    Founder = {a}
    Scenarios <- AllScenarios
SPECIFICATION FairSpec
CHECK_DEADLOCK FALSE
INVARIANTS OnlyInvited MembersKnowEachOther
PROPERTY Settles
