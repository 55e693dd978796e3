CONSTANTS
    MaxSends = 1
    MaxAcks = 1
SPECIFICATION Spec
INVARIANTS NothingStranded ConnectingEnds WritesAreExclusive
PROPERTY InOrder
CHECK_DEADLOCK FALSE
