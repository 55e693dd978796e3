CONSTANTS
    Addr = {a1, a2}
    Size = 2
    MaxSends = 3
    MaxData = 2
    MaxAccepts = 1
SPECIFICATION Spec
INVARIANT SocketComesWithData
CHECK_DEADLOCK FALSE
