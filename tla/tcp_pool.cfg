CONSTANTS
    Addr = {a1, a2}
    Size = 2
    MaxSends = 3
    MaxData = 2
    MaxAccepts = 1
SPECIFICATION FairSpec
INVARIANTS RightAddress NoDanglingSocket
PROPERTIES GivesUpOnlyWhenBusy TcpIsReceived
CHECK_DEADLOCK FALSE
