CONSTANTS
    alice = alice
    bob = bob
    carol = carol
    Nodes = {alice, bob, carol}
    Traffic <- SendersTraffic
    MAX_FLIGHT = 1
    RESEND_TICK_THRESHOLD = 0
    RESEND_THRESHOLD = 2
    UDP_CHuNK_SIZE = 2
    MAX_CHUNKS = 4
    MaxSequence = 1
    MaxDup = 1
    MaxRestarts = 0
SPECIFICATION Spec
INVARIANTS TypeOK WindowExact OnlySentChunks NoContractFails NeverStalls AckedMeansDelivered DeliveredIntact
PROPERTY ResendCoversUnacked
CHECK_DEADLOCK FALSE
