CONSTANTS
    alice = alice
    bob = bob
    carol = carol
    Nodes = {alice, bob}
    Traffic <- RobustTraffic
    MAX_FLIGHT = 1
    RESEND_TICK_THRESHOLD = 0
    RESEND_THRESHOLD = 2
    UDP_CHuNK_SIZE = 2
    MAX_CHUNKS = 4
    MaxSequence = 1
    MaxDup = 0
    MaxRestarts = 1
SPECIFICATION RestartSpec
INVARIANT NoContractFails
CHECK_DEADLOCK FALSE
