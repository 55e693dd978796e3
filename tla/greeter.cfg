CONSTANTS
    a = a  b = b  p = p  q = q
    User = {a, b}
    Place = {p, q}
    Starts <- Apart
    Travellers = {a}
    MAX_ADDRESSES = 1
    MaxQueue = 2
    MaxAnswers = 1
    Faults <- OneFault
SPECIFICATION FairSpec
CHECK_DEADLOCK FALSE
PROPERTY TheyMeet
