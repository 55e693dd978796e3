CONSTANTS
    App = {a1}
    Editor = {a1}
    MaxCalls = 2
    MaxEvents = 2
    MaxReruns = 1
SPECIFICATION FairSpec
INVARIANTS LateEventsFindNoCallback StoppedFrontStaysEmpty CleanedAfterBackend
PROPERTIES EverythingStops
CHECK_DEADLOCK FALSE
