CONSTANTS
    a = a  b = b
    Node = {a, b}
    Starter = a
    Key = {k1}
    MaxEdits = 2
    MaxEvents = 1
SPECIFICATION FairSpec
INVARIANTS SameVersionSameText
PROPERTIES LatestCodeRuns SoleAuthorPrevails
CHECK_DEADLOCK FALSE
