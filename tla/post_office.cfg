SPECIFICATION FairSpec
CONSTANTS
  Office = {"R", "A", "B", "C"}
  Root = "R"
  Parent <- Tree
  Box = {"r", "a", "b", "c"}
  Home <- Homes
  Letters <- Mail
  Arrivals <- FromPeers
  Mortal = {"a", "b", "c"}
  MaxRemovals = 1
  None = None
CHECK_DEADLOCK FALSE
INVARIANTS AnswersReturn OnlyDelegationBackBlocks
PROPERTY EverythingArrives
