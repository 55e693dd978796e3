SPECIFICATION Spec
CONSTANTS
  PING_THRESH = 1
  MaxSecrets = 1
  MaxQueue = 1
  MaxEdits = 0
INVARIANT PingsOnReadyChannel
CHECK_DEADLOCK FALSE
