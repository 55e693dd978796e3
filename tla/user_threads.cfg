SPECIFICATION Spec
CONSTANTS
  PING_THRESH = 1
  MaxSecrets = 2
  MaxQueue = 2
  MaxEdits = 1
INVARIANTS TypeOK LiveContactIsSecure ServiceContractsHold DisconnectFindsContact EventsMatchState
PROPERTY KeyStaysWhileConnected
CHECK_DEADLOCK FALSE
