CONSTANTS
  MaxAttempts = 2
  MaxClicks = 3
  MaxOutages = 2
  MaxQueue = 2
SPECIFICATION Spec
INVARIANTS
  DisconnectHolds
  StatusCatchesUp
PROPERTIES
  LoggedIn
  ConnectionReturns
CHECK_DEADLOCK FALSE
