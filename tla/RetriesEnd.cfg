CONSTANTS
  MaxAttempts = 2
  MaxClicks = 1
  MaxOutages = 1
  MaxQueue = 2
SPECIFICATION Spec
INVARIANT RetriesEnd
CHECK_DEADLOCK FALSE
