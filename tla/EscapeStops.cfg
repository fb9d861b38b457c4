\* The smallest instance in which one message replaces another
CONSTANTS
  MaxElements = 1
  MaxActs = 3
  MaxQueue = 0
SPECIFICATION Spec
INVARIANT EscapeStops
CHECK_DEADLOCK FALSE
