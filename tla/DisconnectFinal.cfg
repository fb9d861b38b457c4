SPECIFICATION Spec
CONSTANTS
  N = 2
  Networked = {2}
  DefaultActive = 2
  MaxFrames = 2
  MaxQueue = 2
INVARIANT DisconnectIsFinal
CHECK_DEADLOCK FALSE
