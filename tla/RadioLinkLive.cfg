SPECIFICATION LiveSpec
CONSTANTS
  N = 1
  Networked = {1}
  DefaultActive = 1
  MaxFrames = 2
  MaxQueue = 2
PROPERTY ComesBack
