\* A paddle device alone, unplugged
CONSTANTS
  WinKeyers = {}
  HaliKeys = {hk}
  None = None
  MaxPosted = 2
SPECIFICATION LinkFairSpec
PROPERTY PaddleComesBack
