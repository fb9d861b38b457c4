\* A WinKeyer and a HaliKey that replace each other
CONSTANTS
  WinKeyers = {wk}
  HaliKeys = {hk}
  None = None
  MaxPosted = 2
SPECIFICATION LinkFairSpec
INVARIANTS ConnectedIsOpen
PROPERTIES LinkComesBack CleanupReturns
