CONSTANTS
  Interval = 2
  MaxBackups = 1
  Absent = Absent
  Empty = Empty
  None = None
  MaxQSOs = 4
  MaxTime = 2
  MaxFaults = 1
  MaxSetBacks = 0
SPECIFICATION Spec
INVARIANT EveryNQSOs
CHECK_DEADLOCK FALSE
