CONSTANTS
  Interval = 2
  MaxBackups = 1
  Absent = Absent
  Empty = Empty
  None = None
  MaxQSOs = 3
  MaxTime = 2
  MaxFaults = 1
  MaxSetBacks = 1
SPECIFICATION Spec
INVARIANT LogIsKept
CHECK_DEADLOCK FALSE
