\* Three contacts, a backup every two, one backup kept; one disk fault, one
\* set-back of the clock.  Without its file a contest cannot be opened, so the
\* system may stop.
CONSTANTS
  Interval = 2
  MaxBackups = 1
  Absent = Absent
  Empty = Empty
  None = None
  MaxQSOs = 3
  MaxTime = 2
  MaxFaults = 1
  MaxSetBacks = 1
SPECIFICATION Spec
INVARIANTS
  LogSurvivesRestore
  BackupsKeepUp
PROPERTIES
  RestoredIsTheBackup
CHECK_DEADLOCK FALSE
