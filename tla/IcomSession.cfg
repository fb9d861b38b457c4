\* Two sessions, two logins and two CI-V ports among them, two unanswered
\* questions, one socket that cannot be bound.
\* When the sessions are used up nothing is left to do.
CONSTANTS
  MaxRetries = 2
  MaxConnects = 2
  MaxLogins = 2
  MaxPorts = 2
  MaxFaults = 1
SPECIFICATION IcomSpec
INVARIANTS
  CivPortIsTold
  EndIsAnnounced
  TokensBelong
PROPERTIES
  NothingAfterEnd
CHECK_DEADLOCK FALSE
