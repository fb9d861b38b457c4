\* Three disagreements, each shown with the other two commented out:
\*   PollsWait              the poll timer sends commands before the stream is opened
\*   ConnectedHasSocket     a stream granted twice leaves no socket for commands
\*   FailedIsDisconnected   a failed bind leaves the state that refuses the next connect
CONSTANTS
  MaxRetries = 2
  MaxConnects = 2
  MaxLogins = 2
  MaxPorts = 2
  MaxFaults = 1
SPECIFICATION IcomSpec
INVARIANT PollsWait
\* INVARIANT ConnectedHasSocket
\* INVARIANT FailedIsDisconnected
CHECK_DEADLOCK FALSE
