\* A paused session: its reset overwrites the hang-up.
\* A call that left the list stops, so deadlock is not checked.
CONSTANTS
  MaxConnectRetry = 0
  MaxRetries = 0
  EpTunneling = FALSE
  PeerH245 = {"EmptyTCS", "TCSAck"}
  MaxMsgs = 3
  MaxCmds = 1
SPECIFICATION Spec
CHECK_DEADLOCK FALSE
INVARIANTS
  HangCallEnds
