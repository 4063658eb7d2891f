\* A failed connect: its socket outlives the call.
\* A call that left the list stops, so deadlock is not checked.
CONSTANTS
  MaxConnectRetry = 0
  MaxRetries = 0
  EpTunneling = FALSE
  PeerH245 = {"EndSession"}
  MaxMsgs = 2
  MaxCmds = 0
SPECIFICATION Spec
CHECK_DEADLOCK FALSE
INVARIANTS
  CleanClosesSockets
