\* Tunneled H.245: the queued ReleaseComplete is discarded.
\* A call that left the list stops, so deadlock is not checked.
CONSTANTS
  MaxConnectRetry = 0
  MaxRetries = 0
  EpTunneling = TRUE
  PeerH245 = {"EndSession"}
  MaxMsgs = 1
  MaxCmds = 1
SPECIFICATION LoopSpec
CHECK_DEADLOCK FALSE
PROPERTIES
  HangTerminates
