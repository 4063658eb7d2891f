\* H.245 over its own connection: every call that is cleared ends.
\* A call that left the list stops, so deadlock is not checked.
CONSTANTS
  MaxConnectRetry = 0
  MaxRetries = 0
  EpTunneling = FALSE
  PeerH245 = {"EndSession"}
  MaxMsgs = 2
  MaxCmds = 1
SPECIFICATION LoopSpec
CHECK_DEADLOCK FALSE
PROPERTIES
  ClearingEnds
  EndSessionEnds
  HangTerminates
