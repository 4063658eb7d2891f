\* Tunneled H.245: the queued EndSession is discarded.
\* A call that left the list stops, so deadlock is not checked.
CONSTANTS
  MaxConnectRetry = 0
  MaxRetries = 0
  EpTunneling = TRUE
  PeerH245 = {"EndSession"}
  MaxMsgs = 2
  MaxCmds = 0
SPECIFICATION Spec
CHECK_DEADLOCK FALSE
INVARIANTS
  EndSessionNotDiscarded
