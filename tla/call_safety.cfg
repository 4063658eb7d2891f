\* No empty capability set: refinement of CallLifecycle, with one retry.
\* A call that left the list stops, so deadlock is not checked.
CONSTANTS
  MaxConnectRetry = 1
  MaxRetries = 1
  EpTunneling = TRUE
  PeerH245 = {"TCS", "Chan", "EndSession"}
  MaxMsgs = 2
  MaxCmds = 1
SPECIFICATION Spec
CHECK_DEADLOCK FALSE
INVARIANTS
  NoFreedChannel
  PeerReleaseEnds
PROPERTIES
  FollowsLifecycle
