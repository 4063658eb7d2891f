\* Every H.245 message, tunneled or not: the safety of one call.
\* A call that left the list stops, so deadlock is not checked.
CONSTANTS
  MaxConnectRetry = 0
  MaxRetries = 1
  EpTunneling = TRUE
  PeerH245 = {"TCS", "EmptyTCS", "OldTCS", "TCSAck", "TCSReject", "MSD", "MSDMaster", "MSDSlave", "MSDReject", "Chan", "EndSession", "Other"}
  MaxMsgs = 2
  MaxCmds = 1
SPECIFICATION Spec
CHECK_DEADLOCK FALSE
INVARIANTS
  TypeOK
  TunnelExclusive
  EndSentIsTimed
  OneRelease
  GoneIsClean
