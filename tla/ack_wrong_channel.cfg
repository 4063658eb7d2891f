\* The acknowledgement of a slave's channel establishes the channel it received.
CONSTANTS
  NumMod = 4
  MaxRetries = 1
  Video = FALSE
  TermTypes <- MCSame
SPECIFICATION Spec
CHECK_DEADLOCK FALSE
INVARIANTS
  AckedIsEstablished
