\* Two calls with a gatekeeper that may say anything, or nothing, at any time.
CONSTANTS
  Calls = {c1, c2}
  Refs = {0, 1}
  Specific = TRUE
  MaxGRQs = 0
  MaxRRQs = 1
  MaxARQs = 1
  MaxTimers = 1
  MaxRequests = 2
SYMMETRY Structures
SPECIFICATION Spec
CHECK_DEADLOCK FALSE
INVARIANTS
  TypeOK
  KeepsTrying
  PendingTimed
  SetupOnce
  ListsLive
  TimersPoint
  StaleUnread
