\* Two calls in either direction, with a gatekeeper whose registration comes and goes.
CONSTANTS
  Calls = {c1, c2}
  Refusing = {c1}
  Gatekeeper = TRUE
  ReadMax = 2
SPECIFICATION Spec
CHECK_DEADLOCK FALSE
INVARIANTS
  TypeOK
  PvtSafe
  OwnersMatch
  DestroyedLast
PROPERTIES
  PvtFreed
  WaitersReturn
  FollowsOwnership
