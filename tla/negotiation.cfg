\* Two ends negotiate an audio and a video channel: numbers modulo 4, one retry.
CONSTANTS
  NumMod = 4
  MaxRetries = 1
  Video = TRUE
  TermTypes <- MCTypes
SPECIFICATION Spec
CHECK_DEADLOCK FALSE
INVARIANTS
  TypeOK
  RolesOpposite
  NoStaleTimer
  EachMediumOnce
  NumbersFresh
  ChannelsPair
PROPERTIES
  SlaveFollows
  FollowsMediaSession
  NegotiationEnds
