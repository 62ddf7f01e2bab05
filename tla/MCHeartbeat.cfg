\* The constants of Constants.h.
SPECIFICATION Spec
CONSTANTS
  PING_INTERVAL_SECONDS = 1
  PONG_TIMEOUT = 3
  MaxUnanswered = 6
INVARIANTS
  TypeOK
  CountersFollowPings
  CountersIncrease
PROPERTIES
  OnlyLatePeersAreLost
  SilenceIsShown
  AnswerIsShown
