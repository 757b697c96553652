SPECIFICATION FairSpec
CONSTANTS
  Commands = {c1, c2}
  Signals = {SIGINT, SIGTERM}
  NoBeat = NoBeat
  MaxLives = 3
  StartMayFail = TRUE
  RedisMayFail = TRUE
CHECK_DEADLOCK FALSE
INVARIANTS
  TypeOK
  QuietWhenOffline
PROPERTIES
  RedispatchOnlyAfterDeath
  HeartbeatsInOrder
  CommandSettles
