SPECIFICATION Spec
CONSTANTS
  Commands = {c1}
  Signals = {SIGTERM}
  NoBeat = NoBeat
  MaxLives = 2
  StartMayFail = FALSE
  RedisMayFail = FALSE
INVARIANT NoCommandFailsUnhandled
