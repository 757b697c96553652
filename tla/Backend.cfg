SPECIFICATION ServicesSpec
CONSTANTS
  Connections = {c1, c2}
  Signals = {SIGINT, SIGTERM}
  ProxyIds = {p1, p2}
  Addresses = {a1, a2}
  Tests = {q1}
  NoProxy = NoProxy
CHECK_DEADLOCK FALSE
INVARIANTS
  ServicesTypeOK
  WaitingClientsAreServed
PROPERTIES
  ReadyIsEarned
  ShutdownEnds
  TestsEnd
