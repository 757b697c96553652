SPECIFICATION AdaptersSpec
CONSTANTS
  Accounts = {a1, a2}
  Workers = {w1, w2, w3}
  Tokens = {t1, t2}
  NoToken = NoToken
  NoAccount = NoAccount
  Nobody = Nobody
  Orphan = Orphan
  PunctualWorkers = {w1, w2}
  Ttl = 3
  MinRenewal = 2
  Commands = {k1, k2, k3}
  MaxStarts = 2
  MemoryTokens = {m1, m2, m3}
CHECK_DEADLOCK FALSE
INVARIANTS
  RenewerKeepsItsLease
  AdaptersTypeOK
  NoneIsStranded
PROPERTIES
  ImplementsPort
  OrphanExpires
  MemoryImplementsPort
  ImplementsDelivery
