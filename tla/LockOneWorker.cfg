SPECIFICATION Spec
CONSTANTS
  Accounts = {a1}
  Workers = {w1, w2}
  Tokens = {t1, t2}
  NoToken = NoToken
  NoAccount = NoAccount
  Nobody = Nobody
  Orphan = Orphan
  Ttl = 3
  MinRenewal = 1
  PunctualWorkers = {w1, w2}
INVARIANT OneLiveWorkerPerAccount
