SPECIFICATION Spec
CONSTANTS
  a1 = a1
  a2 = a2
  Accounts = {a1, a2}
  PhoneOf <- SamePhone
  Jobs = {j1, j2, j3}
  NoAccount = NoAccount
  Nobody = Nobody
  Ghost = Ghost
  Faults = {"store", "answer"}
  MaxDeaths = 1
SYMMETRY Symmetry
CHECK_DEADLOCK FALSE
INVARIANTS
  TypeOK
  OneHandlerPerAccount
  StatusIsTrue
  OneSessionPerIdentity
  SignInIsKept
