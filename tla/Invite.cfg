SPECIFICATION Spec
CONSTANTS
  u1 = u1
  u2 = u2
  t1 = t1
  Tasks = {t1}
  Users = {u1, u2}
  TaskOf <- OneTask
  Jobs = {j1, j2}
  NoTask = NoTask
  NoUser = NoUser
  Nobody = Nobody
  Ghost = Ghost
  TelegramErrors = {"FLOOD_WAIT", "USER_ALREADY_PARTICIPANT", "TIMEOUT"}
  Faults = {"lease", "store"}
  MaxDeaths = 1
CHECK_DEADLOCK FALSE
SYMMETRY Symmetry
INVARIANTS
  TypeOK
  OneInviterPerAccount
  ProcessingHasItsJob
  InvitedIsMember
PROPERTY FloodStopsTheJob
