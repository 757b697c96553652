SPECIFICATION DataSpec
CONSTANTS
  Users = {1, 2}
  RefreshTokens = {1, 2, 3}
  Requests = {r1, r2}
  NoUser = NoUser
  NoSession = NoSession
  Rows = {x}
  Loads = {l1, l2}
  Sends = {s1}
  MaxVersion = 2
  Unlocked = Unlocked
  Abandoned = Abandoned
  Ids = {1, 2, 3}
  Places = {a1, a2}
  Limit = 2
  Names = {"alice", "bobby"}
  MaxRows = 3
  MaxImports = 2
  Chats = {h1, h2}
  NoChat = NoChat
  Drafts = {d1, d2}
  NoDraft = NoDraft
  MaxCalls = 3
  MaxRevision = 2
SYMMETRY Symmetry
CHECK_DEADLOCK FALSE
INVARIANTS
  DataTypeOK
  OneTokenPerLogin
  SomebodyIsLeft
  OutcomeIsTrue
  WalkSeesAll
  ImportsAddUp
  PagesAgree
  SubmittedTextIsKept
PROPERTY NewestSnapshotWins
