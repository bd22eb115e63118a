SPECIFICATION AccountsSpec
CONSTANTS
  User = {u1}
  Req = {r1, r2}
  Token = {t1, t2}
  EmailEnabled = TRUE
  NoRow = NoRow
  NoToken = NoToken
  NoCall = NoCall
  NoAccount = NoAccount
  MaxPassword = 1
  MaxSecret = 2
  MaxStep = 3
  MaxBatch = 2
  CodesPerBatch = 1
  MaxSession = 3
  p = p
  q = q
  Peer = {p, q}
  Profiles <- AccountWorlds
  MaxShown = 2
  MaxAct = 5
  MaxUnder = 2
  MaxRun = 3
SYMMETRY RequestSymmetry
CONSTRAINT OneStory
INVARIANTS
  PasswordChangesSpendTokens
  CodeSessionsSpentTheirCode
  OnlyLastBatchSpendable
  DevicesAreReleased
  AccountSettles
PROPERTY TokensAreOneShot
CHECK_DEADLOCK FALSE
