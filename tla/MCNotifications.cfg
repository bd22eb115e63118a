SPECIFICATION NotificationsSpec
CONSTANTS
  u = u
  v = v
  a = a
  b = b
  c = c
  i1 = i1
  Account = {u, v}
  Direct = {a, b, c}
  Of <- MCOf
  Invite = {i1}
  Profiles <- MCProfiles
  NoAccount = NoAccount
  NoThread = NoThread
  NoBanner = NoBanner
INVARIANTS
  MentionsAreBadged
  
  
CHECK_DEADLOCK FALSE
