SPECIFICATION CallSpec
CONSTANTS
  r1 = r1
  r2 = r2
  Room = {r1, r2}
  NoRoom = NoRoom
  Wrapper = {1, 2}
  MaxScreen = 2
  MaxJoin = 2
  MaxReopen = 2
  Profiles <- MCProfiles
INVARIANTS
  MutedUntilOptIn
  LiveIsHeard
PROPERTIES
  JoinSettles
  KickBounces
  FailedShareHoldsNothing
CHECK_DEADLOCK FALSE
