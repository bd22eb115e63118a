SPECIFICATION Spec
CONSTANTS
  p = p
  q = q
  Peer = {p, q}
  Nobody = Nobody
  FriendsProfiles <- MCFriendsProfiles
  MaxShow = 1
  MaxAsk = 2
  MaxNews = 2
  MaxDeed = 3
INVARIANT EnterOpensTheTyped
CHECK_DEADLOCK FALSE
