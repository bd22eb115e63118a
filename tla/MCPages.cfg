SPECIFICATION PagesSpec
CONSTANTS
  attic = attic
  cellar = cellar
  p = p
  q = q
  Request = {r1, r2, r3}
  PickerWindow = {w1, w2, w3}
  Nothing = Nothing
  Room = {attic, cellar}
  NoRoom = NoRoom
  LobbyProfiles <- MCLobbyProfiles
  MaxSession = 2
  MaxMount = 2
  MaxCall = 2
  MaxMove = 3
  Me = Me
  Others = {p, q}
  Link = {l1, l2, l3}
  SettingsProfiles <- MCSettingsProfiles
  MaxPane = 3
  MaxDialog = 2
  MaxRequest = 2
  MaxPress = 5
  Peer = {p, q}
  Nobody = Nobody
  FriendsProfiles <- MCFriendsProfiles
  MaxShow = 2
  MaxAsk = 2
  MaxNews = 2
  MaxDeed = 3
  User = {ann, bob}
  Req = {q1, q2, q3}
  NoUser = NoUser
  MaxRow = 5
SYMMETRY MCSymmetry
INVARIANTS
  LastBlockHolds
  WaitingIsAnswerable
  SidebarSettles
  InCallsAskedFor
  NeverLinkless
  PanesSettle
  FriendsSettle
CHECK_DEADLOCK FALSE
