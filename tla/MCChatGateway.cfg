SPECIFICATION Spec
CONSTANTS
  alice = alice
  bob = bob
  a1 = a1
  a2 = a2
  b1 = b1
  dm = dm
  User <- MCUser
  Conn <- MCConn
  UserOf <- MCUserOf
  Room = {room}
  Dm = {dm}
  Participants <- MCParticipants
  Friends <- MCFriends
  Post = {p1}
  NoRoom = NoRoom
  Reporting <- MCReporting
  MaxCommands = 1
SYMMETRY DeviceSymmetry
INVARIANTS
  OnlineIffOpen
  NoGhostInRoom
  SubscribersWereAllowed
CHECK_DEADLOCK FALSE
