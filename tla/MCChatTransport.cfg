SPECIFICATION FairSpec
CONSTANTS
  good = good
  bad = bad
  dm1 = dm1
  dm2 = dm2
  room = room
  p1 = p1
  p2 = p2
  p3 = p3
  Login <- MCLogin
  Stale = {bad}
  Thread <- MCThread
  Dm <- MCDm
  Panel <- MCPanel
  ThreadOf <- MCThreadOf
  Sock = {1, 2, 3}
  NoLogin = NoLogin
  NoSock = NoSock
  MaxDrops = 2
  MaxQueue = 2
INVARIANTS
  OneWayToServer
  PanelsAreServed
PROPERTY ConnectionReturns
CHECK_DEADLOCK FALSE
