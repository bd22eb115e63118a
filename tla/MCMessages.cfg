SPECIFICATION MessagesSpec
CONSTANTS
  Me = me
  Peer = peer
  room = room
  hall = hall
  a = a
  b = b
  p1 = p1
  p2 = p2
  Conversation = {room, hall, a, b}
  Direct = {a, b}
  Option = {yes, no}
  PanelReq = {p1, p2}
  OtherReq = {o1}
  Scenarios <- MCScenarios
  NoThread = NoThread
  NoVote = NoVote
  Idle = Idle
  NoPage = NoPage
  PageSize = 2
  MaxMessage = 3
  MaxMount = 3
SYMMETRY Symmetry
INVARIANTS
  ListIsComplete
  TalliesSettle
  
CHECK_DEADLOCK FALSE
