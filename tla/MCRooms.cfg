SPECIFICATION Spec
CONSTANTS
  User = {u1, u2}
  Room = {m1}
  Code = {k1}
  Req = {r1, r2}
  NoRow = NoRow
  NoLimit = NoLimit
  MaxRequest = 4
  MaxUses = 2
  MaxDirect = 1
SYMMETRY RoomSymmetry
INVARIANTS
  InvitersHadStanding
  LeaversAreKicked
CHECK_DEADLOCK FALSE
