SPECIFICATION Spec
CONSTANTS
  NULL = NULL
  Members = {m1}
  Rooms = {r1, r2}
  Ids = {i1}
  Names = {n1}
  RoomNames = {golf, hockey}
  LongNames = {}
  FullNames = {}
  Zeroed = {}
  MAX_NUM_OF_ROOMS = 2
  MAX_NUM_OF_MEMBERS_PER_ROOM = 2
INVARIANTS
  SitsInLoop
