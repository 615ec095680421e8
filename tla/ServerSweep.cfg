SPECIFICATION FairSpec
CONSTANTS
  NULL = NULL
  Members = {m1, m2}
  Rooms = {r1, r2, r3}
  Ids = {i1, i2}
  Names = {n1, n2}
  RoomNames = {golf, hockey}
  LongNames = {}
  FullNames = {hockey}
  Zeroed = {r2}
  MAX_NUM_OF_ROOMS = 3
  MAX_NUM_OF_MEMBERS_PER_ROOM = 1
VIEW AllButReply
INVARIANTS
  SearchesAgree
PROPERTIES
  ImplementsService
  DormantMembersLeave
  EmptyRoomsLeave
