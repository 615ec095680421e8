SPECIFICATION Spec
CONSTANTS
  NULL = NULL
  Members = {m1, m2, m3}
  Rooms = {r1, r2}
  Ids = {i1, i2, i3}
  Names = {n1, n2, n3}
  RoomNames = {golf, hockey, toolong}
  LongNames = {toolong}
  FullNames = {hockey}
  Zeroed = {}
  MAX_NUM_OF_ROOMS = 2
  MAX_NUM_OF_MEMBERS_PER_ROOM = 2
SYMMETRY Symmetry
VIEW AllButReply
INVARIANTS
  TypeOK
  MemberListOK
  RoomMembersOK
  NoDanglingRoom
  RoomListOK
  RoomTailOK
  CursorsOK
PROPERTIES
  ImplementsService
