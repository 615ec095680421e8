SPECIFICATION FairSpec
VIEW Seen
CONSTANTS
  NULL = NULL
  Ids = {i1, i2}
  Rooms = {r1, r2}
  RoomNames = {golf, none}
  LongNames = {}
  FullNames = {}
  Blank = none
  MAX_NUM_OF_ROOMS = 2
  MAX_NUM_OF_MEMBERS_PER_ROOM = 1
  Clients = {c1}
  Bases = {ann, longest}
  LongBases = {longest}
  MAX_SUFFIX = 1
  MAX_RETRIES = 1
  TCP_RETRIES = 2
INVARIANTS
  TypeOK
  ActsAsItself
  RoomAsShown
PROPERTIES
  Settles
  GhostsLeave
