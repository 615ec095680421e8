SPECIFICATION FairSpec
CONSTANTS
  Clients = {c1, c2, c3}
  MAX_CONTROL_SESSIONS = 2
INVARIANTS
  TypeOK
  TableOK
  CountdownExact
PROPERTIES
  ConnectionsServed
