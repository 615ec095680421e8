SPECIFICATION FairSpec
CONSTANTS
  NULL = NULL
  Clients = {c1, c2}
  Keys = {k1}
  Left = {k1}
  Ports = {7000, 7001}
  RETRIES = 2
  QUEUE = 3
CHECK_DEADLOCK FALSE
INVARIANTS
  TypeOK
  PortAgreed
  QueueOutlivesReceiver
  LeavesNothing
PROPERTIES
  StartEnds
  ShutdownEnds
