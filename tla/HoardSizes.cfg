SPECIFICATION Spec
CONSTANTS
  NULL = NULL
  NoThread = NoThread
  Threads = {t1}
  NumProcessors = 1
  block_sizes = {1, 2}
  SB_SIZE = 8
  HEADER = 2
  FULLNESS_DENOMINATOR = 2
  K = 1
  PAGES = 3
  MAX_LIVE = 7
SYMMETRY Symmetry
CHECK_DEADLOCK FALSE
INVARIANTS
  TypeOK
  MapOK
  HeaderIntact
  BinsOK
  CountersExact
  ShedFindsOne
