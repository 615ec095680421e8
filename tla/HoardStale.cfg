SPECIFICATION Spec
CONSTANTS
  NULL = NULL
  NoThread = NoThread
  Threads = {t1, t2}
  NumProcessors = 1
  block_sizes = {1}
  SB_SIZE = 8
  HEADER = 2
  FULLNESS_DENOMINATOR = 2
  K = 1
  PAGES = 2
  MAX_LIVE = 7
INVARIANTS
  CountersExact
