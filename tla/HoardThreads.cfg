SPECIFICATION Spec
CONSTANTS
  NULL = NULL
  NoThread = NoThread
  Threads = {t1, t2}
  NumProcessors = 2
  block_sizes = {1}
  SB_SIZE = 4
  HEADER = 1
  FULLNESS_DENOMINATOR = 2
  K = 4
  PAGES = 4
  MAX_LIVE = 3
SYMMETRY Symmetry
INVARIANTS
  BinsOK
