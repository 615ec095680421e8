SPECIFICATION Spec
CONSTANTS
  NULL = NULL
  Threads = {t1}
  NumProcessors = 1
  PAGES = 4
  MAX_PAGES = 2
INVARIANTS
  GlobalChunksFree
