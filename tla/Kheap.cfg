SPECIFICATION Spec
CONSTANTS
  PAGE_SIZE = 12
  sizes = {4, 6}
  REFS = 2
  BASE = 1
  PAGES = 5
  FRAMES = 5
  Requests = {4, 5, 6, 9, 21}
INVARIANTS
  PagesOnce
  BlocksExact
  RefsOnce
PROPERTIES
  ImplementsAllocator
