SPECIFICATION Spec
CONSTANTS
  SizeClasses = {8, 16, 32, 64, 128, 256, 512, 1024, 2048}
  MAX_LIVE = 8
  MAX_WILD = 3
INVARIANTS
  FindsBlock
PROPERTIES
  ImplementsAllocator
