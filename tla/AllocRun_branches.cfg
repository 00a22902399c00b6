SPECIFICATION RunSpec
CONSTANTS
  Functions <- MCDiamond
  FIRST_ALLOCATABLE_GPR = 2
  LAST_ALLOCATABLE_GPR = 30
  MemorySize = 1024
  LiveSetBits = 64
INVARIANTS ReadsRightValue
