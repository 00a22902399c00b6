SPECIFICATION RunSpec
CONSTANTS
  Functions <- MCFunctions
  FIRST_ALLOCATABLE_GPR = 2
  LAST_ALLOCATABLE_GPR = 5
  MemorySize = 1024
  LiveSetBits = 64
INVARIANTS RegistersPartitioned VictimExists ReadsRightValue
