CONSTANTS
  Processor <- DefaultProcessor
  Programs <- MCTwoFunctions
SPECIFICATION RunSpec
INVARIANT StallFreeOnEveryPath
