CONSTANTS
  Functions <- MCFunctions
  LiveSetBits = 2
SPECIFICATION FairSpec
INVARIANTS LeastSolution ExactLiveness
PROPERTIES SetsOnlyGrow Terminates
