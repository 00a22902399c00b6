SPECIFICATION FairSpec
CONSTANTS
  Blocks = {1, 2, 3, 4}
  Entry = 1
  Functions <- MCGraphs
INVARIANTS ControlFlowKept DominatorsFirst CopiesReachTheirEdge PanicOnlyUnreachable
PROPERTIES ImplementsTraversal Terminates
