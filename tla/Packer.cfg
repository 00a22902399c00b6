CONSTANTS
  Processor <- DefaultProcessor
  Programs <- MCPrograms
SPECIFICATION Spec
INVARIANTS SameDataflow ControlFlowKept LayoutStallFree VerifierAccepts NeverLonger
