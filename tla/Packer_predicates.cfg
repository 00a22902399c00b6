CONSTANTS
  Processor <- DefaultProcessor
  Programs <- MCPredicates
SPECIFICATION Spec
INVARIANT NoPredicateHazard
