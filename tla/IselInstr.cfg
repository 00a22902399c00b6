SPECIFICATION Spec
CONSTANTS
  Bodies <- MCBodies
  WordBits = 3
  HalfBits = 2
INVARIANTS SameResults SingleAssignment PanicOnlyUnchecked
