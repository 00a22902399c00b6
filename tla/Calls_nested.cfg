SPECIFICATION CallSpec
CONSTANTS
  Names = {"main", "f", "g"}
  Main = "main"
  Modules <- MCNested
INVARIANTS ReturnsMatchCalls
