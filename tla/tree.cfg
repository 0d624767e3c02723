SPECIFICATION Spec
CONSTANTS
  Node = {n1, n2, n3, n4}
  Str = {}
  NULL = NULL
  MallocMayFail = TRUE
  StrictClient = TRUE
  TypesUsed = {"array"}
SYMMETRY Symmetry
INVARIANTS TreeLinked MemorySafe
PROPERTY ImplementsForest
