SPECIFICATION Spec
CONSTANTS
  Node = {n1, n2, n3, n4}
  Str = {s1}
  NULL = NULL
  MallocMayFail = FALSE
  StrictClient = FALSE
  TypesUsed = {}
SYMMETRY Symmetry
INVARIANT MemorySafe
