SPECIFICATION Spec
CONSTANTS
  Node = {n1, n2, n3}
  Str = {s1, s2, s3}
  NULL = NULL
  MallocMayFail = TRUE
  StrictClient = TRUE
  TypesUsed = {"true", "string", "integer", "array", "object"}
SYMMETRY Symmetry
INVARIANTS TypeOK MemorySafe SoleOwner PayloadTyped
