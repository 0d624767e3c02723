SPECIFICATION Spec
CONSTANTS
  Leaf = {1, 2, 3}
  Root = 0
  NULL = NULL
  Alphabet = {"quote", "a", "b"}
  CB_LEAF_SIZE = 2
  MallocMayFail = TRUE
  MaxRaw = 6
  ReadMayFail = FALSE
INVARIANT WholeString
