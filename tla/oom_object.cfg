SPECIFICATION Spec
CONSTANTS
  Node = {1, 2, 3, 4, 5}
  Str = {11, 12, 13, 14, 15}
  NULL = NULL
  Alphabet = {"{", "}", ":", "quote", "1"}
  MaxDoc = 6
  Simple = {}
  MaxSimple = 0
  MaxString = 1
  ReadMayFail = FALSE
  MallocMayFail = TRUE
  CB_LEAF_SIZE = 50
INVARIANT FreesOnce
