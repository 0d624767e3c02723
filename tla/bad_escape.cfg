SPECIFICATION Spec
CONSTANTS
  Node = {1, 2, 3, 4, 5}
  Str = {11, 12, 13, 14, 15}
  NULL = NULL
  Alphabet = {"quote", "backslash", "1"}
  MaxDoc = 4
  Simple = {}
  MaxSimple = 0
  MaxString = 2
  ReadMayFail = FALSE
  MallocMayFail = FALSE
  CB_LEAF_SIZE = 50
INVARIANT AcceptsJsonStrings
