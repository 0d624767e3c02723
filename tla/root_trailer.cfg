SPECIFICATION Spec
CONSTANTS
  Node = {1, 2, 3, 4, 5}
  Str = {11, 12, 13, 14, 15}
  NULL = NULL
  Alphabet = {"[", "]", "1"}
  MaxDoc = 3
  Simple = {}
  MaxSimple = 0
  MaxString = 1
  ReadMayFail = FALSE
  MallocMayFail = FALSE
  CB_LEAF_SIZE = 50
INVARIANT AcceptsOnlyTexts
