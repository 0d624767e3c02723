SPECIFICATION FairSpec
CONSTANTS
  Node = {1, 2, 3, 4, 5}
  Str = {11, 12, 13, 14, 15}
  NULL = NULL
  Alphabet = {"[", "]", "1"}
  MaxDoc = 2
  Simple = {}
  MaxSimple = 0
  MaxString = 1
  ReadMayFail = TRUE
  MallocMayFail = FALSE
  CB_LEAF_SIZE = 50
PROPERTY Terminates
