SPECIFICATION FairSpec
CONSTANTS
  Node = {1, 2, 3, 4, 5, 6}
  Str = {11, 12, 13, 14, 15, 16}
  NULL = NULL
  Alphabet = {"[", "]", "{", "}", ",", ":", "quote", "1", "backslash"}
  MaxDoc = 6
  Simple = {}
  MaxSimple = 0
  MaxString = 1
  ReadMayFail = TRUE
  MallocMayFail = TRUE
  CB_LEAF_SIZE = 1
INVARIANTS TreeLinked MisuseOnlyWhenTorn NoNodeLost StringsOwned OnlyUnmadeMissing
PROPERTIES FirstMessageKept ReadsStrings Decides
