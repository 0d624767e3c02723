SPECIFICATION Spec
CONSTANTS
  Node = {1, 2, 3, 4, 5, 6, 7}
  Str = {11, 12, 13, 14, 15, 16, 17}
  NULL = NULL
  Alphabet = {"[", "]", "{", "}", ",", ":", "quote", " ", "1", "null", "backslash"}
  MaxDoc = 7
  Simple = {"{", "}", ",", ":", "quote", "1"}
  MaxSimple = 11
  MaxString = 2
  ReadMayFail = TRUE
  MallocMayFail = FALSE
  CB_LEAF_SIZE = 50
INVARIANTS TypeOK MemorySafe TreeLinked NoNodeLost StringsOwned AcceptsTexts RejectsOthers RoundTrip PrintsJson Navigable ValueCopied StringifyAgrees RejectionReported StackByNesting AcceptedIsClosed
PROPERTY FirstMessageKept
