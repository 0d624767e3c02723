SPECIFICATION FairSpec
CONSTANTS
  Leaf = {1, 2, 3}
  Root = 0
  NULL = NULL
  Alphabet = {"quote", "backslash", " ", "a", "NUL"}
  CB_LEAF_SIZE = 2
  MallocMayFail = TRUE
  MaxRaw = 5
  ReadMayFail = TRUE
INVARIANTS TypeOK BagSafe ChainWhole NoLeafLeft ReadsTheString
PROPERTIES ImplementsReader Returns
