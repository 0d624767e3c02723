SPECIFICATION Spec
CONSTANTS
  Chars = {"0", "1", "-", "+", ".", "e", "x"}
  MaxText = 6
INVARIANTS NumbersAccepted FloatsTold
CHECK_DEADLOCK FALSE
