CONSTANTS
  Items = {i1, i2}
  Flushes = {f1}
  MaxLost = 1
SPECIFICATION Spec
INVARIANT RemainingReturn
CHECK_DEADLOCK FALSE
