CONSTANTS
  Items = {i1, i2, i3}
  Flushes = {f1, f2}
  MaxLost = 1
SPECIFICATION FairSpec
INVARIANTS OutcomeExplained
PROPERTIES  KeepsPromise
CHECK_DEADLOCK FALSE
