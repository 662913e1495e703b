SPECIFICATION FairSpec
CONSTANTS
  Conns = {a, b}
  Wrap = 64
  Serial = TRUE
  MayDelete = TRUE
  MaxCrashes = 4
INVARIANTS
  CountCoversDown
PROPERTIES
  AloneIsRetried
CHECK_DEADLOCK FALSE
