SPECIFICATION FairSpec
CONSTANTS
  Conns = {a, b}
  Wrap = 64
  Serial = TRUE
  MayDelete = FALSE
  MaxCrashes = 0
PROPERTIES
  DownIsRetried
CHECK_DEADLOCK FALSE
