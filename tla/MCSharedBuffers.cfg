SPECIFICATION SharedSpec
CONSTANTS
  RingHead = 3
  DescSize = 2
  SlotRange = 16
  OffRange = 8192
  Args <- FittingArgs
  Places <- EdgePlaces
  Lengths <- MCLengths
CHECK_DEADLOCK FALSE
INVARIANT BuffersApart
INVARIANT RingsApart
INVARIANT CopiesAll
INVARIANT OthersUntouched
