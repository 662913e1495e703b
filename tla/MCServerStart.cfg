SPECIFICATION Spec
CONSTANTS
  VdevLists <- MCVdevs
  ClientLists <- MCClientLists
  MaxConn = 6
  Args <- MCArgs
  Defaults <- MCDefaults
  Uint = 8
  Ulong = 16
  MaxList = 2
  Digest = 3
  MaxOptions = 1
CHECK_DEADLOCK FALSE
INVARIANT NonZeroSizes
INVARIANT SegmentHoldsBuffer
INVARIANT JobsOnTheirDevice
INVARIANT ConnectedMeansReady
INVARIANT ClientsMeetServer
