\* A client that may send without polling, so that responses are dropped.
\* Indices wrap after 8, the ring has 4 buffers, a library call moves at most 2.
CONSTANTS
  IndexSpace = 8
  RingSize = 4
  MaxBufs = 2
  MaxRetries = 1
  SendSizes = {1, 3}
  PollSizes = {1, 3}
  Credit = 9
  MaxJobs = 9
SPECIFICATION FairSpec
INVARIANTS TypeOK NoSilentLoss OfferedBuffersFull RingInv
PROPERTIES ImplementsChannel ProcessedInOrder DropsOnlyBeyondRing SendReturns
