SPECIFICATION MCSpec
CONSTANTS
  c1 = c1
  c2 = c2
  c3 = c3
  c4 = c4
  i1 = i1
  i2 = i2
  i3 = i3
  p1 = p1
  p2 = p2
  Clients = {c1, c2, c3, c4}
  Ids = {i1, i2, i3}
  Served = {i1, i2, i3}
  IdOf <- MCId
  ProcOf <- MCProc
  Pick <- OneOf
  Socks = {k1, k2, k3}
  None = None
  NumRegions = 1
  NumRings = 1
  Backlog = 1
  MaxDepartures = 2
PROPERTIES
  ImplementsGrant
  EventuallyConnected
  EventuallyReleased
INVARIANTS
  MemoryAgreed
  DescriptorsOwned
CHECK_DEADLOCK FALSE
