SPECIFICATION Spec
CONSTANTS
  NumChannels = 2
  NumDevs = 2
  MaxSess = 2
  Sessions = {s1, s2}
  NoSession = NoSession
  IdRange = 4
  SessIds <- MCSessIds
  MaxBurst = 2
SYMMETRY Symmetry
INVARIANTS
  OwnedOnce
  DeviceSessionsLive
  InactiveChannelsClean
  PollsMappedQueues
  CreationHasRoom
