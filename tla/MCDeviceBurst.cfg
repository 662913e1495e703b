SPECIFICATION FairSpec
CONSTANTS
  MaxJobs = 5
  MaxBurst = 5
  PoolSize = 4
  Capacity = 3
INVARIANT AnsweredAsProcessed
INVARIANT OpsReturned
PROPERTY FittingBurstReturns
