SPECIFICATION FairSpec
CONSTANTS
  MaxJobs = 4
  MaxBurst = 4
  PoolSize = 4
  Capacity = 3
PROPERTY BurstReturns
