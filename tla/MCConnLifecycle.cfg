SPECIFICATION FairSpec
CONSTANTS
  c1 = c1
  c2 = c2
  t1 = t1
  t2 = t2
  Conns = {c1}
  Callers = {t1, t2}
  Owners = {t1}
  ConnOf <- OneConn
  Epoll = Epoll
  None = None
  MaxPolls = 2
  MaxBursts = 2
  MaxCrashes = 1
  MayFree = TRUE
  Serial = TRUE
INVARIANT UsesMappedQueues
INVARIANT FreedIsClean
PROPERTY CallsReturn
