SPECIFICATION Spec
CONSTANTS
  c1 = c1
  c2 = c2
  t1 = t1
  t2 = t2
  Conns = {c1, c2}
  Callers = {t1, t2}
  Owners = {t1, t2}
  ConnOf <- OwnConn
  Epoll = Epoll
  None = None
  MaxPolls = 1
  MaxBursts = 1
  MaxCrashes = 1
  MayFree = TRUE
  Serial = FALSE
INVARIANT OneThreadDisconnects
