\* Three Redis threads compete for two connections; init() may stop early, so
\* every permit may leak and all threads may end up waiting in acquire().
SPECIFICATION FairSpec
CONSTANTS
  Threads = {t1, t2, t3}
  Conns = {c1, c2}
  ConnectMayFail = TRUE
  NoConn = NoConn
  NoThread = NoThread
  Closed = Closed
INVARIANTS TypeOK ExclusiveConnection NoConnectionLost PermitAccounting NoRefusal
PROPERTIES PermitsFlow ImplementsPool
CHECK_DEADLOCK FALSE
