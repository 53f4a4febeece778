\* Two threads log in the same or different users; MySQL and Redis fail, and
\* the process ends and is started again.
SPECIFICATION Spec
CONSTANTS
  alice = alice
  bob = bob
  Threads = {t1, t2}
  Users = {alice, bob}
  Lobbies = {l1, l2}
  Friends <- MCFriends
  Requested <- MCRequested
  DbMayFail = TRUE
  RedisMayFail = TRUE
  MaxRestarts = 1
  MaxRequests = 2
  MaxSecond = 1
  NoUser = NoUser
  NoServer = NoServer
SYMMETRY Symmetry
INVARIANTS TypeOK CodeOfCause SuccessMeansStored LocationAnswered LocationsExpire OnlineMeansLoggedIn
CHECK_DEADLOCK FALSE
