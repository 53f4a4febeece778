\* A client leaves while its answer is being sent.
SPECIFICATION Spec
CONSTANTS
  Slots = {0}
  PoolOvs = {b1, b2, b3}
  HeapOvs = {}
  MaxPool = 3
  MaxRequests = 1
  Workers = {w1, w2}
  Accepters = {a1}
  Senders = {r1}
  AcceptMayFail = FALSE
  PeerLeaves = TRUE
  PeerAborts = FALSE
  NoOv = NoOv
  NoSlot = NoSlot
  NoJob = NoJob
CHECK_DEADLOCK FALSE
INVARIANTS ResetsOwnUser
