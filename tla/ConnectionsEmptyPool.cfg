\* Fewer blocks than receives at a time.
SPECIFICATION Spec
CONSTANTS
  Slots = {0, 1}
  PoolOvs = {b1, b2}
  HeapOvs = {}
  MaxPool = 2
  MaxRequests = 0
  Workers = {w1, w2}
  Accepters = {a1}
  Senders = {}
  AcceptMayFail = FALSE
  PeerLeaves = FALSE
  PeerAborts = FALSE
  NoOv = NoOv
  NoSlot = NoSlot
  NoJob = NoJob
CHECK_DEADLOCK FALSE
INVARIANTS ClientHeard
