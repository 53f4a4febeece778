\* Every fault: accepts and receives fail, clients leave, the pool runs out.
SPECIFICATION Spec
CONSTANTS
  Slots = {0}
  PoolOvs = {b1, b2}
  HeapOvs = {h1}
  MaxPool = 2
  MaxRequests = 1
  Workers = {w1, w2}
  Accepters = {a1}
  Senders = {r1}
  AcceptMayFail = TRUE
  PeerLeaves = TRUE
  PeerAborts = TRUE
  NoOv = NoOv
  NoSlot = NoSlot
  NoJob = NoJob
CHECK_DEADLOCK FALSE
SYMMETRY Symmetry
INVARIANTS TypeOK OneUsePerBlock HeapBlocksLive StraysFromFailedAccepts
