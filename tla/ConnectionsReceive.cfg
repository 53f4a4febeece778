\* Clients come, speak and leave; nothing is sent. Fewer blocks than slots and
\* workers, and WSARecv may fail: the pool runs out, and slots are lost.
SPECIFICATION FairSpec
CONSTANTS
  Slots = {0, 1}
  PoolOvs = {b1, b2, b3}
  HeapOvs = {}
  MaxPool = 3
  MaxRequests = 0
  Workers = {w1, w2}
  Accepters = {a1, a2}
  Senders = {}
  AcceptMayFail = FALSE
  PeerLeaves = TRUE
  PeerAborts = TRUE
  NoOv = NoOv
  NoSlot = NoSlot
  NoJob = NoJob
CHECK_DEADLOCK FALSE
INVARIANTS OneUsePerBlock EachSlotOnce ResetsOwnUser UnheardOnlyDeaf
PROPERTIES SlotsRecycled
