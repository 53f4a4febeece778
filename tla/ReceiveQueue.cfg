\* A client that waits for its answers and may send an unknown PacketId, and one
\* that does not wait and fills its ring.
SPECIFICATION FairSpec
CONSTANTS
  Clients = {c1, c2}
  Patient = {c1}
  Strangers = {c1}
  Workers = {w1, w2}
  RedisThreads = {t1, t2}
  bufferSize = 5
  packetSize = 2
  MaxSent <- MCMaxSent
  MaxPackets = 3
  NoClient = NoClient
CHECK_DEADLOCK FALSE
INVARIANTS TypeOK BytesOwed AnsweredOnce TokenOfPatient KnownHandler
PROPERTIES Framed RingIsQueue AllAnswered
