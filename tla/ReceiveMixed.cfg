\* One client sends two requests without waiting for the first answer.
SPECIFICATION Spec
CONSTANTS
  Clients = {c1}
  Patient = {}
  Strangers = {}
  Workers = {w1}
  RedisThreads = {t1, t2}
  bufferSize = 5
  packetSize = 2
  MaxSent <- MCMaxSent
  MaxPackets = 2
  NoClient = NoClient
CHECK_DEADLOCK FALSE
INVARIANTS TokenOfUser
