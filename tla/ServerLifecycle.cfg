\* Starts, serves and ends, whatever fails at the start.
SPECIFICATION FairSpec
CONSTANTS
  Workers = {w1, w2, w3}
  Accepters = {a1, a2}
  RedisThreads = {r1}
  maxClientCount = 3
  Skipped = {1}
  InitMayFail = TRUE
  ThreadsMayFail = TRUE
  Null = Null
CHECK_DEADLOCK FALSE
INVARIANTS TypeOK OnlyStartUpEnds ClosedLast RunsUntilEnd
PROPERTIES EndReached
