\* Everything at once: pipelined requests, two threads of each kind, a second client.
SPECIFICATION Spec
CONSTANTS
  Pushers = {p1, p2}
  Workers = {w1, w2}
  Answers = {1, 3}
  Pipelined = TRUE
  MaxLogins = 2
  MaxSessions = 2
  NoMsg = NoMsg
CHECK_DEADLOCK FALSE
SYMMETRY Symmetry
INVARIANTS TypeOK SizeCounts OnePlace InOrder
