\* Failed logins only, one after the other: each answer is one message.
SPECIFICATION FairSpec
CONSTANTS
  Pushers = {p1, p2}
  Workers = {w1, w2}
  Answers = {1}
  Pipelined = FALSE
  MaxLogins = 3
  MaxSessions = 1
  NoMsg = NoMsg
CHECK_DEADLOCK FALSE
PROPERTIES AllSent
