\* One successful login: the answer is three messages.
SPECIFICATION FairSpec
CONSTANTS
  Pushers = {p1}
  Workers = {w1}
  Answers = {3}
  Pipelined = FALSE
  MaxLogins = 1
  MaxSessions = 1
  NoMsg = NoMsg
CHECK_DEADLOCK FALSE
PROPERTIES AllSent
