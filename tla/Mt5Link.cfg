SPECIFICATION FairLinkSpec
CONSTANTS
  Callers = {worker}
  NoConn = NoConn
  NoCall = NoCall
  MaxConns = 3
  MaxReqs = 1
  MaxLinkFaults = 2
INVARIANTS
  AnswersMatch
  OnlyCurrentOpen
PROPERTIES
  Recovers
  CallsReturn
CHECK_DEADLOCK FALSE
