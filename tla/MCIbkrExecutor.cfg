CONSTANTS
  Workers = {w1, w2}
  ConnectAttempts = 2
SPECIFICATION FairSpec
INVARIANTS
  TypeOK
  NobodyForgotten
  FreedAtEnd
PROPERTIES
  BarReturns
  StopEnds
  Reconnects
CHECK_DEADLOCK FALSE
