CONSTANTS
  Orders = {o1}
  WsAttempts = 2
  ReconnectAttempts = 2
SPECIFICATION FairSpec
INVARIANTS
  TypeOK
PROPERTIES
  LiveOrderKept
  AuthRestored
  DownIsPolled
CHECK_DEADLOCK FALSE
