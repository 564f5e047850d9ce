CONSTANTS
  Callers = {c1, c2}
  SignalIds = {s1, s2}
  Types = {t1}
  NoSignal = NoSignal
  NoType = NoType
  MaxPositions = 1
  MaxOrdersPerDay = 1
  AllowReversal = TRUE
  MaxCalls = 3
  MaxEnv = 2
  MaxEvents = 0
SPECIFICATION Spec
INVARIANTS
  PendingIsInFlight
  DailyLimit
  StraysBounded
SYMMETRY Symmetry
CHECK_DEADLOCK FALSE
