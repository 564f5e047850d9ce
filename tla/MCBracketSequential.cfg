CONSTANTS
  Callers = {c1}
  SignalIds = {s1, s2}
  Types = {t1}
  NoSignal = NoSignal
  NoType = NoType
  MaxPositions = 2
  MaxOrdersPerDay = 1
  AllowReversal = TRUE
  MaxCalls = 2
  MaxEnv = 1
  MaxEvents = 2
SPECIFICATION Spec
INVARIANTS
  TypeOK
  SentOnSeenRoom
  SettledOrderFits
PROPERTIES
  DeskSpec
SYMMETRY Symmetry
CHECK_DEADLOCK FALSE
