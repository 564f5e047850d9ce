CONSTANTS
  High = {h1, h2, h3}
  Medium = {m1}
  Low = {l1}
  QueueSize = 1
  OverflowSize = 2
  None = None
SPECIFICATION FairSpec
INVARIANTS
  TypeOK
  OnePlace
PROPERTIES
  SinkSpec
CHECK_DEADLOCK FALSE
