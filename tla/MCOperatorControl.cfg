CONSTANTS
  SignalIds = {s1, s2}
  ConfigArmed = TRUE
  MaxWrites = 2
  MaxFaults = 2
  MaxRestarts = 1
SPECIFICATION FairSpec
INVARIANTS
  TypeOK
  CloseAllOnce
PROPERTIES
  RequestsServed
  KillNotDropped
  KillTaken
