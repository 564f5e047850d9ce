CONSTANTS
  Frames <- TwoFrames
  FailureThreshold = 2
  MaxConnFailures = 2
  PauseOnFailures = TRUE
SPECIFICATION FairSpec
INVARIANTS
  TypeOK
PROPERTIES
  OutageSilences
  BreakerRecovers
  OwnBarsReturn
CHECK_DEADLOCK FALSE
