CONSTANTS
  None = None
  MaxSignals = 2
  Modes <- AllModes
  MaxOpen = 1
  Window = 3
  Wide = 4
  MaxTroubles = 1
SPECIFICATION FairSpec
INVARIANTS
  TypeOK
  BookedRight
PROPERTIES
  OneOpenTrade
  ExitArrives
