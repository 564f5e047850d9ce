CONSTANTS
  None = None
  Configs <- Live
  PnLs <- Gains
  Results <- NoResults
  MaxDrawdown = 2
  MaxProfit = 3
  MaxLosses = 2
  Tiers <- ThreeTiers
  SessionHalt = 2
  Cooldowns <- ShortCooldowns
  Window = 2
  MinWins = 1
  Lookback = 2
  Activation = 2
  Kept = 3
  MinFloor = 4
  Day = 2
  UtcDate = 1
  Midnight = 1
  Calls = {}
  MaxEvents = 3
SPECIFICATION Spec
PROPERTIES
  TripEarned
