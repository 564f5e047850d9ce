CONSTANTS
  None = None
  Configs <- BothConfigs
  PnLs <- FewPnLs
  Results <- LossAndWin
  MaxDrawdown = 2
  MaxProfit = 3
  MaxLosses = 2
  Tiers <- ThreeTiers
  SessionHalt = 2
  Cooldowns <- ShortCooldowns
  Window = 2
  MinWins = 1
  Lookback = 2
  Activation = 2
  Kept = 3
  MinFloor = 4
  Day = 4
  UtcDate = 1
  Midnight = 1
  Calls = {"record", "reset", "force", "clear"}
  MaxEvents = 4
SPECIFICATION Spec
INVARIANTS
  TypeOK
  NoGiveBack
  TripBinds
  DrawdownBinds
