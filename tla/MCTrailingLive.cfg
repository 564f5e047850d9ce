CONSTANTS
  None = None
  Modes = {TRUE, FALSE}
  Prices = {26, 34}
  Brackets <- OneBracket
  Slips = {1}
  Atrs = {4}
  MinMove = 2
  Overrides <- OneOverride
  RegimeTrail = {}
  MaxOpens = 1
  MaxOrders = 1
  MaxRestarts = 0
  MaxEvents = 1
SPECIFICATION FairSpec
PROPERTIES
  StopArrives
