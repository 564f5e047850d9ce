CONSTANTS
  None = None
  Modes = {TRUE, FALSE}
  Prices = {34}
  Brackets <- TwoBrackets
  Slips = {0}
  Atrs = {0, 4}
  MinMove = 2
  Overrides <- OneOverride
  RegimeTrail = {}
  MaxOpens = 2
  MaxOrders = 2
  MaxRestarts = 1
  MaxEvents = 1
SPECIFICATION Spec
INVARIANTS
  TypeOK
PROPERTIES
  BrokerRatchet
