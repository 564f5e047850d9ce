--------------------------- MODULE MCTradingBreaker ---------------------------
(* Instances of TradingBreaker for TLC. *)
EXTENDS TradingBreaker, TLC

Live == {[mode |-> "enforce", on |-> {"tiered", "lock", "needWin"}]}
BothConfigs == Live \cup {[mode |-> "enforce", on |-> {"lock", "needWin"}]}
FewPnLs == {-2, 0, 2, 3}
Gains == {0, 1, 2}
LossAndWin == {-1, 1}
ThreeTiers ==
  { [losses |-> 1, action |-> "reduce", scale |-> 2, ticks |-> 1],
    [losses |-> 2, action |-> "halt", scale |-> 0, ticks |-> 1],
    [losses |-> 3, action |-> "halt_session", scale |-> 0, ticks |-> 1] }
ShortCooldowns ==
  [r \in Fixed |-> IF r = "session_profit_lock" THEN 2 ELSE 1]
NoResults == {}
===============================================================================
