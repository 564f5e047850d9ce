---------------------------- MODULE TradingBreaker ----------------------------
(***************************************************************************)
(* TradingCircuitBreaker as the service loop drives it: one iteration      *)
(* reads the control flags, shows the breaker the broker's realized P&L,   *)
(* asks it about signals, shows it the P&L once more and saves state.json; *)
(* the process may die anywhere and come up again.  The methods the service*)
(* of this commit does not call (record_trade_result, reset_session,       *)
(* reset_daily, force_cooldown, clear_cooldown) are steps that Calls turns *)
(* on.                                                                     *)
(*                                                                         *)
(* Time is a clock of Day ticks that begins at 18:00 ET; a cooldown is the *)
(* number of ticks it has left.  An expired one does not block, whether or *)
(* not auto_resume clears it.  P&L is in whole units, the profit floor in  *)
(* quarters of one, a risk scale in quarters.  The stateless filters       *)
(* (positions, direction, regime, trigger, volatility, evaluation gate) are*)
(* a choice.  Definitions marked VARIANT are the next one with a plausible *)
(* mistake; no action uses them.                                           *)
(***************************************************************************)
EXTENDS Integers, FiniteSets, Sequences

CONSTANTS
  None,          \* no value
  Configs,       \* [mode, on]: on holds the features that are enabled
  PnLs,          \* realized P&L of a session
  Results,       \* P&L of one closed trade
  MaxDrawdown,   \* max_session_drawdown, max_daily_drawdown
  MaxProfit,     \* max_daily_profit
  MaxLosses,     \* max_consecutive_losses
  Tiers,         \* tiered_loss_levels: [losses, action, scale, ticks]
  SessionHalt,   \* the least a halt_session lasts: 240 minutes
  Cooldowns,     \* ticks of each configured cooldown
  Window,        \* rolling_window_trades
  MinWins,       \* min_rolling_win_rate, in wins of a full window
  Lookback,      \* equity_curve_lookback
  Activation,    \* session_profit_lock_activation_usd
  Kept,          \* 1 - session_profit_lock_retracement_pct, in quarters
  MinFloor,      \* session_profit_lock_min_floor_usd, in quarters
  Day,           \* ticks of a day
  UtcDate,       \* the tick at which the UTC date changes
  Midnight,      \* ticks from there to 05:00 UTC
  Calls,         \* the methods the host calls besides the service's own
  MaxEvents      \* bound: P&L moves, ticks, calls, commands, restarts

Reasons ==
  {"consecutive_losses", "tiered_loss_halt", "session_drawdown", "daily_drawdown",
   "daily_profit_cap", "rolling_win_rate", "equity_curve_halt", "session_profit_lock",
   "daily_drawdown_on_startup", "forced"}
Fixed == {"consecutive_losses", "session_drawdown", "rolling_win_rate", "equity_curve_halt",
          "session_profit_lock", "forced"}
Features == {"tiered", "lock", "needWin"}
Actions == {"reduce", "halt", "halt_session"}

ASSUME LimitsAssumption ==
  /\ MaxDrawdown \in Nat \ {0} /\ MaxProfit \in Nat /\ MaxLosses \in Nat \ {0}
  /\ SessionHalt \in Nat \ {0} /\ Cooldowns \in [Fixed -> Nat \ {0}]
  /\ Window \in Nat \ {0} /\ MinWins \in Nat /\ Lookback \in Nat \ {0}
  /\ Day \in Nat \ {0} /\ UtcDate \in 1..Day /\ Midnight \in Nat \ {0}
  /\ MaxEvents \in Nat
ASSUME LockAssumption == Activation \in Nat \ {0} /\ Kept \in 0..4 /\ MinFloor \in Nat
ASSUME DataAssumption ==
  /\ PnLs \subseteq Int /\ 0 \in PnLs /\ Results \subseteq Int
  /\ Configs \subseteq [mode : {"enforce", "warn_only"}, on : SUBSET Features]
  /\ Tiers \subseteq [losses : Nat \ {0}, action : Actions, scale : 0..4, ticks : Nat \ {0}]
  /\ \A t, u \in Tiers : t.losses = u.losses => t = u
  /\ Calls \subseteq {"record", "reset", "force", "clear"}

VARIABLES
  config,
  phase,       \* where the loop is; "down": no process
  (* the breaker *)
  pnl,         \* [session, daily]: _session_pnl, _daily_pnl
  losses,      \* _consecutive_losses
  recent,      \* _recent_trades
  cool,        \* [left, reason]: _cooldown_until, _cooldown_reason
  lock,        \* [hwm, floor, state]: the session profit lock
  (* around it *)
  armed,       \* the adapter: "yes" or "no"
  kill,        \* kill_request.flag: "absent", "fresh", "stale"
  disk,        \* circuit_breaker_persisted of state.json
  hour,        \* ticks since 18:00 ET
  broker,      \* the account's realized P&L of the session
  verdict,     \* what came of the step's signal
  (* history *)
  seen,        \* the last P&L the lock was shown
  top,         \* the best P&L the lock was shown since it was last reset
  told,        \* the session P&L the breaker has been told of
  binding,     \* ticks a trip of the profit lock still binds
  peak,        \* the best P&L shown since the session began
  events

breaker == <<pnl, losses, recent, cool, lock>>
ghosts == <<seen, top, told, binding>>
vars == <<config, phase, breaker, armed, kill, disk, hour, broker, verdict, ghosts, peak, events>>

MaxOf(a, b) == IF a >= b THEN a ELSE b
MinOf(a, b) == IF a <= b THEN a ELSE b

FreshPnl == [session |-> 0, daily |-> 0]
NoCooldown == [left |-> 0, reason |-> None]
FreshLock == [hwm |-> 0, floor |-> None, state |-> "open"]

PnlStates == [session : Int, daily : Int]
CoolStates == [left : Nat, reason : Reasons \cup {None}]
LockStates == [hwm : Nat, floor : Nat \cup {None}, state : {"open", "locked"}]
Snapshots == [pnl : PnlStates, losses : Nat, cool : CoolStates, lock : LockStates,
              seen : Int, top : Nat, told : Int, binding : Nat]

ASSUME NoneAssumption == None \notin Int /\ None \notin Reasons /\ None \notin Snapshots

TypeOK ==
  /\ config \in Configs
  /\ phase \in {"down", "boot", "flags", "poll", "signals", "account", "save", "stop"}
  /\ pnl \in PnlStates
  /\ losses \in Nat
  /\ recent \in Seq({"win", "loss"})
  /\ cool \in CoolStates
  /\ lock \in LockStates
  /\ armed \in {"yes", "no"}
  /\ kill \in {"absent", "fresh", "stale"}
  /\ disk \in Snapshots \cup {None}
  /\ hour \in 0..(Day - 1)
  /\ broker \in PnLs
  /\ verdict \in {"none", "order", "idle"}
  /\ seen \in Int /\ top \in Nat /\ told \in Int /\ binding \in Nat
  /\ peak \in Int
  /\ events \in Nat

Event == events < MaxEvents /\ events' = events + 1

-------------------------------------------------------------------------------
(* Cooldowns *)

InCooldown == cool.left > 0
Cooldown(ticks, reason) == [left |-> ticks, reason |-> reason]

ToReset == Day - hour
ToMidnight == IF hour < UtcDate THEN UtcDate - hour + Midnight
              ELSE Day - hour + UtcDate + Midnight

-------------------------------------------------------------------------------
(* The session profit lock.  The floor is in quarters. *)

FloorOf(hwm) == MaxOf(hwm * Kept, MinFloor)

Raised(p) ==
  LET hwm == MaxOf(lock.hwm, p) IN
  [hwm |-> hwm,
   floor |-> IF hwm >= Activation /\ (lock.floor = None \/ FloorOf(hwm) > lock.floor)
             THEN FloorOf(hwm) ELSE lock.floor,
   state |-> "open"]

Retraced(l, p) == l.floor # None /\ 4 * p <= l.floor

Trip(l) ==
  /\ lock' = [hwm |-> l.hwm, floor |-> l.floor, state |-> "locked"]
  /\ cool' = Cooldown(Cooldowns["session_profit_lock"], "session_profit_lock")
  /\ binding' = Cooldowns["session_profit_lock"]
  /\ kill' \in {kill, "fresh"}          \* the write of the flag may fail

UpdateLock(p) ==
  IF "lock" \notin config.on \/ lock.state = "locked"
  THEN UNCHANGED <<lock, cool, binding, kill>>
  ELSE LET l == Raised(p) IN
       \/ Retraced(l, p) /\ Trip(l)
       \/ ~Retraced(l, p) /\ lock' = l /\ UNCHANGED <<cool, binding, kill>>

SyncBrokerPnl ==
  /\ pnl' = [session |-> broker, daily |-> broker]
  /\ seen' = broker /\ told' = broker
  /\ peak' = MaxOf(peak, broker)
  /\ top' = IF "lock" \in config.on THEN MaxOf(top, broker) ELSE top
  /\ UpdateLock(broker)

-------------------------------------------------------------------------------
(* should_allow_signal *)

(* The tier with the most losses among those reached. *)
Reached == {t \in Tiers : "tiered" \in config.on /\ t.losses <= losses}
TopTier == {t \in Reached : \A u \in Reached : u.losses <= t.losses}

LastTrades(n) == IF Len(recent) <= n THEN recent ELSE SubSeq(recent, Len(recent) - n + 1, Len(recent))
Wins(s) == Cardinality({i \in 1..Len(s) : s[i] = "win"})
WinRateLow ==
  LET s == LastTrades(Window) IN
  Len(recent) >= Window \div 2 /\ Len(s) > 0 /\ Wins(s) * Window < MinWins * Len(s)

(* The checks that start a cooldown, after the tiers', in the code's order. *)
HardChecks ==
  <<"consecutive_losses", "session_drawdown", "daily_drawdown", "daily_profit_cap",
    "rolling_win_rate">>
Trips(r) ==
  \/ r = "consecutive_losses" /\ "tiered" \notin config.on /\ losses >= MaxLosses
  \/ r = "session_drawdown" /\ pnl.session <= -MaxDrawdown
  \/ r = "daily_drawdown" /\ pnl.daily <= -MaxDrawdown
  \/ r = "daily_profit_cap" /\ MaxProfit > 0 /\ pnl.daily >= MaxProfit
  \/ r = "rolling_win_rate" /\ WinRateLow

TicksOf(r) ==
  IF r = "daily_drawdown" THEN ToMidnight
  ELSE IF r = "daily_profit_cap" THEN ToReset ELSE Cooldowns[r]

Outcome(allowed) ==
  verdict' = IF (allowed \/ config.mode = "warn_only") /\ armed = "yes" THEN "order" ELSE "idle"

CooldownBlocks == InCooldown /\ Outcome(FALSE) /\ UNCHANGED cool

TierBlocks ==
  /\ ~InCooldown
  /\ \E t \in TopTier :
       \/ t.action = "halt" /\ cool' = Cooldown(t.ticks, "tiered_loss_halt")
       \/ /\ t.action = "halt_session"
          /\ cool' = Cooldown(MaxOf(t.ticks, SessionHalt), "tiered_loss_halt")
  /\ Outcome(FALSE)

TiersPass == \A t \in TopTier : t.action = "reduce"

CheckBlocks ==
  /\ ~InCooldown /\ TiersPass
  /\ \E i \in 1..Len(HardChecks) :
       /\ Trips(HardChecks[i]) /\ \A j \in 1..(i - 1) : ~Trips(HardChecks[j])
       /\ cool' = Cooldown(TicksOf(HardChecks[i]), HardChecks[i])
  /\ Outcome(FALSE)

ChecksPass == TiersPass /\ \A i \in 1..Len(HardChecks) : ~Trips(HardChecks[i])

(* A stateless filter blocks, or one of the scales is 0. *)
FilterBlocks == ~InCooldown /\ ChecksPass /\ Outcome(FALSE) /\ UNCHANGED cool

EquityBlocks ==
  /\ ~InCooldown /\ ChecksPass /\ Len(recent) >= Lookback
  /\ cool' = Cooldown(Cooldowns["equity_curve_halt"], "equity_curve_halt")
  /\ Outcome(FALSE)

Allows ==
  /\ ~InCooldown /\ ChecksPass /\ \A t \in TopTier : t.scale > 0
  /\ Outcome(TRUE) /\ UNCHANGED cool

Signal ==
  /\ phase = "signals"
  /\ CooldownBlocks \/ TierBlocks \/ CheckBlocks \/ FilterBlocks \/ EquityBlocks \/ Allows
  /\ UNCHANGED <<config, phase, pnl, losses, recent, lock, armed, kill, disk, hour, broker,
                 ghosts, peak, events>>

-------------------------------------------------------------------------------
(* One iteration of the loop *)

(* A fresh kill flag disarms; a stale one is only removed. *)
ReadFlags ==
  /\ phase = "flags" /\ phase' = "poll"
  /\ armed' = IF kill = "fresh" THEN "no" ELSE armed
  /\ kill' = "absent" /\ verdict' = "none"
  /\ UNCHANGED <<config, breaker, disk, hour, broker, ghosts, peak, events>>

(* The account is polled before and after the signals; a poll may fail,   *)
(* and then the breaker hears nothing.                                     *)
Poll ==
  /\ phase \in {"poll", "account"}
  /\ phase' = IF phase = "poll" THEN "signals" ELSE "save"
  /\ SyncBrokerPnl \/ UNCHANGED <<pnl, lock, cool, kill, ghosts, peak>>
  /\ verdict' = "none"
  /\ UNCHANGED <<config, losses, recent, armed, disk, hour, broker, events>>

(* After the signals; or from an error before them, straight to the next   *)
(* iteration.                                                              *)
EndSignals ==
  /\ phase = "signals" /\ phase' \in {"account", "flags"} /\ verdict' = "none"
  /\ UNCHANGED <<config, breaker, armed, kill, disk, hour, broker, ghosts, peak, events>>

(* What of a trip the cooldown in force upholds: a win must not end it. *)
Winnable == {"consecutive_losses", "rolling_win_rate"}
Held == IF cool.reason \in Winnable THEN 0 ELSE MinOf(binding, cool.left)

(* VARIANT: the profit lock is not saved. *)
PersistedUnlocked ==
  [pnl |-> pnl, losses |-> losses, cool |-> cool, lock |-> FreshLock,
   seen |-> seen, top |-> top, told |-> told, binding |-> Held]
Persisted ==
  [pnl |-> pnl, losses |-> losses, cool |-> cool, lock |-> lock,
   seen |-> seen, top |-> top, told |-> told, binding |-> Held]

(* At the start, at the end of an iteration (when something marked the      *)
(* state dirty) and when the service stops; an error is only logged.       *)
Save ==
  /\ \/ phase \in {"boot", "save"} /\ phase' = "flags" /\ UNCHANGED events
     \/ phase \notin {"down", "stop"} /\ phase' = "stop" /\ Event
  /\ disk' \in {disk, Persisted} /\ verdict' = "none"
  /\ UNCHANGED <<config, breaker, armed, kill, hour, broker, ghosts, peak>>

-------------------------------------------------------------------------------
(* The process *)

(* What of a trip outlives the process: all of it while the kill flag is   *)
(* still to be read, else what was saved.                                  *)
SavedBinding == IF disk = None THEN 0 ELSE disk.binding

Crash ==
  /\ phase # "down" /\ phase' = "down"
  /\ (phase = "stop" /\ UNCHANGED events) \/ Event
  /\ pnl' = FreshPnl /\ losses' = 0 /\ recent' = <<>> /\ cool' = NoCooldown /\ lock' = FreshLock
  /\ armed' = "yes" /\ verdict' = "none"
  /\ binding' = IF kill = "fresh" THEN binding ELSE SavedBinding
  /\ UNCHANGED <<config, kill, disk, hour, broker, seen, top, told, peak>>

(* VARIANT: a cooldown under a name the class does not know. *)
HydratedUnnamed(h) ==
  IF h <= -MaxDrawdown THEN [left |-> ToReset, reason |-> "startup"] ELSE NoCooldown
(* hydrate_daily_pnl: h is what the paired fills add up to. *)
Hydrated(h) ==
  IF h <= -MaxDrawdown THEN Cooldown(ToReset, "daily_drawdown_on_startup") ELSE NoCooldown

(* VARIANT: the session's P&L is left to the next poll. *)
RestoredPnlDaily(h) == [session |-> 0, daily |-> IF h = 0 THEN disk.pnl.daily ELSE h]
RestoredPnl(h) == [session |-> disk.pnl.session, daily |-> IF h = 0 THEN disk.pnl.daily ELSE h]

RestoredCool(h) == IF disk.cool.left > 0 THEN disk.cool ELSE Hydrated(h)

(* state.json is there and can be read. *)
Restore(h) ==
  /\ disk # None
  /\ pnl' = RestoredPnl(h) /\ losses' = disk.losses
  /\ cool' = RestoredCool(h) /\ lock' = disk.lock
  /\ seen' = disk.seen /\ top' = disk.top /\ told' = disk.told
  /\ UNCHANGED binding

StartEmpty(h) ==
  /\ pnl' = [session |-> 0, daily |-> h] /\ losses' = 0
  /\ cool' = Hydrated(h) /\ lock' = FreshLock
  /\ seen' = 0 /\ top' = 0 /\ told' = 0
  /\ binding' = IF kill = "fresh" THEN binding ELSE 0

Start ==
  /\ phase = "down" /\ phase' = "boot"
  /\ \E h \in {0, broker} : Restore(h) \/ StartEmpty(h)
  /\ recent' = <<>> /\ armed' = "yes" /\ verdict' = "none"
  /\ UNCHANGED <<config, kill, disk, hour, broker, peak, events>>

-------------------------------------------------------------------------------
(* The methods other hosts call *)

Called(m) == m \in Calls /\ phase = "signals" /\ Event /\ verdict' = "none"

(* VARIANT: any cooldown ends with a win. *)
WinClearsAny == "needWin" \in config.on
WinClears == "needWin" \in config.on /\ cool.reason \in Winnable

RecordTradeResult(p) ==
  /\ Called("record")
  /\ pnl' = [session |-> pnl.session + p, daily |-> pnl.daily + p]
  /\ told' = told + p
  /\ losses' = IF p > 0 THEN 0 ELSE losses + 1
  /\ recent' = LET s == Append(recent, IF p > 0 THEN "win" ELSE "loss") IN
               IF Len(s) > 2 * Window THEN Tail(s) ELSE s
  /\ cool' = IF p > 0 /\ WinClears THEN NoCooldown ELSE cool
  /\ UNCHANGED <<config, phase, lock, armed, kill, disk, hour, broker, seen, top, binding, peak>>

(* reset_session keeps the day's P&L and reset_daily does not; neither ends *)
(* a cooldown.                                                             *)
Reset(daily) ==
  /\ Called("reset")
  /\ pnl' = [session |-> 0, daily |-> IF daily THEN 0 ELSE pnl.daily]
  /\ top' = 0 /\ told' = 0 /\ losses' = 0 /\ lock' = FreshLock
  /\ UNCHANGED <<config, phase, recent, cool, armed, kill, disk, hour, broker, seen, binding, peak>>

(* force_cooldown, or clear_cooldown: the operator overrules the lock too. *)
ForceCooldown ==
  /\ Called("force")
  /\ cool' = Cooldown(Cooldowns["forced"], "forced")
  /\ binding' = MinOf(binding, Cooldowns["forced"])
  /\ UNCHANGED <<config, phase, pnl, losses, recent, lock, armed, kill, disk, hour, broker,
                 seen, top, told, peak>>

ClearCooldown ==
  /\ Called("clear")
  /\ cool' = NoCooldown /\ binding' = 0
  /\ UNCHANGED <<config, phase, pnl, losses, recent, lock, armed, kill, disk, hour, broker,
                 seen, top, told, peak>>

-------------------------------------------------------------------------------
(* The world *)

BrokerMove ==
  /\ Event /\ broker' \in PnLs \ {broker} /\ verdict' = "none"
  /\ UNCHANGED <<config, phase, breaker, armed, kill, disk, hour, ghosts, peak>>

(* The operator arms the adapter - what binds then is the cooldown alone - *)
(* or disarms it; both save the state.                                     *)
Arm ==
  /\ phase = "flags" /\ kill = "absent" /\ armed = "no" /\ Event
  /\ armed' = "yes" /\ binding' = Held /\ verdict' = "none"
  /\ disk' \in {disk, Persisted}
  /\ UNCHANGED <<config, phase, breaker, kill, hour, broker, seen, top, told, peak>>

Disarm ==
  /\ phase = "flags" /\ kill = "absent" /\ armed = "yes" /\ Event
  /\ armed' = "no" /\ verdict' = "none"
  /\ disk' \in {disk, Persisted}
  /\ UNCHANGED <<config, phase, breaker, kill, hour, broker, ghosts, peak>>

Less(n) == MaxOf(n - 1, 0)
Cooler(c) == IF c.left > 1 THEN [left |-> c.left - 1, reason |-> c.reason] ELSE NoCooldown
Older(d) ==
  IF d = None THEN None
  ELSE [pnl |-> d.pnl, losses |-> d.losses, cool |-> Cooler(d.cool), lock |-> d.lock,
        seen |-> d.seen, top |-> d.top, told |-> d.told, binding |-> Less(d.binding)]

(* A tick is long against an iteration and against the flag's TTL.  With   *)
(* the session the broker's realized P&L starts again from 0.              *)
Tick ==
  /\ phase = "down" \/ (phase = "flags" /\ kill = "absent")
  /\ Event
  /\ hour' = (hour + 1) % Day
  /\ cool' = Cooler(cool) /\ disk' = Older(disk)
  /\ binding' = IF kill = "absent" THEN Less(binding) ELSE Less(SavedBinding)
  /\ kill' = IF kill = "absent" THEN "absent" ELSE "stale"
  /\ broker' = IF hour = Day - 1 THEN 0 ELSE broker
  /\ peak' = IF hour = Day - 1 THEN 0 ELSE peak
  /\ verdict' = "none"
  /\ UNCHANGED <<config, phase, pnl, losses, recent, lock, armed, seen, top, told>>

-------------------------------------------------------------------------------
Init ==
  /\ config \in Configs
  /\ phase = "down"
  /\ pnl = FreshPnl /\ losses = 0 /\ recent = <<>> /\ cool = NoCooldown /\ lock = FreshLock
  /\ armed = "yes" /\ kill = "absent" /\ disk = None
  /\ hour = 0 /\ broker = 0 /\ verdict = "none"
  /\ seen = 0 /\ top = 0 /\ told = 0 /\ binding = 0 /\ peak = 0
  /\ events = 0

Next ==
  \/ ReadFlags \/ Poll \/ Signal \/ EndSignals \/ Save
  \/ Crash \/ Start
  \/ \E p \in Results : RecordTradeResult(p)
  \/ \E daily \in BOOLEAN : Reset(daily)
  \/ ForceCooldown \/ ClearCooldown
  \/ BrokerMove \/ Arm \/ Disarm \/ Tick

Spec == Init /\ [][Next]_vars

-------------------------------------------------------------------------------
(* Once the P&L the broker reports has peaked above the activation, either *)
(* the lock has tripped or the P&L last reported is above the floor of that*)
(* peak: what sync_broker_pnl protects, with the peak and the floor that a *)
(* restart restores.                                                       *)
NoGiveBack ==
  phase # "down" /\ top >= Activation
    => lock.state = "locked" \/ 4 * seen > FloorOf(top)

(* While a trip of the profit lock binds - in the process that tripped,    *)
(* after a restart if it was saved, or if its kill flag was still to be    *)
(* read - no signal becomes an order, whatever wins, checks, expiries and  *)
(* restarts follow; only the operator overrules it.                        *)
TripBinds == verdict = "order" /\ config.mode = "enforce" => binding = 0

(* No order follows a session P&L beyond the drawdown, not even between a  *)
(* restart and the first poll that succeeds.                               *)
DrawdownBinds == verdict = "order" /\ config.mode = "enforce" => told > -MaxDrawdown

(* The lock trips only on a give-back that happened: a report at or below  *)
(* the floor of a best P&L past the activation, that the lock was shown    *)
(* since it was last reset - in this process or, with the floor that a     *)
(* restart restored, in an earlier one.                                    *)
TripShown ==
  [][(phase # "down" /\ lock.state = "open" /\ lock'.state = "locked")
       => top' >= Activation /\ 4 * seen' <= FloorOf(top')]_vars

(* The lock trips only in a session whose own P&L reached the activation:  *)
(* circuit_breaker_types.py:142 "once the session's net realized P&L       *)
(* crosses an activation high-water mark", :152 "clears automatically on   *)
(* reset_session() at the 18:00 ET boundary".                              *)
TripEarned ==
  [][(phase # "down" /\ lock.state = "open" /\ lock'.state = "locked")
       => peak' >= Activation]_vars
===============================================================================
