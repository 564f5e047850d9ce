----------------------------- MODULE TrailingStop -----------------------------
(***************************************************************************)
(* The management of an open position's stop: position_monitor, called by  *)
(* the loop once a cycle, looks at the position cache, registers a position*)
(* it has not seen with the trailing stop manager or, when runner_mode is  *)
(* on, with the runner, and moves the broker's stop to what the manager    *)
(* asks for.                                                               *)
(*                                                                         *)
(* A cycle awaits the broker up to six times (pc); between two awaits      *)
(* stops and targets execute, the cache is updated, the API writes an      *)
(* override.  Prices are integers, one unit a tick; ATR multiples are in   *)
(* halves, multipliers in quarters.  The market is not a variable: any     *)
(* price of Prices may be the last close, any working order may execute.   *)
(*                                                                         *)
(* There is one contract, traded with one lot, so that the managers'       *)
(* dictionaries have one key.  The virtual positions and stops that the    *)
(* monitor would take from signals.jsonl do not exist: the attribute it    *)
(* asks for them, virtual_trade_manager.position_tracker, is set by no     *)
(* code, and the error is swallowed.  A definition marked VARIANT is the   *)
(* one after it with one plausible mistake; no action uses it.             *)
(***************************************************************************)
EXTENDS Integers, FiniteSets

CONSTANTS
  None,         \* no value
  Modes,        \* values of runner_mode.enabled to start with
  Prices,       \* last closes
  Brackets,     \* [dir, entry, stop]: what the strategy may trade
  Slips,        \* fill price less the signal's price
  Atrs,         \* ATR of the bars, in ticks; 0: too few bars
  MinMove,      \* min_move_points, in ticks
  Overrides,    \* [trail, act, force, min]: what the API accepts
  RegimeTrail,  \* trail multipliers of REGIME_PRESETS
  MaxOpens,     \* bound: brackets that fill
  MaxOrders,    \* bound: stop orders that are ever placed
  MaxRestarts,  \* bound: restarts of the agent
  MaxEvents     \* bound: partial fills, API calls, expiries, exits

Sides == {"long", "short"}
Phases == {"breakeven", "lock_profit", "tight_trail"}

OverrideRequests == [trail : Nat, act : Nat, force : Phases \cup {None},
                     min : Int \cup {None}]

ASSUME ParametersAssumption ==
  /\ Modes \subseteq BOOLEAN
  /\ Prices \subseteq Int
  /\ Brackets \subseteq [dir : Sides, entry : Int, stop : Int]
  /\ Slips \subseteq Int
  /\ Atrs \subseteq Nat
  /\ MinMove \in Nat
  /\ Overrides \subseteq OverrideRequests
  /\ RegimeTrail \subseteq Nat
ASSUME BoundsAssumption ==
  MaxOpens \in Nat /\ MaxOrders \in Nat /\ MaxRestarts \in Nat /\ MaxEvents \in Nat

(* The phases of config/live/tradovate_paper.yaml: ATR multiples, halves.  *)
Activation == [breakeven |-> 2, lock_profit |-> 4, tight_trail |-> 6]
TrailAtr == [breakeven |-> 0, lock_profit |-> 3, tight_trail |-> 2]

VARIABLES
  (* the broker *)
  net, avg,       \* the account's position and its average price
  stops,          \* working stop orders: [id, side, price, link]
  targets,        \* working bracket targets: [link, side]
  (* what the agent is told of it *)
  live,           \* adapter._live_positions: [net, avg]
  (* the state directory *)
  overrideFile,   \* trailing_stop_override.json
  clearFlag,      \* trailing_stop_clear_override.flag
  (* the service *)
  runnerMode,     \* config: runner_mode.enabled
  mon,            \* _pos_monitor['entry_price']
  trail,          \* _trailing_stop_manager._states
  runner,         \* _runner_manager._states
  override,       \* _trailing_stop_manager._override
  sent,           \* _last_broker_stop
  misses,         \* _stop_order_miss_count
  (* the cycle *)
  pc,             \* the await it is at
  cur,            \* its locals: [dir, entry, price, atr, next]
  move,           \* new_stop
  oid,            \* stop_order_id
  (* history *)
  basis,          \* the registration is sound
  opens, orders, restarts, events   \* the bounded counters

broker == <<net, avg, stops, targets, opens, orders>>
files == <<overrideFile, clearFlag>>
service == <<mon, trail, runner, override, sent, misses>>
cycle == <<pc, cur, move, oid>>
vars == <<broker, live, files, runnerMode, service, cycle, basis, restarts, events>>

Points == {"idle", "fetch", "sync", "register", "find", "modify", "place", "tp", "exit"}

Sgn(dir) == IF dir = "long" THEN 1 ELSE -1
Dir(n) == IF n > 0 THEN "long" ELSE "short"
Closing(dir) == IF dir = "long" THEN "Sell" ELSE "Buy"
Distance(a, b) == IF a > b THEN a - b ELSE b - a

(* Stop a is closer to the market than stop b, for a position in dir.      *)
Tighter(dir, a, b) == Sgn(dir) * a > Sgn(dir) * b

StopsOf(dir) == {s \in stops : s.side = Closing(dir)}

Flat == [net |-> 0, avg |-> 0]
NoCur == [dir |-> "long", entry |-> 0, price |-> 0, atr |-> 0, next |-> "exit"]
StopOrders == [id : Nat, side : {"Sell", "Buy"}, price : Int, link : Nat]
TrailStates == [entry : Int, dir : Sides, stop : Int, best : Int, phase : Phases \cup {None}]
RunnerStates == [entry : Int, dir : Sides, best : Int, atr : Nat \ {0},
                 phase : {"initial", "breakeven", "tight_trail"}]
OverrideStates == [trail : Int, act : Int, force : Phases \cup {None}, min : Int \cup {None},
                   source : {"external", "regime"}, ttl : {"left", "over"}]

ASSUME NoneAssumption ==
  /\ None \notin Int /\ None \notin Phases
  /\ None \notin TrailStates /\ None \notin RunnerStates

TypeOK ==
  /\ net \in Int /\ avg \in Int
  /\ stops \in SUBSET StopOrders
  /\ targets \in SUBSET [link : Nat, side : {"Sell", "Buy"}]
  /\ live \in [net : Int, avg : Int]
  /\ overrideFile \in OverrideRequests \cup {None}
  /\ clearFlag \in BOOLEAN
  /\ runnerMode \in BOOLEAN
  /\ mon \in Int \cup {None}
  /\ trail \in TrailStates \cup {None}
  /\ runner \in RunnerStates \cup {None}
  /\ override \in OverrideStates \cup {None}
  /\ sent \in Int \cup {None}
  /\ misses \in Nat
  /\ pc \in Points
  /\ cur \in [dir : Sides, entry : Int, price : Int, atr : Nat, next : {"tp", "exit"}]
  /\ move \in Int \cup {None}
  /\ oid \in Nat
  /\ basis \in BOOLEAN
  /\ opens \in Nat /\ orders \in Nat /\ restarts \in Nat /\ events \in Nat

Init ==
  /\ net = 0 /\ avg = 0 /\ stops = {} /\ targets = {}
  /\ live = Flat
  /\ overrideFile = None /\ clearFlag = FALSE
  /\ runnerMode \in Modes
  /\ mon = None /\ override = None /\ sent = None /\ misses = 0
  /\ trail = None /\ runner = None
  /\ pc = "idle" /\ cur = NoCur /\ move = None /\ oid = 0
  /\ basis = FALSE
  /\ opens = 0 /\ orders = 0 /\ restarts = 0 /\ events = 0

-----------------------------------------------------------------------------
(* The two managers.                                                       *)

Best(dir, best, price) == IF Tighter(dir, price, best) THEN price ELSE best

(* check_and_update's loop over the phases: those reached and not skipped. *)
Reached(fav, atr, ov) ==
  {p \in Phases : /\ ov.force \in {None, p}
                  /\ fav * 8 >= Activation[p] * ov.act * atr}

Candidate(st, p, atr, ov) ==
  IF p = "breakeven" THEN st.entry + Sgn(st.dir)
  ELSE st.best - Sgn(st.dir) * ((TrailAtr[p] * ov.trail * atr) \div 8)

(* An override of the trail distance alone; the default one changes nothing. *)
Scaled(m, source) == [trail |-> m, act |-> 4, force |-> None, min |-> None,
                      source |-> source, ttl |-> "left"]
Defaults == Scaled(4, "external")

(* VARIANT of MayMove: the ratchet compares with the best price only.      *)
MayMove_NoRatchet(st, stop, min) == Distance(stop, st.stop) >= min

(* The ratchet and the filter of small moves.  last_modified_stop, which   *)
(* the filter reads, is always current_stop.                               *)
MayMove(st, stop, min) ==
  /\ Tighter(st.dir, stop, st.stop)
  /\ Distance(stop, st.stop) >= min

(* check_and_update: the state after it; the stop it returns is the new    *)
(* one when it differs from the old.                                       *)
CheckAndUpdate(st, price, atr, eff) ==
  LET ov == IF eff = None THEN Defaults ELSE eff
      st1 == [st EXCEPT !.best = Best(st.dir, st.best, price)]
      fav == Sgn(st.dir) * (st1.best - st.entry)
      reached == Reached(fav, atr, ov)
      p == CHOOSE q \in reached : \A r \in reached : Activation[r] <= Activation[q]
      stop == Candidate(st1, p, atr, ov)
      min == IF ov.min = None THEN MinMove ELSE ov.min
  IN IF fav > 0 /\ reached # {} /\ MayMove(st, stop, min)
     THEN [st1 EXCEPT !.stop = stop, !.phase = p]
     ELSE st1

RunnerFav(r) == Sgn(r.dir) * (r.best - r.entry)
BreakEven(r) == r.entry + Sgn(r.dir)

(* PartialRunnerState.update: the phase after it.                          *)
RunnerPhase(r) ==
  IF r.phase = "initial" /\ 2 * RunnerFav(r) < 3 * r.atr THEN "initial"
  ELSE IF r.phase # "tight_trail" /\ 2 * RunnerFav(r) < 5 * r.atr THEN "breakeven"
  ELSE "tight_trail"

RunnerUpdate(r, price) ==
  LET r1 == [r EXCEPT !.best = Best(r.dir, r.best, price)]
  IN [r1 EXCEPT !.phase = RunnerPhase(r1)]

(* ... and the stop it returns, r being the state before and n after.      *)
RunnerStop(r, n) ==
  IF n.phase = "tight_trail" THEN n.best - Sgn(n.dir) * n.atr
  ELSE IF n.phase = r.phase THEN None
  ELSE BreakEven(n)

(* VARIANT of RunnerReady: the guard `if atr` is dropped.                  *)
RunnerReady_Always(c) == TRUE

(* A runner is registered only with an ATR, the unit of its distances.     *)
RunnerReady(c) == c.atr > 0

Registered(c, stop) ==
  [entry |-> c.entry, dir |-> c.dir, stop |-> stop, best |-> c.entry, phase |-> None]

(* _find_initial_stop_from_broker without an answer it can use.            *)
DefaultStop(c) ==
  c.entry - Sgn(c.dir) * (IF c.atr > 0 THEN 2 * c.atr ELSE c.entry \div 50)

-----------------------------------------------------------------------------
(* The override files and the regime.                                      *)

(* _ingest_trailing_stop_override; the bounds of the API and of the        *)
(* manager are the same, so clamping changes nothing.                      *)
Ingested ==
  IF overrideFile # None
  THEN [trail |-> overrideFile.trail, act |-> overrideFile.act,
        force |-> overrideFile.force, min |-> overrideFile.min,
        source |-> "external", ttl |-> "left"]
  ELSE IF clearFlag THEN None ELSE override

(* apply_regime_preset: presets may replace ov.                            *)
WithRegime(ov) ==
  {ov} \cup (IF ov = None \/ ov.source = "regime"
             THEN {Scaled(m, "regime") : m \in RegimeTrail}
             ELSE {})

Effective(ov) == IF ov # None /\ ov.ttl = "over" THEN None ELSE ov

-----------------------------------------------------------------------------
(* The cycle.  st and r are the managers' states before the update, which *)
(* follows a registration without an await in between.                     *)

(* The locals that are still read after the managers' update.              *)
Rest(c, next) ==
  [dir |-> c.dir, entry |-> 0, price |-> 0, atr |-> 0, next |-> next]

Idle == pc' = "idle" /\ cur' = NoCur /\ move' = None /\ oid' = 0

(* After the stops: the target, then should_exit of the exit manager.      *)
Leave ==
  \/ Idle
  \/ events < MaxEvents /\ pc' = "exit" /\ cur' = NoCur /\ move' = None /\ oid' = 0

AfterMove(c) ==
  IF c.next = "tp" THEN pc' = "tp" /\ cur' = c /\ move' = None /\ oid' = 0 ELSE Leave

(* Runner mode: one attempt per change, none is repeated.                  *)
TrackRunner(c, r) ==
  IF r = None
  THEN runner' = r /\ Leave
  ELSE LET n == RunnerUpdate(r, c.price) IN
       /\ runner' = n
       /\ IF RunnerStop(r, n) = None THEN Leave
          ELSE /\ pc' = "find"
               /\ cur' = Rest(c, IF r.phase = "initial" THEN "tp" ELSE "exit")
               /\ move' = RunnerStop(r, n)
               /\ oid' = 0

(* VARIANT of OutOfSync: a modification that failed is not tried again.    *)
OutOfSync_Never(st) == FALSE

(* The stop that was sent is not the one the manager holds.                *)
OutOfSync(st) == st.phase # None /\ (sent = None \/ Distance(st.stop, sent) > 1)

TrackTrailing(c, st) ==
  IF c.atr = 0
  THEN trail' = st /\ Leave /\ UNCHANGED <<files, override>>
  ELSE \E ov \in WithRegime(Ingested) :
    /\ overrideFile' = None /\ clearFlag' = FALSE
    /\ IF st = None
       THEN override' = ov /\ trail' = st /\ Leave
       ELSE LET n == CheckAndUpdate(st, c.price, c.atr, Effective(ov)) IN
            /\ override' = Effective(ov)
            /\ trail' = n
            /\ IF n.stop # st.stop \/ OutOfSync(n)
               THEN pc' = "find" /\ cur' = Rest(c, "exit") /\ move' = n.stop /\ oid' = 0
               ELSE Leave

Track(c, st, r) ==
  \/ runnerMode /\ TrackRunner(c, r) /\ trail' = st /\ UNCHANGED <<files, override>>
  \/ ~runnerMode /\ TrackTrailing(c, st) /\ runner' = r

(* What position_monitor takes for the position, l being the cache.        *)
Position(l) ==
  IF l.net # 0 THEN [dir |-> Dir(l.net), entry |-> l.avg]
  ELSE None

CleanUp ==
  /\ mon' = None
  /\ IF mon = None THEN UNCHANGED <<trail, runner, sent, misses>>
     ELSE /\ trail' = None /\ runner' = None
          /\ sent' = None /\ misses' = 0
  /\ UNCHANGED override
  /\ basis' = FALSE
  /\ Idle /\ UNCHANGED files

(* The cycle from the position cache to its next await.                    *)
Look(l) ==
  /\ live' = l
  /\ LET p == Position(l) IN
     IF p = None THEN CleanUp
     ELSE \E price \in Prices, atr \in Atrs :
       LET c == [dir |-> p.dir, entry |-> p.entry,
                 price |-> price, atr |-> atr, next |-> "exit"]
       IN IF mon # p.entry
          THEN /\ mon' = p.entry
               /\ pc' = "register" /\ cur' = c /\ move' = None /\ oid' = 0
               /\ UNCHANGED <<trail, runner, override, sent, misses, files, basis>>
          ELSE Track(c, trail, runner) /\ UNCHANGED <<mon, sent, misses, basis>>

(* No bar, or no price in it: a position is left alone.                    *)
LookWithoutPrice(l) ==
  /\ live' = l /\ Position(l) # None
  /\ Idle /\ UNCHANGED <<service, files, basis>>

(* The loop fetches bars before it looks at the position; the interval of  *)
(* the forced synchronisation has not passed, or it has.                   *)
StartCycle ==
  /\ pc = "idle" /\ pc' = "fetch"
  /\ UNCHANGED <<broker, live, files, runnerMode, service, cur, move, oid, basis,
                 restarts, events>>
FetchReply ==
  /\ pc = "fetch"
  /\ Look(live)
  /\ UNCHANGED <<broker, runnerMode, restarts, events>>
FetchWithoutPrice ==
  /\ pc = "fetch"
  /\ LookWithoutPrice(live)
  /\ UNCHANGED <<broker, runnerMode, restarts, events>>
StartSync ==
  /\ pc = "fetch" /\ pc' = "sync"
  /\ UNCHANGED <<broker, live, files, runnerMode, service, cur, move, oid, basis,
                 restarts, events>>
SyncReply ==
  /\ pc = "sync"
  /\ LET l == [net |-> net, avg |-> avg] IN Look(l) \/ LookWithoutPrice(l)
  /\ UNCHANGED <<broker, runnerMode, restarts, events>>
SyncFail ==
  /\ pc = "sync"
  /\ Look(live) \/ LookWithoutPrice(live)
  /\ UNCHANGED <<broker, runnerMode, restarts, events>>

(* History: a registration is sound when it is made for the position that  *)
(* is there, for a manager that starts anew, and no working stop of the    *)
(* position is closer to the market than that manager will assume.         *)
Basis(c, px) ==
  /\ net # 0 /\ Dir(net) = c.dir
  /\ runnerMode => c.atr > 0
  /\ \A s \in StopsOf(c.dir) : ~Tighter(c.dir, s.price, IF runnerMode THEN BreakEven(c) ELSE px)

Register(px) ==
  /\ pc = "register"
  /\ LET rn == IF runnerMode /\ RunnerReady(cur)
               THEN [entry |-> cur.entry, dir |-> cur.dir, best |-> cur.entry,
                     atr |-> cur.atr, phase |-> "initial"]
               ELSE runner
     IN Track(cur, Registered(cur, px), rn)
  /\ basis' = Basis(cur, px)
  /\ UNCHANGED <<broker, live, runnerMode, mon, sent, misses, restarts, events>>
RegisterReply == \E s \in StopsOf(cur.dir) : Register(s.price)
RegisterFail == Register(DefaultStop(cur))     \* no such order, or no answer

FindReply ==
  /\ pc = "find"
  /\ \E s \in StopsOf(cur.dir) : oid' = s.id
  /\ pc' = "modify"
  /\ UNCHANGED <<broker, live, files, runnerMode, service, cur, move, basis,
                 restarts, events>>

(* No such order, or no answer: both return None.                          *)
FindMiss ==
  /\ pc = "find"
  /\ \/ runnerMode /\ AfterMove(cur) /\ UNCHANGED <<misses, trail>>
     \/ /\ ~runnerMode /\ misses + 1 = 3
        /\ misses' = 3 /\ pc' = "place" /\ UNCHANGED <<trail, cur, move, oid>>
     \/ /\ ~runnerMode /\ misses + 1 \notin {3, 6}
        /\ misses' = misses + 1 /\ AfterMove(cur) /\ UNCHANGED trail
     \/ /\ ~runnerMode /\ misses + 1 = 6
        /\ misses' = 0 /\ trail' = None /\ AfterMove(cur)
  /\ UNCHANGED <<broker, live, files, runnerMode, mon, runner, override, sent,
                 basis, restarts, events>>

(* modify_stop_order.  Without an answer the change may have been made.    *)
Modified == {[s EXCEPT !.price = IF s.id = oid THEN move ELSE @] : s \in stops}

ModifyReply ==
  /\ pc = "modify" /\ \E s \in stops : s.id = oid
  /\ stops' = Modified
  /\ sent' = move
  /\ misses' = IF runnerMode THEN misses ELSE 0
  /\ AfterMove(cur)
  /\ UNCHANGED <<net, avg, targets, opens, orders, live, files, runnerMode, mon, trail,
                 runner, override, basis, restarts, events>>
ModifyFail ==
  /\ pc = "modify"
  /\ stops' \in {stops, Modified}
  /\ AfterMove(cur)
  /\ UNCHANGED <<net, avg, targets, opens, orders, live, files, runnerMode, service,
                 basis, restarts, events>>

(* place_stop_order, with the same two ends.                               *)
Placed == stops \cup {[id |-> orders + 1, side |-> Closing(cur.dir), price |-> move, link |-> 0]}

PlaceReply ==
  /\ pc = "place" /\ orders < MaxOrders
  /\ stops' = Placed /\ orders' = orders + 1
  /\ sent' = move /\ misses' = 0
  /\ AfterMove(cur)
  /\ UNCHANGED <<net, avg, targets, opens, live, files, runnerMode, mon, trail,
                 runner, override, basis, restarts, events>>
PlaceFail ==
  /\ pc = "place"
  /\ \/ UNCHANGED <<stops, orders>>
     \/ orders < MaxOrders /\ stops' = Placed /\ orders' = orders + 1
  /\ AfterMove(cur)
  /\ UNCHANGED <<net, avg, targets, opens, live, files, runnerMode, service,
                 basis, restarts, events>>

(* _find_tp_order_id and cancel_order: whether or not it worked, the       *)
(* runner does not ask again.                                              *)
CancelTarget ==
  /\ pc = "tp"
  /\ targets' \in {targets} \cup {targets \ {t} : t \in {u \in targets : u.side = Closing(cur.dir)}}
  /\ Leave
  /\ UNCHANGED <<net, avg, stops, opens, orders, live, files, runnerMode, service,
                 basis, restarts, events>>

(* flatten_all_positions: a market order; the bracket keeps working.       *)
ExitReply ==
  /\ pc = "exit" /\ Idle
  /\ \/ net' = 0 /\ avg' = 0 /\ basis' = FALSE
     \/ UNCHANGED <<net, avg, basis>>
  /\ events' = events + 1
  /\ UNCHANGED <<stops, targets, opens, orders, live, files, runnerMode, service,
                 restarts>>

-----------------------------------------------------------------------------
(* What happens beside the loop.                                           *)

(* A bracket fills; slip is the difference between the fill and the        *)
(* signal's price.                                                         *)
OpenBracket ==
  /\ opens < MaxOpens /\ orders < MaxOrders /\ net = 0
  /\ \E b \in Brackets, slip \in Slips :
       /\ net' = Sgn(b.dir) /\ avg' = b.entry + slip
       /\ stops' = stops \cup {[id |-> orders + 1, side |-> Closing(b.dir),
                                price |-> b.stop, link |-> opens + 1]}
       /\ targets' = targets \cup {[link |-> opens + 1, side |-> Closing(b.dir)]}
  /\ opens' = opens + 1 /\ orders' = orders + 1
  /\ basis' = FALSE
  /\ UNCHANGED <<live, files, runnerMode, service, cycle, restarts, events>>

Delta(side) == IF side = "Buy" THEN 1 ELSE -1

(* An order of the given side executes at a price; link is its bracket.    *)
Execute(side, price, link, rest) ==
  /\ net' = net + Delta(side)
  /\ avg' = IF net' = 0 THEN 0 ELSE IF net = 0 THEN price ELSE avg
  /\ stops' = {s \in rest : link = 0 \/ s.link # link}
  /\ targets' = {t \in targets : t.link # link}
  /\ basis' = FALSE
  /\ UNCHANGED <<opens, orders, live, files, runnerMode, service, cycle, restarts,
                 events>>

StopFires == \E s \in stops : Execute(s.side, s.price, s.link, stops \ {s})
TargetFills == \E t \in targets, price \in Prices : Execute(t.side, price, t.link, stops)

(* Half of the position filled at another price: the average moves.        *)
PartialFill ==
  /\ net # 0 /\ events < MaxEvents
  /\ avg' = avg + 1 /\ events' = events + 1
  /\ UNCHANGED <<net, stops, targets, opens, orders, live, files, runnerMode, service,
                 cycle, basis, restarts>>

(* The broker cancels or rejects a stop.                                   *)
StopLost ==
  /\ events < MaxEvents /\ events' = events + 1
  /\ \E s \in stops : stops' = stops \ {s}
  /\ UNCHANGED <<net, avg, targets, opens, orders, live, files, runnerMode, service,
                 cycle, basis, restarts>>

(* The WebSocket's position event.                                         *)
Deliver ==
  /\ live # [net |-> net, avg |-> avg]
  /\ live' = [net |-> net, avg |-> avg]
  /\ UNCHANGED <<broker, files, runnerMode, service, cycle, basis, restarts, events>>

PostOverride ==
  /\ events < MaxEvents /\ events' = events + 1
  /\ overrideFile' \in Overrides
  /\ UNCHANGED <<broker, live, clearFlag, runnerMode, service, cycle, basis, restarts>>
DeleteOverride ==
  /\ events < MaxEvents /\ events' = events + 1
  /\ overrideFile' = None /\ clearFlag' = TRUE
  /\ UNCHANGED <<broker, live, runnerMode, service, cycle, basis, restarts>>
OverrideExpires ==
  /\ override # None
  /\ override.source = "external" /\ override.ttl = "left"
  /\ override' = [override EXCEPT !.ttl = "over"]
  /\ UNCHANGED <<broker, live, files, runnerMode, mon, trail, runner, sent, misses,
                 cycle, basis, restarts, events>>

Restart ==
  /\ restarts < MaxRestarts /\ restarts' = restarts + 1
  /\ mon' = None /\ override' = None /\ sent' = None /\ misses' = 0
  /\ trail' = None /\ runner' = None
  /\ live' = Flat /\ basis' = FALSE
  /\ Idle
  /\ UNCHANGED <<broker, files, runnerMode, events>>

Cycle ==
  \/ StartCycle \/ FetchReply \/ FetchWithoutPrice \/ StartSync \/ SyncReply \/ SyncFail
  \/ RegisterReply \/ RegisterFail
  \/ FindReply \/ FindMiss \/ ModifyReply \/ ModifyFail \/ PlaceReply \/ PlaceFail
  \/ CancelTarget \/ ExitReply

Environment ==
  \/ OpenBracket \/ StopFires \/ TargetFills \/ PartialFill
  \/ StopLost \/ Deliver \/ PostOverride \/ DeleteOverride \/ OverrideExpires \/ Restart

Next == Cycle \/ Environment

Spec == Init /\ [][Next]_vars

(* The loop keeps running its cycles, a cycle gets a price now and then,   *)
(* and a broker that is asked again and again answers.                     *)
FairSpec ==
  /\ Spec
  /\ WF_vars(Cycle)
  /\ SF_vars(FetchReply) /\ SF_vars(FindReply) /\ SF_vars(ModifyReply)

-----------------------------------------------------------------------------
(* A stop of the trailing manager that was not sent to the broker, because *)
(* the order was not found or the change failed, is there in the end,      *)
(* unless the position changes, another fill registers it anew             *)
(* (position_monitor.py:124) or six misses end the tracking.               *)
Unsent(st) == st.phase # None /\ (sent = None \/ Distance(sent, st.stop) > 1)
Watched == /\ ~runnerMode /\ basis /\ live = [net |-> net, avg |-> avg]
           /\ mon = avg /\ trail # None
Arrived == \/ ~basis \/ mon # avg \/ trail = None \/ trail.phase = None
           \/ \E s \in stops : s.price = trail.stop

(* ... when what was last sent is what the broker has                      *)
(* (the retry of position_monitor.py:231).                                 *)
StopArrives ==
  (/\ Watched /\ Unsent(trail)
   /\ sent # None => \E s \in StopsOf(Dir(net)) : s.price = sent) ~> Arrived

(* The working stop is only moved towards the market, from a registration  *)
(* that saw it until the position changes (trailing_stop.py:11, the runner *)
(* and the retries of position_monitor).                                   *)
Loosens ==
  \E s \in StopsOf(Dir(net)), t \in stops' : s.id = t.id /\ Tighter(Dir(net), s.price, t.price)
BrokerRatchet == [][Loosens => ~basis]_vars

=============================================================================
