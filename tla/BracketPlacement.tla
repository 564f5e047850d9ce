--------------------------- MODULE BracketPlacement ---------------------------
(***************************************************************************)
(* TradovateExecutionAdapter.place_bracket: how one trading signal becomes *)
(* one bracket order at the broker.  The code is a coroutine: it runs      *)
(* without interruption between two awaits, so a step of this module is    *)
(* the code from one await to the next, and everything else (WebSocket     *)
(* events, fills, the operator, the clock, a second call) may happen       *)
(* between two steps of a call.                                            *)
(*                                                                         *)
(* Abstractions.  One contract is traded (the whitelist holds one symbol), *)
(* orders have the size max_position_size_per_order = 1, the mode is paper *)
(* or live (dry_run never reaches the broker), and the clock is reduced to *)
(* the windows the code compares it with.                                  *)
(*                                                                         *)
(* A definition marked VARIANT is the one after it with one plausible      *)
(* mistake; no action uses it.  PROJECT.json pairs it with the property    *)
(* that tells the two apart.                                               *)
(***************************************************************************)
EXTENDS Integers, FiniteSets, Sequences

CONSTANTS
  Callers,          \* tasks that may be inside place_bracket at one time
  SignalIds,        \* values of signal["signal_id"]
  Types,            \* values of signal["type"], the key of the cooldown
  NoSignal, NoType, \* what an idle caller holds
  MaxPositions,     \* config.max_positions
  MaxOrdersPerDay,  \* config.max_orders_per_day
  AllowReversal,    \* config.allow_reversal_on_opposite_signal
  MaxCalls,         \* bound: calls of place_bracket in a behaviour
  MaxEnv,           \* bound: operator, day and connection events
  MaxEvents         \* bound: position events waiting in the WebSocket

ASSUME CallersAssumption == IsFiniteSet(Callers) /\ Callers # {}
ASSUME IdleAssumption == NoSignal \notin SignalIds /\ NoType \notin Types
ASSUME LimitsAssumption ==
  /\ MaxPositions \in Nat \ {0}       \* ExecutionConfig.from_dict rejects <= 0
  /\ MaxOrdersPerDay \in Nat \ {0}
  /\ AllowReversal \in BOOLEAN
ASSUME BoundsAssumption == MaxCalls \in Nat /\ MaxEnv \in Nat /\ MaxEvents \in Nat

Directions == {"long", "short"}
Opposite(dir) == IF dir = "long" THEN "short" ELSE "long"
Sign(dir) == IF dir = "long" THEN 1 ELSE -1
Abs(n) == IF n < 0 THEN -n ELSE n

(* existing_dir != direction, for a broker position v that is not flat     *)
IsOpposite(v, dir) == IF dir = "long" THEN v < 0 ELSE v > 0

VARIABLES
  (* ExecutionAdapter *)
  armed,         \* _armed
  ordersToday,   \* _orders_today
  lossHit,       \* _daily_pnl <= -max_daily_loss
  cooling,       \* types whose _last_order_time is within cooldown_seconds
  (* TradovateExecutionAdapter *)
  executed,      \* keys of _executed_signal_ids within _SIGNAL_DEDUP_TTL
  livePos,       \* _live_positions: the cached net position, 0 when absent
  cacheAge,      \* age of the cache: <= 2 s, <= _POSITION_CACHE_TTL, older
  pending,       \* _pending_orders_count
  conn,          \* is_connected()
  contract,      \* _contract_symbol is resolved
  sync,          \* get_positions(force_rest=True) in flight: <<the reply>>
  call,          \* the local state of each call of place_bracket
  (* the broker *)
  pos,           \* net position
  working,       \* contracts of accepted, not yet filled market orders
  wire,          \* requests given up by their caller, fate unknown
  wsQueue,       \* position events on their way to _handle_ws_event
  (* history *)
  sends,         \* orders sent for each signal id while it was remembered
  strays,        \* orders sent while disarmed, since the last arm()
  calls, env     \* the bounded counters

adapterVars == <<armed, ordersToday, lossHit, cooling, executed, livePos,
                 cacheAge, pending, conn, contract, sync>>
brokerVars == <<pos, working, wire, wsQueue>>
vars == <<armed, ordersToday, lossHit, cooling, executed, livePos, cacheAge,
          pending, conn, contract, sync, call, pos, working, wire, wsQueue,
          sends, strays, calls, env>>

(* Where a call waits.  "idle" is a caller with no call of place_bracket.  *)
Stages == {"idle", "positions", "positionsRead", "flattenList", "flattenOrder",
           "resolve", "oso", "osoAccepted", "osoRefused"}

(* The call has incremented _pending_orders_count and not yet returned it. *)
OsoStages == {"oso", "osoAccepted", "osoRefused"}

(* A call's locals.  view is total_abs_pos with its sign, what the guard    *)
(* saw of the broker; seen says that it saw it (history), settled that at   *)
(* the first step nothing was outstanding at the broker and the cache was   *)
(* older than its TTL (history); liq is the position a flatten listed;      *)
(* flattened says that the reversal's flatten returned success.             *)
Idle ==
  [pc |-> "idle", sid |-> NoSignal, type |-> NoType, dir |-> "long",
   tight |-> FALSE, view |-> 0, seen |-> FALSE, settled |-> FALSE, liq |-> 0,
   flattened |-> FALSE]

Active == {c \in Callers : call[c].pc # "idle"}
InFlight == {c \in Callers : call[c].pc \in OsoStages}

ActiveCalls ==
  [pc : Stages \ {"idle"}, sid : SignalIds, type : Types, dir : Directions,
   tight : BOOLEAN, view : Int, seen : BOOLEAN, settled : BOOLEAN, liq : Int,
   flattened : BOOLEAN]

TypeOK ==
  /\ armed \in BOOLEAN
  /\ ordersToday \in Nat
  /\ lossHit \in BOOLEAN
  /\ cooling \in SUBSET Types
  /\ executed \in SUBSET SignalIds
  /\ livePos \in Int
  /\ cacheAge \in {"fresh", "recent", "stale"}
  /\ pending \in Nat
  /\ conn \in BOOLEAN
  /\ contract \in BOOLEAN
  /\ sync \in Seq(Int)
  /\ call \in [Callers -> ActiveCalls \cup {Idle}]
  /\ pos \in Int
  /\ working \in [Directions -> Nat]
  /\ wire \in [Directions -> Nat]
  /\ wsQueue \in Seq(Int)
  /\ sends \in [SignalIds -> Nat]
  /\ strays \in Nat
  /\ calls \in Nat
  /\ env \in Nat

(* The adapter right after connect(): disarmed unless the configuration    *)
(* arms it, no cached position and _live_positions_updated_at = 0.0; the   *)
(* account may already hold a position left by the previous process.       *)
Init ==
  /\ armed \in BOOLEAN
  /\ ordersToday = 0
  /\ lossHit = FALSE
  /\ cooling = {}
  /\ executed = {}
  /\ livePos = 0
  /\ cacheAge = "stale"
  /\ pending = 0
  /\ conn = TRUE
  /\ contract \in BOOLEAN
  /\ sync = <<>>
  /\ call = [c \in Callers |-> Idle]
  /\ pos \in {-1, 0, 1}
  /\ working = [d \in Directions |-> 0]
  /\ wire = [d \in Directions |-> 0]
  /\ wsQueue = <<>>
  /\ sends = [s \in SignalIds |-> 0]
  /\ strays = 0
  /\ calls = 0
  /\ env = 0

-------------------------------------------------------------------------------
(* The parts of the code between two awaits.                               *)

(* Every return: what the ExecutionResult says is left out.                *)
Return(c) == call' = [call EXCEPT ![c] = Idle]

(* "if pending_incremented: ... max(0, self._pending_orders_count - 1)"    *)
ReleasePending == pending' = IF pending > 0 THEN pending - 1 ELSE 0

(* VARIANT: the daily limit off by one                                     *)
PreconditionsOffByOne(type) ==
  /\ armed
  /\ ordersToday <= MaxOrdersPerDay
  /\ ~lossHit
  /\ type \notin cooling

(* VARIANT: the preconditions without the armed flag                       *)
PreconditionsUnarmed(type) ==
  /\ ordersToday < MaxOrdersPerDay
  /\ ~lossHit
  /\ type \notin cooling

(* check_preconditions, in its order: armed, daily order limit, daily loss,*)
(* cooldown.  The prices and the size of the signal are well formed and    *)
(* _positions is never filled by this adapter, so its limit never bites.   *)
Preconditions(type) ==
  /\ armed
  /\ ordersToday < MaxOrdersPerDay
  /\ ~lossHit
  /\ type \notin cooling

(* Check 6 disarms when it is the one that refuses.                        *)
LossDisarms == armed /\ ordersToday < MaxOrdersPerDay /\ lossHit

(* VARIANT: the signal not marked as executed before the request           *)
SendUnmarked(c, sig) ==
  \/ /\ sig.tight
     /\ Return(c)
     /\ UNCHANGED <<executed, pending, sends, strays>>
  \/ /\ ~sig.tight
     /\ UNCHANGED executed
     /\ pending' = pending + 1
     /\ call' = [call EXCEPT ![c] = [sig EXCEPT !.pc = "oso"]]
     /\ sends' = [sends EXCEPT ![sig.sid] = @ + 1]
     /\ strays' = IF armed THEN strays ELSE strays + 1

(* Distance checks, then "mark signal as executed BEFORE placing", then    *)
(* the pending counter (its lock is free: nothing awaits while holding it) *)
(* and the request.                                                        *)
Send(c, sig) ==
  \/ /\ sig.tight
     /\ Return(c)
     /\ UNCHANGED <<executed, pending, sends, strays>>
  \/ /\ ~sig.tight
     /\ executed' = executed \cup {sig.sid}
     /\ pending' = pending + 1
     /\ call' = [call EXCEPT ![c] = [sig EXCEPT !.pc = "oso"]]
     /\ sends' = [sends EXCEPT ![sig.sid] = @ + 1]
     /\ strays' = IF armed THEN strays ELSE strays + 1

(* VARIANT: the size limit off by one                                      *)
RefusalOffByOne(view) ==
  IF pending >= MaxPositions THEN "pendingLimit"
  ELSE IF Abs(view) > MaxPositions THEN "maxSize"
  ELSE IF ~conn THEN "notConnected"
  ELSE "none"

(* What the guard answers once no opposite position is in the way.  The    *)
(* size is the one computed before a flatten.                              *)
Refusal(view) ==
  IF pending >= MaxPositions THEN "pendingLimit"
  ELSE IF Abs(view) >= MaxPositions THEN "maxSize"
  ELSE IF ~conn THEN "notConnected"
  ELSE "none"

PastDirection(c, sig) ==
  \/ /\ Refusal(sig.view) # "none"
     /\ Return(c)
     /\ UNCHANGED <<executed, pending, sends, strays>>
  \/ /\ Refusal(sig.view) = "none"
     /\ ~contract
     /\ call' = [call EXCEPT ![c] = [sig EXCEPT !.pc = "resolve"]]
     /\ UNCHANGED <<executed, pending, sends, strays>>
  \/ /\ Refusal(sig.view) = "none"
     /\ contract
     /\ Send(c, sig)

(* The loop over the active broker positions.  A reversal calls            *)
(* flatten_all_positions, which disarms first of all.                      *)
Guard(c, sig) ==
  \/ /\ IsOpposite(sig.view, sig.dir)
     /\ ~AllowReversal
     /\ Return(c)
     /\ UNCHANGED <<armed, executed, pending, sends, strays>>
  \/ /\ IsOpposite(sig.view, sig.dir)
     /\ AllowReversal
     /\ armed' = FALSE
     /\ call' = [call EXCEPT ![c] = IF conn
                                      THEN [sig EXCEPT !.pc = "flattenList"]
                                      ELSE Idle]
     /\ UNCHANGED <<executed, pending, sends, strays>>
  \/ /\ ~IsOpposite(sig.view, sig.dir)
     /\ UNCHANGED armed
     /\ PastDirection(c, sig)

-------------------------------------------------------------------------------
(* The first step of a call: dedup guard, preconditions, position cache.   *)

Settled ==
  /\ \A d \in Directions : working[d] = 0 /\ wire[d] = 0
  /\ cacheAge = "stale"

MayStart(c) ==
  /\ call[c].pc = "idle"
  /\ calls < MaxCalls
  /\ sync = <<>>          \* the service's loop awaits the two in turn
  /\ calls' = calls + 1
  /\ UNCHANGED env

(* "DEDUP GUARD: ... rejecting duplicate"                                  *)
StartDuplicate(c, sid) ==
  /\ MayStart(c)
  /\ sid \in executed
  /\ Return(c)
  /\ UNCHANGED <<adapterVars, brokerVars, sends, strays>>

StartRefused(c, sid, type) ==
  /\ MayStart(c)
  /\ sid \notin executed
  /\ ~Preconditions(type)
  /\ armed' = (armed /\ ~LossDisarms)
  /\ Return(c)
  /\ UNCHANGED <<ordersToday, lossHit, cooling, executed, livePos, cacheAge,
                 pending, conn, contract, sync, brokerVars, sends, strays>>

(* A cache older than the TTL is cleared; an empty cache that the          *)
(* WebSocket did not refresh within 2 s is checked against REST.           *)
Cached == IF cacheAge = "stale" THEN 0 ELSE livePos

NeedsRest == Cached = 0 /\ cacheAge # "fresh" /\ conn

NewCall(sid, type, dir, tight) ==
  [pc |-> "positions", sid |-> sid, type |-> type, dir |-> dir,
   tight |-> tight, view |-> 0, seen |-> FALSE, settled |-> Settled, liq |-> 0,
   flattened |-> FALSE]

StartWithRest(c, sid, type, dir, tight) ==
  /\ MayStart(c)
  /\ sid \notin executed
  /\ Preconditions(type)
  /\ NeedsRest
  /\ livePos' = Cached
  /\ call' = [call EXCEPT ![c] = NewCall(sid, type, dir, tight)]
  /\ UNCHANGED <<armed, ordersToday, lossHit, cooling, executed, cacheAge,
                 pending, conn, contract, sync, brokerVars, sends, strays>>

StartWithCache(c, sid, type, dir, tight) ==
  /\ MayStart(c)
  /\ sid \notin executed
  /\ Preconditions(type)
  /\ ~NeedsRest
  /\ livePos' = Cached
  /\ Guard(c, [NewCall(sid, type, dir, tight) EXCEPT
                 !.view = Cached,
                 !.seen = (Cached # 0 \/ cacheAge = "fresh")])
  /\ UNCHANGED <<ordersToday, lossHit, cooling, cacheAge, conn, contract, sync,
                 brokerVars>>

-------------------------------------------------------------------------------
(* Later steps of a call.                                                  *)

(* await self._client.get_positions() in the guard: the snapshot the       *)
(* broker took may be older than its arrival.                              *)
PositionsReply(c) ==
  /\ call[c].pc = "positionsRead"
  /\ Guard(c, call[c])
  /\ UNCHANGED <<ordersToday, lossHit, cooling, livePos, cacheAge, conn,
                 contract, sync, brokerVars, calls, env>>

(* VARIANT: fail open: an unanswered position check taken for a flat account*)
PositionsFailOpen(c) ==
  /\ call[c].pc \in {"positions", "positionsRead"}
  /\ Guard(c, [call[c] EXCEPT !.view = 0])
  /\ UNCHANGED <<ordersToday, lossHit, cooling, livePos, cacheAge, conn,
                 contract, sync, brokerVars, calls, env>>

(* "REJECTING signal for safety (cannot verify broker state)"              *)
PositionsFail(c) ==
  /\ call[c].pc \in {"positions", "positionsRead"}
  /\ Return(c)
  /\ UNCHANGED <<adapterVars, brokerVars, sends, strays, calls, env>>

(* The end of the reversal branch: the cache is emptied, the checks go on. *)
Flattened(c) ==
  /\ livePos' = 0
  /\ cacheAge' = "stale"
  /\ PastDirection(c, [call[c] EXCEPT !.flattened = TRUE])

(* liquidate_all_positions: list the positions ...                         *)
FlattenListReply(c) ==
  /\ call[c].pc = "flattenList"
  /\ IF pos = 0
       THEN Flattened(c)
       ELSE /\ call' = [call EXCEPT ![c].pc = "flattenOrder", ![c].liq = pos]
            /\ UNCHANGED <<livePos, cacheAge, executed, pending, sends, strays>>
  /\ UNCHANGED <<armed, ordersToday, lossHit, cooling, conn, contract, sync,
                 brokerVars, calls, env>>

FlattenListFail(c) ==
  /\ call[c].pc = "flattenList"
  /\ Return(c)
  /\ UNCHANGED <<adapterVars, brokerVars, sends, strays, calls, env>>

(* VARIANT: abs() forgotten when the positions are sold or bought back     *)
FlattenOrderSigned(c, accepted) ==
  /\ call[c].pc = "flattenOrder"
  /\ LET dir == IF call[c].liq > 0 THEN "short" ELSE "long"
     IN  working' = IF accepted
                      THEN [working EXCEPT ![dir] = @ + call[c].liq]
                      ELSE working
  /\ Flattened(c)
  /\ UNCHANGED <<armed, ordersToday, lossHit, cooling, conn, contract, sync,
                 pos, wire, wsQueue, calls, env>>

(* ... then sell or buy each back at market.  A failed order is logged and *)
(* counted among the liquidated ones: the flatten succeeds all the same.   *)
FlattenOrder(c, accepted) ==
  /\ call[c].pc = "flattenOrder"
  /\ LET dir == IF call[c].liq > 0 THEN "short" ELSE "long"
     IN  working' = IF accepted
                      THEN [working EXCEPT ![dir] = @ + Abs(call[c].liq)]
                      ELSE working
  /\ Flattened(c)
  /\ UNCHANGED <<armed, ordersToday, lossHit, cooling, conn, contract, sync,
                 pos, wire, wsQueue, calls, env>>

ResolveReply(c) ==
  /\ call[c].pc = "resolve"
  /\ contract' = TRUE
  /\ Send(c, call[c])
  /\ UNCHANGED <<armed, ordersToday, lossHit, cooling, livePos, cacheAge, conn,
                 sync, brokerVars, calls, env>>

ResolveFail(c) ==
  /\ call[c].pc = "resolve"
  /\ Return(c)
  /\ UNCHANGED <<adapterVars, brokerVars, sends, strays, calls, env>>

(* place_oso answered with an order id: increment_order_count              *)
OsoPlaced(c) ==
  /\ call[c].pc = "osoAccepted"
  /\ ordersToday' = ordersToday + 1
  /\ cooling' = cooling \cup {call[c].type}
  /\ ReleasePending
  /\ Return(c)
  /\ UNCHANGED <<armed, lossHit, executed, livePos, cacheAge, conn, contract,
                 sync, brokerVars, sends, strays, calls, env>>

(* an answer without an order id, an unexpected answer or an API error     *)
OsoRejected(c) ==
  /\ call[c].pc = "osoRefused"
  /\ ReleasePending
  /\ Return(c)
  /\ UNCHANGED <<armed, ordersToday, lossHit, cooling, executed, livePos,
                 cacheAge, conn, contract, sync, brokerVars, sends, strays,
                 calls, env>>

(* VARIANT: the timeout's way out without the finally clause               *)
OsoAbandonedLeaks(c) ==
  /\ call[c].pc \in OsoStages
  /\ wire' = IF call[c].pc = "oso"
                THEN [wire EXCEPT ![call[c].dir] = @ + 1] ELSE wire
  /\ Return(c)
  /\ UNCHANGED <<armed, ordersToday, lossHit, cooling, executed, livePos,
                 cacheAge, pending, conn, contract, sync, pos, working, wsQueue,
                 sends, strays, calls, env>>

(* asyncio.timeout(15), or the task is cancelled: the request is given up, *)
(* not retried, and may still reach the broker.                            *)
OsoAbandoned(c) ==
  /\ call[c].pc \in OsoStages
  /\ wire' = IF call[c].pc = "oso"
                THEN [wire EXCEPT ![call[c].dir] = @ + 1] ELSE wire
  /\ ReleasePending
  /\ Return(c)
  /\ UNCHANGED <<armed, ordersToday, lossHit, cooling, executed, livePos,
                 cacheAge, conn, contract, sync, pos, working, wsQueue, sends,
                 strays, calls, env>>

-------------------------------------------------------------------------------
(* The broker.                                                             *)

BrokerReads(c) ==
  /\ call[c].pc = "positions"
  /\ call' = [call EXCEPT ![c] = [@ EXCEPT !.pc = "positionsRead",
                                          !.view = pos, !.seen = TRUE]]
  /\ UNCHANGED <<adapterVars, brokerVars, sends, strays, calls, env>>

BrokerAccepts(c) ==
  /\ call[c].pc = "oso"
  /\ working' = [working EXCEPT ![call[c].dir] = @ + 1]
  /\ call' = [call EXCEPT ![c].pc = "osoAccepted"]
  /\ UNCHANGED <<adapterVars, pos, wire, wsQueue, sends, strays, calls, env>>

BrokerRefuses(c) ==
  /\ call[c].pc = "oso"
  /\ call' = [call EXCEPT ![c].pc = "osoRefused"]
  /\ UNCHANGED <<adapterVars, brokerVars, sends, strays, calls, env>>

WireArrives(dir, accepted) ==
  /\ wire[dir] > 0
  /\ wire' = [wire EXCEPT ![dir] = @ - 1]
  /\ working' = IF accepted THEN [working EXCEPT ![dir] = @ + 1] ELSE working
  /\ UNCHANGED <<adapterVars, call, pos, wsQueue, sends, strays, calls, env>>

(* A change of the position and its "props" event.                         *)
PositionBecomes(p) ==
  /\ Len(wsQueue) < MaxEvents
  /\ pos' = p
  /\ wsQueue' = Append(wsQueue, p)

Fill(dir) ==
  /\ working[dir] > 0
  /\ working' = [working EXCEPT ![dir] = @ - 1]
  /\ PositionBecomes(pos + Sign(dir))
  /\ UNCHANGED <<adapterVars, call, wire, sends, strays, calls, env>>

(* A bracket leg (stop or target) closes a contract.                       *)
BracketExit ==
  /\ pos # 0
  /\ PositionBecomes(IF pos > 0 THEN pos - 1 ELSE pos + 1)
  /\ UNCHANGED <<adapterVars, call, working, wire, sends, strays, calls, env>>

-------------------------------------------------------------------------------
(* The adapter's other tasks, and time.                                    *)

(* _handle_ws_event, entityType "position"                                 *)
WsDeliver ==
  /\ wsQueue # <<>>
  /\ livePos' = Head(wsQueue)
  /\ cacheAge' = "fresh"
  /\ wsQueue' = Tail(wsQueue)
  /\ UNCHANGED <<armed, ordersToday, lossHit, cooling, executed, pending, conn,
                 contract, sync, call, pos, working, wire, sends, strays, calls,
                 env>>

CacheAges ==
  /\ cacheAge # "stale"
  /\ cacheAge' = IF cacheAge = "fresh" THEN "recent" ELSE "stale"
  /\ UNCHANGED <<armed, ordersToday, lossHit, cooling, executed, livePos,
                 pending, conn, contract, sync, call, brokerVars, sends, strays,
                 calls, env>>

(* The TTL of the dedup guard is far longer than a call can last.          *)
DedupExpires(sid) ==
  /\ sid \in executed
  /\ \A c \in Callers : call[c].sid # sid
  /\ executed' = executed \ {sid}
  /\ sends' = [sends EXCEPT ![sid] = 0]
  /\ UNCHANGED <<armed, ordersToday, lossHit, cooling, livePos, cacheAge,
                 pending, conn, contract, sync, call, brokerVars, strays, calls,
                 env>>

CooldownExpires(type) ==
  /\ type \in cooling
  /\ cooling' = cooling \ {type}
  /\ UNCHANGED <<armed, ordersToday, lossHit, executed, livePos, cacheAge,
                 pending, conn, contract, sync, call, brokerVars, sends, strays,
                 calls, env>>

(* get_positions(force_rest=True), every 30 s from the position monitor:   *)
(* the snapshot is taken at the broker, the cache replaced when it arrives.*)
SyncRequest ==
  /\ Active = {}
  /\ sync = <<>>
  /\ conn
  /\ sync' = <<pos>>
  /\ UNCHANGED <<armed, ordersToday, lossHit, cooling, executed, livePos,
                 cacheAge, pending, conn, contract, call, brokerVars, sends,
                 strays, calls, env>>

SyncReply ==
  /\ sync # <<>>
  /\ livePos' = Head(sync)
  /\ cacheAge' = "fresh"
  /\ sync' = <<>>
  /\ UNCHANGED <<armed, ordersToday, lossHit, cooling, executed, pending, conn,
                 contract, call, brokerVars, sends, strays, calls, env>>

SyncFail ==
  /\ sync # <<>>
  /\ sync' = <<>>
  /\ UNCHANGED <<armed, ordersToday, lossHit, cooling, executed, livePos,
                 cacheAge, pending, conn, contract, call, brokerVars, sends,
                 strays, calls, env>>

(* Events of the environment, MaxEnv of them.                              *)
Event == env < MaxEnv /\ env' = env + 1

(* The operator's flags and the day's reset are handled by the service's   *)
(* loop between two signals.                                               *)
Arm ==
  /\ Event
  /\ Active = {}
  /\ armed' = TRUE
  /\ strays' = 0
  /\ UNCHANGED <<ordersToday, lossHit, cooling, executed, livePos, cacheAge,
                 pending, conn, contract, sync, call, brokerVars, sends, calls>>

(* disarm() also comes from a background task that gave up.                *)
Disarm ==
  /\ Event
  /\ armed
  /\ armed' = FALSE
  /\ UNCHANGED <<ordersToday, lossHit, cooling, executed, livePos, cacheAge,
                 pending, conn, contract, sync, call, brokerVars, sends, strays,
                 calls>>

(* reset_daily_counters *)
DayReset ==
  /\ Event
  /\ Active = {}
  /\ ordersToday' = 0
  /\ lossHit' = FALSE
  /\ cooling' = {}
  /\ UNCHANGED <<armed, executed, livePos, cacheAge, pending, conn, contract,
                 sync, call, brokerVars, sends, strays, calls>>

(* update_daily_pnl takes the day's result past the limit, or back.        *)
DailyPnl ==
  /\ Event
  /\ Active = {}
  /\ lossHit' = ~lossHit
  /\ UNCHANGED <<armed, ordersToday, cooling, executed, livePos, cacheAge,
                 pending, conn, contract, sync, call, brokerVars, sends, strays,
                 calls>>

Connection ==
  /\ Event
  /\ conn' = ~conn
  /\ UNCHANGED <<armed, ordersToday, lossHit, cooling, executed, livePos,
                 cacheAge, pending, contract, sync, call, brokerVars, sends,
                 strays, calls>>

(* The socket closes: the events on their way are gone.                    *)
WsDrop ==
  /\ Event
  /\ wsQueue # <<>>
  /\ wsQueue' = <<>>
  /\ UNCHANGED <<adapterVars, call, pos, working, wire, sends, strays, calls>>

-------------------------------------------------------------------------------
Start(c) ==
  \E sid \in SignalIds, type \in Types :
    \/ StartDuplicate(c, sid)
    \/ StartRefused(c, sid, type)
    \/ \E dir \in Directions, tight \in BOOLEAN :
         \/ StartWithRest(c, sid, type, dir, tight)
         \/ StartWithCache(c, sid, type, dir, tight)

(* What a call that waits is waiting for.                                  *)
Advance(c) ==
  \/ PositionsReply(c)
  \/ PositionsFail(c)
  \/ FlattenListReply(c)
  \/ FlattenListFail(c)
  \/ \E accepted \in BOOLEAN : FlattenOrder(c, accepted)
  \/ ResolveReply(c)
  \/ ResolveFail(c)
  \/ OsoPlaced(c)
  \/ OsoRejected(c)
  \/ OsoAbandoned(c)

Broker ==
  \/ \E c \in Callers : BrokerReads(c) \/ BrokerAccepts(c) \/ BrokerRefuses(c)
  \/ \E d \in Directions, accepted \in BOOLEAN : WireArrives(d, accepted)
  \/ \E d \in Directions : Fill(d)
  \/ BracketExit

Background ==
  \/ WsDeliver
  \/ CacheAges
  \/ \E sid \in SignalIds : DedupExpires(sid)
  \/ \E type \in Types : CooldownExpires(type)
  \/ SyncRequest
  \/ SyncReply
  \/ SyncFail

Environment == Arm \/ Disarm \/ DayReset \/ DailyPnl \/ Connection \/ WsDrop

Next ==
  \/ \E c \in Callers : Start(c) \/ Advance(c)
  \/ Broker
  \/ Background
  \/ Environment

Spec == Init /\ [][Next]_vars

-------------------------------------------------------------------------------
(* The counter of in-flight orders, which refuses signals when it reaches  *)
(* max_positions, counts the calls inside place_oso and nothing else: no   *)
(* way out of a call leaks an increment, and the max(0, ..) never hides a  *)
(* decrement too many.                                                     *)
PendingIsInFlight == pending = Cardinality(InFlight)

(* check_preconditions tests _orders_today before the awaits and           *)
(* increment_order_count runs after them: each call that overlaps another  *)
(* may exceed the daily limit by one, and no more than that.               *)
DailyLimit == ordersToday <= MaxOrdersPerDay + Cardinality(Callers) - 1

(* _executed_signal_ids is tested before the awaits and filled after them: *)
(* each of the calls that overlap may send the order of one signal, once,  *)
(* and no call that starts later within the TTL does.                      *)
SendsBounded == \A sid \in SignalIds : sends[sid] <= Cardinality(Callers)

(* Within its TTL the dedup guard lets one order per signal id reach the   *)
(* broker, whatever became of the first one (timeout, refusal).            *)
NoDoubleSend == \A sid \in SignalIds : sends[sid] <= 1

(* An order goes out only on a broker position that was seen, that leaves  *)
(* room under max_positions and that is not opposite to the order, unless  *)
(* the opposite position was flattened first.                              *)
SentOnSeenRoom ==
  \A c \in InFlight :
    /\ call[c].seen
    /\ Abs(call[c].view) < MaxPositions
    /\ IsOpposite(call[c].view, call[c].dir) => call[c].flattened

(* After a disarm the calls already past their preconditions may still     *)
(* send, each at most once, until the operator arms again.                 *)
StraysBounded == strays <= Cardinality(Callers)

(* A lone call that starts with nothing outstanding at the broker and a    *)
(* cache past its TTL, and that does not reverse, keeps the account within *)
(* max_positions, fills, exits and stale events notwithstanding.           *)
SettledOrderFits ==
  \A c \in InFlight :
    (call[c].settled /\ ~call[c].flattened) =>
      Abs(pos) + working["long"] + working["short"]
        + (IF call[c].pc = "oso" THEN 1 ELSE 0) <= MaxPositions

-------------------------------------------------------------------------------
(* The orders requested and not yet answered, as their callers see them.   *)
Requests == {[sid |-> call[c].sid, type |-> call[c].type] : c \in InFlight}

(* For a lone caller the awaits of place_bracket open no gap between a     *)
(* test and its use, nor between an answer and its bookkeeping: every step *)
(* of the code is one step of OrderDesk, or none.                          *)
Desk == INSTANCE OrderDesk WITH
  remembered <- executed,
  today <- ordersToday,
  requests <- Requests

DeskSpec == Desk!Spec
===============================================================================
