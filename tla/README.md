# A TLA+ verification of pearl-algo

pearl-algo is an automated trading service for one futures contract (MNQ):
bars come from IBKR, a strategy turns them into signals, signals become bracket
orders at Tradovate, and a web API shows the state and takes the operator's
commands.  This directory holds TLA+ specifications of the parts whose errors
cost money and are hard to test, the TLC instances that check them, and TLAPS
proofs of what must hold for every instance.  Paths below are relative to
`src/pearlalgo/` of the repository unless they start elsewhere.

## 1. The system

| Component | State it keeps | Operations and partners | What is hard | What makes it correct |
|---|---|---|---|---|
| Bracket placement (`execution/tradovate/adapter.py` `place_bracket`, `execution/base.py`) | armed, order count, daily result, cooldowns, executed signal ids, in-flight counter, cached positions | called by signal handling; asks the client for positions, a flatten, the order | four awaits per call; everything checked before one may be stale after it; a timed-out order may exist | one order per signal; no order on an unseen or opposite position; limits exceeded by no more than can be said; the counter never leaks |
| Tradovate session (`execution/tradovate/client.py`, `connect`, reconnect loops) | tokens, HTTP session, WebSocket, `_connected` | renews the token, listens, reconnects, checks orphaned stops | token expiry, half-open connection, loops that give up | the adapter says it is connected only if it is; it comes back |
| Position cache and rate limit (`get_positions`, `market_agent/position_monitor.py`) | `_live_positions`, its age, cooldown end, backoff, failure count | three writers: WebSocket, REST sync, reversal | stale replies, 429 cooldown that extends itself | the cache is never fresher than it says; polling resumes |
| Operator control (`market_agent/execution_flags.py`, `operator_handler.py`, `service.py` `_handle_close_all_requests`) | flag files, request files, two keys of `state.json` | written by the API process, consumed by the agent's loop, act on the adapter and on virtual trades | two processes, files as queue, crash in the middle, saves that overwrite | a kill is never dropped; a request acts once, and is given up only where its file could not be read or written, or by the saves named in section 6 |
| Service loop (`market_agent/service_loop.py`, `service.py`, `service_lifecycle.py`) | paused, pause reason, error counters, cadence | calls all the others in turn | several counters that pause, several that reset | it pauses when it must, resumes when told, keeps reading flags |
| Signal handling (`market_agent/signal_handler.py`, `signal_orchestrator.py`, `order_manager.py`) | execution semaphore, protection guard | between strategy and adapter | recording order and trade in step | every order has its virtual entry and the reverse |
| Virtual trades (`market_agent/virtual_trade_manager.py`, `position_tracker.py`, `reconciliation.py`) | `signals.jsonl`, performance records | reconciled with the broker's fills | partial fills, missed exits | records match the broker |
| Trading circuit breaker (`market_agent/trading_circuit_breaker.py`) | session and daily P&L, losses, one cooldown, the session profit lock | shown the broker's P&L twice a cycle, asked before each signal, saved in `state.json` | one cooldown for all checks, restarts, session boundary | a tripped lock stays tripped; the floor covers the peak; a drawdown is remembered |
| Evaluation tracker (`market_agent/tv_paper_eval_tracker.py`) | drawdown floor, attempt state | fed by fills | floor lock, attempt end | the floor never falls |
| Trailing stop and exits (`execution/tradovate/trailing_stop.py`, `execution/advanced_exit_manager.py`) | phase, best price, stop | modifies the broker's stop | a modification that fails | a stop never loosens |
| State persistence (`market_agent/state_manager.py`, `utils/state_io.py`, `storage/trade_database.py`) | `state.json`, `signals.jsonl`, SQLite | read and written by agent and API | read-modify-write by two processes, crash in a write | no torn or lost record |
| Asynchronous SQLite writes (`storage/async_sqlite_queue.py`) | bounded heap, overflow list, two flags | producer: event loop; consumer: a daemon thread | interleaving, full queues, shutdown | no accepted write lost or executed twice |
| IBKR data executor (`data_providers/ibkr_data_executor.py`) | task queue, connection, breaker | requests cross a thread with timeouts on both sides | late results, reconnect | each request is answered once |
| Data fetching (`market_agent/data_fetcher.py`, `utils/data_quality.py`) | bar caches | feeds the loop | stale bars | stale data is recognised |
| Scheduling (`utils/cadence.py`, `market_agent/scheduled_tasks.py`) | next due time, last run days | the loop's sleep | missed cycles, daily tasks after a restart | once a day, no catch-up storm |
| Audit logs, notifications | queues and threads | fed by all | shutdown | nothing trades on them |
| Web API (`api/server.py`) | none of its own | writes flags and requests, reads the rest | a second process | covered with operator control |
| Strategy, configuration | indicators over bars; settings | pure functions | floating point | tests are the better tool |

How they meet: the agent is one asyncio loop.  A cycle reads the flags, fetches
data, handles close requests, generates signals, places orders, updates virtual
trades, saves, sleeps; during a sleep it reads the flags every 5 s.  Beside
the loop run the adapter's tasks (WebSocket listener, reconnect, order
verification), the IBKR thread and the SQLite writer thread.  The API is another
process and meets the agent only in files.

## 2. Modules

| Module | Models | Shape |
|---|---|---|
| `BracketPlacement` | `place_bracket` with the guards of `base.py`, the reversal's `liquidate_all_positions`, the position cache and its writers | state machine, one step per stretch between two awaits; with one caller it refines `OrderDesk` |
| `OrderDesk` | what `place_bracket` promises to a caller that waits for its answer | abstract specification |
| `OperatorControl` | flags, close requests, kill, pause and resume, restarts | state machine of the loop and the other process |
| `WriteSink` | what the asynchronous write queue promises | abstract specification |
| `TrailingStop` | `position_monitor` with the trailing stop manager, the runner, overrides and exits | state machine, one step per stretch between two awaits |
| `TradingBreaker` | `TradingCircuitBreaker` in the loop that drives it, `state.json` and restarts | state machine, one step per phase of a cycle |
| `BrokerSession` | the adapter's and the client's session: token, WebSocket, the tasks that repair them, the tracked orders | state machine, one step per stretch between two awaits |
| `IbkrExecutor` | the executor's thread, its queue and futures, the provider's and fetcher's calls and timeouts | state machine of the main task, the pool threads and the executor's thread |
| `MarketData` | the provider's circuit breaker, the fetcher's caches, the cycle from the fetch to the analysis | state machine, one step per request, judgement or tick |
| `SignalJournal` | the record of the trades (`signals.jsonl`, the table `signal_events`, `performance.json`) and what the loop decides with it | state machine, one step per write or read |
| `AsyncWriteQueue` | the queue, the overflow list, the worker, shutdown | state machine, refines `WriteSink` |
| `*_proofs` | theorems about the module whose name they carry; those about `MarketData` are in `IbkrExecutor_proofs`, as its instance `Feed` | TLAPS |
| `MC*` | symmetry sets for TLC, shared by the `.cfg` files | |

A definition marked VARIANT is the next definition with one plausible mistake.
No action uses it; it is there to show that a property notices the mistake.

### BracketPlacement

`place_bracket` is a coroutine, so nothing else in the process runs between two
of its awaits.  `call[c].pc` says at which await a call is:

| `pc` | await in the code |
|---|---|
| `positions`, `positionsRead` | `get_positions` of the guard (adapter.py:437): asked; the broker has taken its snapshot, which travels |
| `flattenList`, `flattenOrder` | the two requests of `liquidate_all_positions` (client.py:514-538) inside `flatten_all_positions` |
| `resolve` | `resolve_front_month` (adapter.py:564-587) |
| `oso`, `osoAccepted`, `osoRefused` | `place_oso` under `asyncio.timeout(15)` (adapter.py:720): on its way; the broker decided, the answer travels |

The pieces of straight-line code between them are operators in the order of the
source: `Preconditions` (`check_preconditions`), `Cached` and `NeedsRest` (the
cache and its 2 s and TTL windows), `Guard` (the loop over the positions, with
the reversal), `PastDirection` and `Refusal` (in-flight limit, size limit,
connection), `Send` (distance checks, mark, counter, request).  Ages are reduced
to the windows the code compares them with: `cacheAge` is `fresh` (2 s), `recent`
(within `_POSITION_CACHE_TTL`) or `stale`; `cooling` and `executed` hold what has
not expired.  The broker is external: it fills working orders, exits brackets,
sends position events (which may be late, or lost with the socket), and may
execute a request whose caller has given up.

Concurrency.  The service calls `place_bracket` through `follower_execute`,
which holds a `Semaphore(1)` (signal_handler.py:88), from one place of the loop.
So `Callers = {c1}` is how the program runs, and the properties that only hold
then are checked there.  The adapter itself guards against overlapping calls (a
lock around the counter, a dedup guard against a "race condition or signal
storm"); the runs and theorems with several callers examine what these guards
are worth by themselves.

`OrderDesk` is the promise to a caller that waits for its answer: `Request` tests the
signal, the daily count, the loss limit and the cooldown and sends in the same step,
`Placed` counts the order and starts the cooldown, `NotPlaced` only ends the request; beside
it the desk forgets a signal (`Forget`), a cooldown ends (`CoolOff`), the day ends (`NewDay`)
and its result passes the limit (`LossTurns`).  The code tests and sends in steps that
awaits, a reversal's flatten and other tasks separate.  `DeskSpec` says that this cannot be
noticed: every step of `BracketPlacement` is one step of the desk or none.  The day's count
and result change only between calls, because the loop that changes them awaits each call.

### OperatorControl

`pc` is where the loop is: `boot`, `top` (flags about to be read), `sleep`,
`cycle` (data about to be fetched), `handle` and `one` (the two halves of
`_handle_close_all_requests`), `autoFlat`, `orders` (the rest of the cycle), and
`cancel`, `flatten` inside the adapter for one of the jobs that empty the
account.  `CheckFlags` is `check_execution_control_flags` as a whole, in its
order: resume, close requests ingested, stale flags cleared, then kill or
disarm or arm.  It awaits nothing before `cancel_all`, hence one step.
`requests` are the two keys of `state.json` that the close requests wait in;
`SaveState` is what a full save does to them: `build_state` does not know them.
`Restart` may strike at every point; a graceful stop also saves, but so does the
following start, so the two leave the same state.

Reads and writes of `state.json` fail.  The code swallows it: a failed load gives `{}`,
which the next save writes, and a failed save leaves the file as it was
(state_manager.py:134-148).  `Stored` is a step's outcome with or without such a
mishap: the ingestion of each request may miss or wipe the others (`Ingestions`); the
clear of a close request may leave it where it is while the broker is asked to
empty the account all the same (`HandleAll`, `HandleOnly`); a handler may not see the
request (`RequestUnread`); a full save may fail.  An exception of
`_handle_close_all_requests`, with any of the trades it was to close already closed,
is swallowed by the loop, which goes on with the cycle and its save
(`HandlerRaises`, service_loop.py:306-309).  `slipped` remembers a mishap since the
cycle had its data, `uncleared` counts the mishaps in the clear of a close-all.
Assumed: a flag or request file that is there can be read and removed.

`cancel_all` swallows every error, so a kill always goes on to the flatten;
`flatten_all_positions` returns at once when the adapter is not connected and
otherwise may sell any subset.  The kill requests that the adapter itself writes
(`_request_kill_switch_on_failure`, adapter.py:321 and 1663) are not an action of
their own: their effect, a kill flag, is one the operator can write at any time.  The
first is not reached at this commit, because the orphaned-stop check handles its own
errors, so that its retries never run out; when the second is, `BrokerSession` shows.

### WriteSink and AsyncWriteQueue

`WriteSink` is what a caller may rely on: `enqueue` accepts or refuses; an
accepted write is stored or fails once; only when `Capacity` writes wait may a new
one displace an old one; everything pending is settled, unless the process ends.
`AsyncWriteQueue` is the code: `enqueue` with its second step when `put_nowait`
raises `queue.Full`, the overflow list taken in one go by the worker, the flush
after `_shutdown_event`, `stop()` whose `join` may time out, the daemon thread
that dies with the process.  The heap compares priorities only, so a worker takes
any of the most urgent writes.  `Sink` is the refinement mapping: pending is
queue, overflow list and the worker's hand together.  The run checks the refinement
with its liveness, the proofs its safety.

### TrailingStop

`monitor_open_position` runs once a cycle and awaits the broker up to six times;
`pc` says where it is:

| `pc` | await in the code |
|---|---|
| `fetch` | the cycle's market data (service_loop.py:182) |
| `sync` | the forced REST sync of the positions (position_monitor.py:36) |
| `register` | `_find_initial_stop_from_broker` (service.py:833) |
| `find`, `modify`, `place` | the order query, `modify_stop_order`, or after three misses `place_stop_order` (position_monitor.py:241-281) |
| `tp`, `exit` | the target's cancellation, the flatten of an advanced exit |

`CheckAndUpdate` is the trailing stop manager (best price, phases, candidate, ratchet,
minimal move), `RunnerUpdate` and `RunnerStop` the runner of
`advanced_exit_manager.py`. Prices are integers, one unit a tick; ATR multiples are in
halves and multipliers in quarters. The market is not a variable: each price of
`Prices` may be the last close and any working order may execute. One position is open
at a time; finding the target and cancelling it is one step, so is the flatten; the
conditions of the advanced exits (minutes held, dollars gained) are a choice. A
modification without an answer was made when it is given up, or never: the broker
making it later, after the next one, is not modelled. The fallbacks that would take a
position or a stop from `signals.jsonl` (position_monitor.py:57, service.py:825) read
an attribute no code sets and are dead. `basis` is history: the registration saw the
broker's stop and the position has not changed since.

### TradingBreaker

`phase` is where the loop is, as far as the breaker is concerned: `boot` (the
startup save), `flags`, `poll`, `signals`, `account`, `save`, `stop`, `down`.  The
account is polled before and after the signals; a failed poll tells the breaker
nothing.  The checks of `should_allow_signal` that start a cooldown are
`TierBlocks`, `CheckBlocks` (in the order of `HardChecks`) and `EquityBlocks`; the
filters without state are the choice `FilterBlocks`.  A day is `Day` ticks that
begin at 18:00 ET; a cooldown is the ticks it has left.  `Persisted` is what
`state.json` keeps, and `Restore` and `Hydrated` what a start makes of it and of
the paired fills.  `record_trade_result`, `reset_session`, `reset_daily`,
`force_cooldown` and `clear_cooldown` have no caller in the running service at this
commit; `Calls` turns them on, so that the passing run and the theorems hold for a
host that does call them, in any order.  `seen`, `top`, `told`, `binding` and `peak`
are history; they are saved and restored beside what they speak of, because the
properties are about what the breaker can know.

### BrokerSession

What `connect()` starts and what keeps it alive: `token` and `renewal` (the token
renewal loop), `sock`, `flag` (`_ws_connected`), `listener` and `tries` (the WebSocket
and its listener), `recon` (the reconciliation loop), `reconnect`, `attempt` and
`gaveUp` (the reconnect loop), and `poll`, the `_poll_order_status` that three of the
tasks may be in.  A poll is three steps, because the broker takes its list between the
request and the reply: what was placed meanwhile is not in it.  `phase` follows
`_connected`; during `closing`, the await inside `disconnect()`, everything else
goes on.  A socket is `mute` when the server did not answer the authorization, which the
code takes for a success, and `Connect("half")` is one that broke after the flag
was set, with nobody listening.  `TradovateAuthError` derives from `Exception` and
not from the client's API error, so that it leaves `_poll_order_status`
(`PollEscapes`); where it ends up depends on the poller (`AfterEscape`).  Only parent
orders are tracked here; the position side of the same calls is
`BracketPlacement`'s, the kill that giving up requests is `OperatorControl`'s.

### IbkrExecutor

Three kinds of threads.  `mpc` is where the service's main task is in its cycle (the
startup snapshot, the fetches of `fetch_latest_data` in their order, the analysis,
the stop); `waits` is the pool thread whose `fetch_historical` it awaits.  `call[c]` is
the future a caller awaits (`validate`, `data`) or the answer it got.  `thread`
and `hand` are the executor's thread and the task it is busy with.  A request under an
id of its own is named after its caller; validations share one id, and `entry`
says whose future is under it.  A future that was given up with the startup snapshot
leaves its task behind as `orphan`.  `GetLatestBarTask` and `GetHistoricalDataTask`
are one step each (`BarDone`, `HistoryDone`): what they ask of IB does not touch the
executor's state, and every way through them ends in bars or in nothing.

Assumed of ib_insync: a connection attempt succeeds exactly when the gateway is
reachable, and every request ends, though `reqContractDetails` is called without a
timeout.  Time is left out: the fetcher's 60 s may run out whenever the executor is
executing a request (six requests of 30 s, or three of 60 s, are possible in one
task), when no pool thread is free, or when the awaited thread's future was replaced.

### MarketData

The main task again, but with requests as a whole (how they are carried out is
`IbkrExecutor`) and with what becomes of the bars.  `pc` is `boot` (the startup
snapshot), `top`, `fetch` (the bars of the timeframe `Frames[at]`), `bar`
(`get_latest_bar`), `judge` (the loop has its market data) and `analyse`.
`breaker` and `fails` are the provider's `ConnectionCircuitBreaker`, `slot` and `barSlot`
what it keeps to answer with; `held` and `valid` are the fetcher's buffers and which of
them are within their time to live.  `Ask`, `Answered`, `Fails` and `FindsNothing` are the ways
through `_fetch_historical_async`; `TimesOut` is the fetcher's 60 s, after which the thread
goes on (`late`) and tells the breaker, not the fetcher, how it ended.  `Usable`,
`JudgedFailed`, `JudgedQuiet` and `JudgedGood` are `is_connection_error_from_data` and the
branches of the loop after it, `Stale` its stale data guard.  Of bars the model keeps
their timeframe and whether the newest is older than the guard's threshold; the live
configuration's two caches are on, and the base cache and the strategy's buffer, which
are filled together, are one.  `is_connected()` may say no while the gateway is up, as it
does after a start (section 6).  Left out: the branch "continue despite the connection
error", which needs usable data that are judged a connection error; the lost updates of
`_consecutive_failures += 1` in two threads; and the data quality checks, whose only
effect here is that they may raise (`CheckRaises`).

### SignalJournal

A trade is recorded three times: a line in `signals.jsonl` for each status (`journal`),
a row in `signal_events` (`rows`; the first one goes through the asynchronous queue,
here the set `queue`), an entry in `performance.json` for its exit.  The check of the
open positions, the searches for exits, the close requests and the saved state read the
journal, through a cache of 15 s; `track_exit` reads the table, or the journal when the
table has nothing of the signal.  `pc` is the place of the loop between two of these
writes or reads:

| `pc` | code |
|---|---|
| `close` | close-all and requests for single trades (service.py:1945-2117) |
| `signals`, `save`, `enqueue`, `execute`, `enterRow`, `enterLine` | `follower_execute` or `process_signal`: the check, `save_signal` with its line and its row, the bracket, `track_entry` with its row and its line |
| `exits` | `process_exits` |
| `track`, `exitRow`, `exitLine`, `record` | `track_exit` for one trade after the other: test, row, line, booking |
| `sync`, `state` | `_sync_virtual_trades_with_broker`; `build_state`, which reads the journal |

`mode` ranges over the configurations that service.py:590-612 can produce: with the
Tradovate adapter signals go through `follower_execute`, without an adapter through
`process_signal`; virtual P&L is a setting, off in the live configuration.  `Window`
and `Wide` stand for the 300 and 500 lines the readers ask for; a cache filled by the
wider read answers the narrower one.  A `Fault` is a write that fails: it is
logged, and the code goes on with the next one.  A row is `whole` when it has the
signal's data; without them `track_exit` takes the trade for the long of one contract.
Reads are assumed to succeed.  Which trades the bars or the operator close is a choice.

## 3. Runs

| Run | Instance | What it shows |
|---|---|---|
| `bracket_sequential` | 1 caller, 2 signals, `MaxPositions` 2, `MaxOrdersPerDay` 1, 2 calls, 1 environment event, 2 position events in flight | types; to its caller a call tests and sends in one step (`DeskSpec`: it implements `OrderDesk`, one order per remembered signal included); orders only on a seen position with room (`SentOnSeenRoom`); an account that is settled when a call starts stays within `max_positions` (`SettledOrderFits`) |
| `bracket_overlap` | 2 callers, 2 signals, `MaxPositions` 1, `MaxOrdersPerDay` 1, 3 calls, 2 environment events, no position events | counter exact (`PendingIsInFlight`); the daily limit and the orders after a disarm bounded (`DailyLimit`, `StraysBounded`) |
| `operator_control` | 2 trades, 2 writes, 2 mishaps, 1 restart | a kill flag survives until handled (`KillNotDropped`) and is handled (`KillTaken`); a close-all acts at most once, and once more for each clear of it that went wrong (`CloseAllOnce`); a close request is given up only by the saves of a start and of an arm or a disarm flag, in a step in which `state.json` failed, or by the save of a cycle whose handler had a mishap (`RequestsServed`) |
| `write_queue` | 3 HIGH, 1 MEDIUM, 1 LOW write, queue of 1, overflow list of 2 | no accepted write lost or doubled (`OnePlace`); implements `WriteSink`, liveness included (`SinkSpec`) |
| `trailing_stop` | 2 openings (a long and a short bracket), 2 stop orders placed, 1 restart, 1 event, ATR known or not, runner on or off | the working stop is never loosened while the registration is sound (`BrokerRatchet`) |
| `trailing_live` | 1 opening, 1 order, 2 prices, 1 event (override, further fill, lost stop), both modes | a move that failed is made later (`StopArrives`) |
| `circuit_breaker` | 4 events, 4 values of P&L, 3 tiers, a day of 4 ticks, every method callable | `NoGiveBack`, `TripBinds`, `DrawdownBinds` through failed polls and saves, restarts and operator commands |
| `broker_session` | 1 order, 2 attempts of the listener and 2 of the reconnect loop | a poll drops no live order (`LiveOrderKept`); the token comes back (`AuthRestored`); while the socket is down final orders are found (`DownIsPolled`), also after the listener gave up |
| `ibkr_executor` | 2 pool threads, 2 connection attempts | no request is forgotten (`NobodyForgotten`); the call without a limit returns (`BarReturns`); a stop ends the thread (`StopEnds`) with the connection closed (`FreedAtEnd`); it connects again after giving up (`Reconnects`) |
| `market_data` | 2 timeframes, thresholds of 2 | the breaker closes again (`BreakerRecovers`); an outage that lasts ends the analysis although its answers renew the caches (`OutageSilences`); bars of another timeframe leave the buffers (`OwnBarsReturn`) |
| `signal_journal` | 2 signals, `MaxOpen` 1, windows of 3 and 4 lines, 1 restart or failed write, the three configurations | a trade is booked once, with its own data, no exit of the table is missing there, and what makes the exceptions (`BookedRight`); no signal is admitted over an open trade of the journal, whatever the cache holds (`OneOpenTrade`); with virtual P&L every open trade is booked in the end (`ExitArrives`) |
| `breaker_session` | as small as shows it | violates a statement of the repository; section 6 |

Bounds, and why they are enough. `MaxCalls`: the state a call leaves behind is a
remembered id, a count, a cooldown, a position and a cache, and one call suffices to
set each, so a second call meets all of it; the daily limit of 1 needs a third call to
be exceeded by more than the overlap, hence 3 in `bracket_overlap`. `MaxEvents` 2 lets
a position event be overtaken by another change; it is 0 in `bracket_overlap`, whose
three properties concern the adapter's counters and flags and not the position
(initial positions are still long, flat and short, and reversals happen). `MaxEnv` 1
(2 in `bracket_overlap`, for a disarm and an arm after it) places one operator event,
day change, limit crossing, lost connection or lost socket at every point. `MaxWrites`
2 admits every pair of commands (a kill and a close-all, a close-all and the disarm
that drops it, a request for each trade), two trades tell "one trade" from "all", and
one restart is enough for "handled twice" and "never handled".  One mishap strands a
request or has it obeyed again; the second strikes what is left of the first.  With 3
writes the safety properties find nothing else (2 658 168 states up to symmetry), and
the theorems hold for any number.  The queue sizes make every branch of `enqueue`
happen, the overflow list at its cap included.

In `trailing_stop` the second opening lets a position be replaced by one of the
other side or by one at an old price, and one restart falls between any two
awaits; `circuit_breaker` has cooldowns of one and two ticks, which expire before
the session ends, and as many events as a trip, a save, a crash and one further
call or P&L move need (its graph is 29 steps deep).

In `broker_session` one order suffices, because the properties speak of one order at a
time and a poll treats each by itself; two attempts are a first that fails and a last.

In `ibkr_executor` the main task awaits one pool thread at a time; a second one is
needed for a thread that was given up and is still waiting while the main task starts
another, and both can be forgotten, which leaves none free.  Two attempts are a first
and a last; three threads and three attempts find nothing else (265 556 states).

In `market_data` one higher timeframe stands for both: it is treated like the other, and
two timeframes suffice for one's bars to be taken for the other's.  A threshold of 2 has
a failure that does not reach it and one that does.  The only bounds are the counters'
saturation at their thresholds, which nothing distinguishes from larger counts.

In `signal_journal` two signals make up to six lines, so that windows of 3 and 4 lose
lines of an open trade and the wider cache answers the narrower read.  `MaxOpen` 1 is the
live setting.  One trouble is a crash or a failed write at every point; that the loop
meets two of them within two trades is not covered.

`CHECK_DEADLOCK FALSE` is set for the bracket, queue, session, executor and market
data runs: their bounded counters run out, the queue's process ends, and a broker with
nothing to do or a session that was refused or closed is not an error. The operator's,
trailing, breaker and journal loops never stop, and deadlock is checked.

### Fairness

* `OperatorControl`: weak fairness of the loop's own steps.  Its sleeps last at
  most 5 s between two readings of the flags; broker calls and data fetches time
  out and their failures are actions.  No fairness for data, connection or
  restarts (which `MaxRestarts` bounds: a process that crashes for ever takes
  nothing).
* `AsyncWriteQueue`: weak fairness of the worker thread: it is scheduled and a
  write ends, with an exception when the database stays locked.  None for the
  producer.

* `TrailingStop`: weak fairness of the cycle (the loop goes on: each await ends,
  with an error at worst), strong fairness of the answers of the data fetch, the
  order query and the modification: a broker that is asked again and again answers
  once.

* `BrokerSession`: weak fairness of the sleeps and of every request (`Running`: each
  has a timeout, and a failure is an answer), strong fairness of `Renewed` and
  `BrokerLists` (`Answers`).  Nothing is assumed of the rate limit, whose cooldowns may
  follow each other for ever: `DownIsPolled` is conditional on their end.

* `IbkrExecutor`: weak fairness of the executor's thread (each task ends), of the callers
  whose future has an answer, and of the main task's steps that await nothing.
  Timeouts and the gateway have none.

* `MarketData`: weak fairness of the cycle (requests end or are given up), of the clock
  (bars age, caches expire, the breaker's recovery time passes), strong fairness of
  `Delivers`: a gateway that is up and is asked for a timeframe again and again delivers
  bars of it.  None for the gateway, the operator or late threads; `BreakerRecovers` and
  `OwnBarsReturn` are conditional on a gateway that stays up and a loop that is not
  paused, `OutageSilences` on an outage that lasts.

* `SignalJournal`: weak fairness of the loop, which awaits only the broker, with
  timeouts; strong fairness of a search that finds the stop or the target of a given trade
  touched: the bars do so in the end, or the trade would rightly stay open.  None for
  the queue's worker, which is `AsyncWriteQueue`'s.

## 4. Proofs

All theorems hold for every value of the constants under the named assumptions of
the modules: finite, nonempty `Callers`, limits that are positive naturals (which
`ExecutionConfig` enforces), disjoint finite priorities, a
`None` that is no booking and no status.
`FeedConstants` are the three named assumptions of `MarketData`, as a hypothesis, because
the assumptions of an instance are not facts of the module that makes it.

| Theorem | Statement |
|---|---|
| `BracketPlacement_proofs!TypeCorrect` | `Spec => []TypeOK` |
| `BracketPlacement_proofs!PendingExact` | `Spec => []PendingIsInFlight` |
| `BracketPlacement_proofs!SeenRoom` | `Spec => []SentOnSeenRoom` |
| `BracketPlacement_proofs!DailyLimitHolds` | `Spec => []DailyLimit` |
| `BracketPlacement_proofs!StraysAreBounded` | `Spec => []StraysBounded` |
| `BracketPlacement_proofs!SendsAreBounded` | `Spec => []SendsBounded` |
| `BracketPlacement_proofs!OneOrderPerSignal` | `Lone` implies `Spec => []NoDoubleSend` |
| `BracketPlacement_proofs!SettledFits` | `Lone` implies `Spec => []SettledOrderFits` |
| `BracketPlacement_proofs!ImplementsDesk` | `Lone` implies `Spec => DeskSpec` |
| `OperatorControl_proofs!OperatorTypes` | `Spec => []TypeOK` |
| `OperatorControl_proofs!RequestsAreServed` | `Spec => RequestsServed` |
| `OperatorControl_proofs!OneJobPerRequest` | `Spec => []CloseAllOnce` |
| `OperatorControl_proofs!KillKept` | `Spec => KillNotDropped` |
| `AsyncWriteQueue_proofs!FlushCompletes` | `Spec => []FlushIsComplete` |
| `AsyncWriteQueue_proofs!TypeCorrect` | `Spec => []TypeOK` |
| `AsyncWriteQueue_proofs!EachInOnePlace` | `Spec => []OnePlace` |
| `AsyncWriteQueue_proofs!ImplementsSink` | `Spec => Sink!Init /\ [][Sink!Next]_(Sink!sinkVars)` |
| `TrailingStop_proofs!TypeCorrect` | `Spec => []TypeOK` |
| `TrailingStop_proofs!Ratchet` | `Spec => BrokerRatchet` |
| `TrailingStop_proofs!ManagersHold` | `Spec => ManagersRatchet` |
| `TradingBreaker_proofs!TypeCorrect` | `Spec => []TypeOK` |
| `TradingBreaker_proofs!GiveBack` | `Spec => []NoGiveBack` |
| `TradingBreaker_proofs!TripsAreShown` | `Spec => TripShown` |
| `TradingBreaker_proofs!TripHolds` | `Spec => []TripBinds` |
| `TradingBreaker_proofs!Drawdown` | `Spec => []DrawdownBinds` |
| `BrokerSession_proofs!TypesCorrect` | `Spec => []TypeOK` |
| `BrokerSession_proofs!ListenerEndsPolled` | `Spec => []GaveUpPolls` |
| `BrokerSession_proofs!WorkingOrdersKept` | `Spec => LiveOrderKept` |
| `IbkrExecutor_proofs!TypeCorrect` | `Spec => []TypeOK` |
| `IbkrExecutor_proofs!NoRequestForgotten` | `Spec => []NobodyForgotten` |
| `IbkrExecutor_proofs!ConnectionFreed` | `Spec => []FreedAtEnd` |
| `IbkrExecutor_proofs!FeedTypes` | `FeedConstants` implies `Feed!Spec => []Feed!TypeOK` |
| `IbkrExecutor_proofs!BreakerCounts` | `FeedConstants` implies `Feed!Spec => []Feed!ClosedBelowThreshold` |
| `IbkrExecutor_proofs!OutageQuiet` | `FeedConstants` implies `Feed!Spec => Feed!OutageStaysQuiet` |
| `SignalJournal_proofs!TypeCorrect` | `Spec => []TypeOK` |
| `SignalJournal_proofs!BookingsRight` | `Spec => []BookedRight` |
| `SignalJournal_proofs!OpenTradesBounded` | `Spec => OneOpenTrade` |

The arguments:

* Counts (`CountInv`).  None of the three counting properties is inductive.
  `DailyLimit` speaks of orders already counted, and a step that counts one more
  says nothing of how it got there; the strengthening adds the calls that have
  passed the test of the limit and not yet counted their order (all active calls),
  so that the sum is what the code bounds: a call enters only below the limit, and
  leaving it moves one unit from the second term to the first at most.
  `StraysBounded` adds, in the same way, the calls that may still send, and
  `PendingIsInFlight` is carried along.  The cardinality lemmas (`MemberStep`,
  `CallSets`) say how the sets of calls change when one call changes its stage.
* Seen positions (`RoomInv`).  Every call past the position check knows a position
  that was seen; past the guard it is not opposite or was flattened; past the size
  check it leaves room.  One lemma per stretch of code (`SendRoom`,
  `PastDirectionRoom`, `GuardRoom`), then one per group of actions.
* One order per signal (`SendsInv`).  A signal that is not remembered was not sent, and the
  orders sent for a signal and the calls that carry it past the guard are together no more
  than there are callers: once it is remembered the guard lets no further call pass, and
  before that nothing was sent.  A send moves one unit from the second term to the first
  (`OneOut`); the TTL, five minutes, is longer than a call, so that the guard forgets a
  signal only when no call carries it.  Hence `SendsBounded`, a bound that two overlapping
  calls do reach, and for one caller `NoDoubleSend`.
* One caller (`FitInv`, `GateInv`, under `Lone`: no two callers, which is how the
  service's loop awaits its signals).  For a settled call that does not reverse, `FitInv`
  says at each stage what may still be on its way at the broker: nothing until its own
  request arrives, so that the position can only have shrunk below what the guard saw.
  `settled` requires an expired cache, and that is where it is needed: such a call asks the
  broker, or is refused for want of a connection.
* Refinement of the desk (`GateInv`).  A call past its first step still has what the step
  tested (`Admits`): its signal is not remembered, the day's count is below the limit,
  the loss limit is not reached and its type is not cooling.
  One lemma per stretch of code says what the stretch is to the desk (`DeskSend`,
  `DeskPastDirection`, `DeskGuard`, `DeskStart`, `DeskAdvance`), `DeskBroker` that the
  broker's steps are none, `DeskClock` that the clock's
  and the loop's are `Forget`, `CoolOff`, `NewDay` and `LossTurns`.
* Requests (`RequestsInv`).  In a cycle without a mishap each handler has cleared its
  kind of request before the save comes; to be inductive the invariant must also say
  what holds inside the jobs the handlers begin, which end at the next handler.
  `RequestsServed` is an action property: the invariant answers for the save at the
  cycle's end, `IngestionFacts` for the flags (an ingestion without a mishap keeps every
  request), and one fact per primitive (`StoredOutcome`, `SavedOutcome`,
  `IngestedOutcome`, `VirtualOutcome`) for what a mishap can leave.
* Tokens (`TokenInv`). A close-all request is a token: in the flag file, then in
  `state.json`, then in the count of jobs begun; saves, mishaps and crashes may
  destroy a token, no step makes one except the operator's, and only a clear with a
  mishap (`uncleared`) leaves a token where it was when it is counted.
* The data breaker.  `ClosedBelowThreshold` is inductive with the types: a failure
  moves count and state together, a success resets both, and reading the state, which
  promotes it, never closes it.  `CachesOK` needs that ageing turns no bars into none.
  `OutageQuiet` is the half of `OutageSilences` that needs no fairness: in an outage only what
  is there already goes from slot to buffer, and the guard stops what is old.
* `KillKept` is an action property; it uses the type invariant and the step that
  ends a kill.
* Bookings (`QueueInv`, `ExitsInv`, `CountInv`, `MissedInv`, `WholeInv`).  `track_exit` looks only at the
  last row of a signal, so that two rows "exited" have something between them; no entry
  follows an exit, and the queue lands one row "generated" per signal at most, which
  leaves room for two.  A booking, made or about to be made, has its row "exited" or a
  write that failed; and each such row has a booking, unless a restart or a failed write
  came between (`MissedInv`).  A row without the signal's data exists only where no row
  "generated" came first, and without the adapter the first row is never an entry.
* Open trades (`CacheInv`).  What the cache holds are the last lines of the journal
  as it was when it had `m` lines, for some `m`; every line since is an exit, or the entry
  of a signal without a line "generated", since that line empties the cache and nobody reads
  before the entry's.  Such lines open no trade that counts, and what the cache has of
  the last `Window` lines is what the check needs (`RecentOpen`).
  The journal's readers choose latest lines with `Max`: that a nonempty set of naturals
  has a least and a bounded one a greatest element (`LeastElement`, `MaxFacts`) follows
  from the well-foundedness of the naturals.
* Flush (`FlushInv`).  The worker flushes after the shutdown event, which the
  producer sets on its way into `stop()`, and when it is out again `_running` is
  false for good: nothing can be added behind the worker's back.
* Places (`ItemInv`, `PlacesInv`).  The overflow list keeps its type because the
  producer spills nothing but a new HIGH write.  `OnePlace` counts, and a count is not
  inductive: `PlacesInv` says that no list holds a write twice and no two places hold
  the same one, and the counts follow as those of disjoint unions.
* Refinement.  With the places apart, each step of the queue is `Accept`, `AcceptFor`,
  `Refuse`, `Store`, `Fail` or `Die` of `WriteSink`, or moves writes within memory and
  is a stutter.  A list at its cap holds distinct writes, so that at least `Capacity`
  are pending when one is displaced.
* Ratchet (`IInv`).  Between the awaits what is about to be sent is what the manager
  holds (`MoveInv`), the order to be modified is on the position's side
  (`IdInv`), and no working stop of the position is closer to the market than what
  the manager holds (`HeldInv`); a move only goes further, so the modification
  cannot loosen the stop.  Every event that makes one of them false ends the basis.
  `ManagersRatchet` says it of the managers alone and needs no basis: a step that registers
  nothing advances a manager (`TrackFacts`), leaves it or ends it.
* Breaker (`LockInv`, `BindInv`, `ToldInv`).  Each says of the live object and of the
  snapshot in `state.json` the same thing: the floor covers the best P&L shown, a
  cooldown that no win ends covers what still binds, the session's P&L is the one
  told.  A save copies the relation to the disk, time passes for both, and a
  restart, which knows nothing else, brings it back.  `TripShown` is the converse of
  `NoGiveBack`: what a trip says of the peak must have been shown to the lock (`ShownInv`),
  by this process or by the one whose snapshot it restored, since its last reset.
* Session.  `RetryInv`: a listener that is not retrying has used no attempt but its
  last, and after it the flag is down.  `LiveOrderKept` needs that a final event is
  only ever about a final order (`EventsInv`), that an order whose id is still on its
  way was accepted (`AcceptedInv`), and that a list that was taken, kept against what
  happened since, reports every order that was tracked when it was asked for and is
  working now (`ListInv`).
* Executor.  For the main task's validation it is not enough that its future is under
  the shared id: a ConnectTask must still come that answers it.  Each ConnectTask that
  ends empties the id, so that the relation is restored by whoever submits next; a
  pool thread can only replace the main task's future while the main task awaits
  nothing, which is why the main task itself is safe and a pool thread is not.
  `FreedAtEnd` holds because the thread tests the event after each task.

Only model-checked: the liveness properties (`KillTaken`, `StopArrives`, `AuthRestored`,
`DownIsPolled`, `BarReturns`, `StopEnds`, `Reconnects`, `OutageSilences`,
`BreakerRecovers`, `OwnBarsReturn`, `ExitArrives`, and the fairness part of `SinkSpec`, which
needs ENABLED), which are out of the prover's reach.  Every invariant and every other
action property that a passing run checks is stated by a theorem.
`FlushIsComplete`, `GaveUpPolls`, `ClosedBelowThreshold`, `OutageStaysQuiet`, `SendsBounded` with
`NoDoubleSend`, `TripShown` and `ManagersRatchet` are proved and not among the runs'
properties; the types of `MarketData` are among them and proved of its instance `Feed`.

## 5. Hazards without a property yet

`PROJECT.json` lists the hazards of the code with the properties that would catch
them.  Without one are the read-modify-write of `state.json` by two parts
(state_manager.py:128), which belongs to a module still to be written, the rate-limit
cooldown that polling extends (adapter.py:1241), a resume that leaves `consecutive_errors`
as it was (service.py:1538), and trades of the journal that nothing closes
(service.py:1162, section 6), which is in `PROJECT.json` without a property: the code
never does what the property would ask for.

## 6. Where the code differs from what is said of it

* `breaker_session`: nothing calls `reset_daily` at the session boundary; yesterday's
  floor locks today at the first poll, and a lock never opens again.

Seen while modelling and not run:

* Orders.  With `max_positions` 1, the live setting, a reversal flattens and then refuses
  its order: the size it compares was computed before the flatten (adapter.py:462, 524).
  A reversal disarms the adapter in its own flatten, places its order all
  the same and leaves the adapter disarmed.  "Total position size is still capped by
  max_positions" (adapter.py:520), but an accepted order that has not filled, or a
  timed-out one, is in no count.  The dedup guard does not stop two overlapping
  calls with one id; the service's semaphore does.
* Operator.  A close-all request is put into `state.json` "so the main agent loop can
  process it" (operator_handler.py:190), but the save of a disarm or an arm flag
  (execution_flags.py:257, 280) and that of a start (service_lifecycle.py:159) drop it
  when a cycle without data, or a pause, lies between: `RequestsServed` excepts them.
  A close-all whose clear fails, which is logged and swallowed (state_manager.py:134), is
  obeyed again in each following cycle that has data, until a save succeeds
  (execution_orchestrator.py:276).  A load that fails counts as an empty state, which
  the save of another request's ingestion or clear then writes (operator_handler.py:168,
  198).  A handler that raises leaves its request to the save of the same cycle, which
  drops it (service_loop.py:306).  Closing one
  trade flattens the account. An arm flag older than a kill is honoured at the next
  check of the flags. A kill found while the broker is unreachable removes its flag
  and flattens nothing (execution_flags.py:207).
* Session.  `_connected` stays set, so that the reconnect loop's `connect()` returns at
  once, and a poll that fails quietly ends the loop as "reconnected": giving up,
  with its kill request, takes twenty escaped exceptions in a row.  A failed renewal
  is retried 75 minutes later.  A refused `connect()` at startup is not repeated.
  "All tracked tasks are cancelled during disconnect()" (adapter.py:120), but the poll
  after a reconnection is not.  The first cooldown after a 429 is 60 s where the
  comment says 30, and a `get_positions` during a cooldown extends it.  The poll removes
  tracked orders older than ten minutes, but polls are only sent while the socket
  is down: what was missed stays while it is up (adapter.py:1555).
* Executor.  Validations share one task id.  A startup snapshot that was given
  up keeps the executor busy, a pool thread's validation waits behind it, the main
  task's replaces its future, and the pool thread waits for ever, although the future
  "will contain the result or exception" (ibkr_data_executor.py:1139); when all threads
  are lost in this way, the analysis, which needs one and has no limit, never runs again.
  A ConnectTask that connects does not set `_connected`, so that `is_connected`
  stays false until a connection is lost and made by `_ensure_connected`.
  Tasks left in the queue at a stop are never answered: "provider-owned threads do not
  keep the process alive" (service_lifecycle.py:286), but pool threads that await them do.
  The handler of error 354 is never registered, because `_run_executor` has set `ib`
  before `_ensure_connected` looks whether it is None.
* Market data.  The breaker keeps one data frame for all timeframes
  (ibkr_provider.py:106): a single failed request for one timeframe is answered with the
  bars of another, which go into its buffer and stay while its cache is valid; `_fetch_multitimeframe_data`
  says it fetches "5m and 15m timeframe data" (data_fetcher.py:628).  What the breaker
  answers counts as usable data and resets `connection_failures`, so that an outage after a
  first success does not reach "pause service if too many connection failures"
  (service_loop.py:211); what remains is the stale data guard.  "One probe request is
  allowed through" when half-open (ibkr_provider.py:42): all are.  The fetcher's own staleness guard
  never runs, because it looks for a column the provider has made the index
  (data_fetcher.py:236); an empty answer for a higher timeframe renews its cache; a provider
  exception never reaches the retry around `get_latest_bar` (ibkr_provider.py:491).
* Journal.  `_sync_virtual_trades_with_broker` "closes any virtual trades that don't have
  a corresponding broker position" (service.py:1124), which "prevents stale virtual trades from
  blocking the circuit breaker" (service_loop.py:627): it calls `append_signal`
  (service.py:1162), which no class has, and the AttributeError is swallowed.  With virtual
  P&L off, as in the live configuration, nothing else writes "exited", and an account that is
  flat has an empty `_live_positions`, for which the check of the positions falls back to the
  journal, not "only if broker data is unavailable" (signal_handler.py:581).  With
  `max_concurrent_positions` 1 a trade entered once therefore refuses every later signal
  until its line leaves the 300 that are read.
  The pruning of the journal (scheduled_tasks.py:466) compares a naive time with an aware
  one, swallows the TypeError and keeps every line.  When `save_signal` fails to open its
  lock twice, `signal_record` is unbound and the row is not queued either.
  A first row that lands late, behind "exited", or an exit whose row could not be written
  lets a trade be booked twice; under the adapter, a trade entered before its first row has
  landed is booked as the long of one contract.
* Writes.  "HIGH: NEVER dropped" does not hold at the overflow list's cap, and a
  MEDIUM write is dropped while LOW ones wait (async_sqlite_queue.py:184).
* Stops.  The stop sent last is remembered without its position, so that a new
  position's stop within 0.25 of it is never moved (position_monitor.py:230).  Trailing states are kept by contract id and registered by entry price
  alone; after a restart with a failed order query the manager starts from a guess
  that may loosen the stop (trailing_stop.py:11 says it never does); three failed
  queries place a second, standalone stop that outlives the position; the
  runner asks for breakeven once; a runner without an ATR is never registered;
  an advanced exit's flatten leaves the bracket's orders; `remove_fixed_tp` is read
  and unused; an override posted between the read and the unlink is lost.
* Breaker.  `record_trade_result` has no caller, so that losses in a row, the win rate
  and the equity curve never act; `enable_tiered_loss_response` replaces the check of
  two losses in a row; `should_allow_signal` does not look at the locked flag, and a
  lock's 600 minutes may end before 18:00 ET; a later trip replaces a longer cooldown.
  `tv_paper_eval_tracker.py` is imported by no other module.

## 7. Plan

Done: `BracketPlacement`, `OrderDesk`, `OperatorControl`, `WriteSink`, `AsyncWriteQueue`,
`TrailingStop`, `TradingBreaker`, `BrokerSession`, `IbkrExecutor`, `MarketData`, `SignalJournal`, their runs, and the theorems of section 4.  Next, in
this order:

1. `ServiceLoop`: consecutive errors, auto-resume, cadence.
2. `state.json`: the read-modify-writes of the agent and the API.
3. Reconciliation of the journal with the broker's fills (`position_tracker.py`).
4. Pure algorithms: FIFO results of `performance_tracker`, cadence arithmetic,
   auto-flat times, each against a reference definition.

Not planned: the strategy (floating-point indicators), the configuration's
parsing, notification texts and the dashboard's read-only endpoints, which keep no
state that trading depends on.
