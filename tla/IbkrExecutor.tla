----------------------------- MODULE IbkrExecutor -----------------------------
(***************************************************************************)
(* The market data connection: IBKRExecutor (one thread that owns the IB   *)
(* connection and takes tasks from a queue), the calls IBKRProvider makes  *)
(* of it, and the service's main task and pool threads that make those.    *)
(*                                                                         *)
(* A call consists of two tasks: a ConnectTask, always under the task id   *)
(* "validate_connection", and the request itself under an id of its own.   *)
(* The caller waits for the future of each.  _results maps an id to the    *)
(* future submitted last under it; `entry' is what it holds for the shared *)
(* id.  Historical data are fetched by a pool thread for which the main    *)
(* task waits at most 60 s; the latest bar by the main task itself, which  *)
(* waits without limit, except for the first time (2.5 s).                 *)
(*                                                                         *)
(* Time is left out: the 60 s may run out while the executor executes a    *)
(* request (one of historical data may take six times 30 s) and when the   *)
(* awaited thread can get no answer any more.  Because of the provider's   *)
(* breaker and of the caches above it any fetch may be answered without a  *)
(* call (Answered), whatever they hold.  ib_insync and the gateway are     *)
(* external: a connection attempt succeeds exactly when the gateway is     *)
(* reachable.  Every task the gateway works on ends.                       *)
(***************************************************************************)
EXTENDS Naturals, Sequences, FiniteSets

CONSTANTS
  Workers,          \* threads of the event loop's default pool
  ConnectAttempts   \* max_reconnect_attempts, 3 in the code

(* No thread has the name of a task or of a place. *)
ASSUME WorkersAssumption ==
  Workers \cap {"main", "orphan", "none", "connect", "shutdown"} = {}
ASSUME ConnectAttemptsAssumption == ConnectAttempts \in Nat \ {0}

Callers == Workers \cup {"main"}
(* The task of a call whose future was cancelled.                          *)
Requests == Callers \cup {"orphan"}
Tasks == Requests \cup {"connect", "shutdown"}

VARIABLES
  mpc,        \* the place of the service's main task
  waits,      \* the pool thread it waits for, or "none"
  call,       \* what each caller does: the future it awaits, or its result
  entry,      \* _results["validate_connection"]: whose future, or "none"
  queue,      \* _task_queue
  hand,       \* the task the executor's thread is busy with, or "none"
  thread,     \* the place of that thread
  ib,         \* ib.isConnected()
  flag,       \* _connected
  attempts,   \* _reconnect_attempts, counted up to ConnectAttempts
  reachable   \* the gateway accepts connections

mainVars == <<mpc, waits>>
linkVars == <<ib, flag, attempts>>
vars == <<mpc, waits, call, entry, queue, hand, thread, ib, flag, attempts, reachable>>

Fetching == {"base", "five", "fifteen"}
Places == Fetching \cup {"boot", "bar", "analyse", "closing", "joining", "closed"}
Stopping == mpc \in {"closing", "joining", "closed"}    \* _shutdown_event
Running == mpc # "closed"                               \* _running

ValuesOK ==
  /\ mpc \in Places
  /\ waits \in Workers \cup {"none"}
  /\ call \in [Callers -> {"idle", "validate", "yes", "no", "data", "bars", "nothing", "error"}]
  /\ entry \in Requests \cup {"none"}
  /\ queue \in Seq(Tasks)
  /\ hand \in Requests \cup {"connect", "none"}
  /\ thread \in {"idle", "ensuring", "executing", "ended"}
  /\ attempts \in 0..ConnectAttempts
FlagsOK == ib \in BOOLEAN /\ flag \in BOOLEAN /\ reachable \in BOOLEAN
HandOK ==
  /\ hand = "none" <=> thread \in {"idle", "ended"}
  /\ thread = "ensuring" => hand # "connect"
(* Every variable has its type, and the thread holds a task exactly when   *)
(* it is busy; a ConnectTask never goes through _ensure_connected.         *)
TypeOK == ValuesOK /\ FlagsOK /\ HandOK

Init ==
  /\ mpc = "boot" /\ waits = "none"
  /\ call = [c \in Callers |-> "idle"]
  /\ entry = "none" /\ queue = <<>> /\ hand = "none" /\ thread = "idle"
  /\ ib = FALSE /\ flag = FALSE /\ attempts = 0
  /\ reachable \in BOOLEAN

-----------------------------------------------------------------------------
(* The calls.                                                              *)

(* is_connected().                                                         *)
Connected == flag /\ ib

(* VARIANT: submit_task keeps a future that is already under the id.       *)
ValidateKeepsFirst(c) ==
  /\ call' = [call EXCEPT ![c] = "validate"]
  /\ entry' = (IF entry = "none" THEN c ELSE entry)
  /\ queue' = Append(queue, "connect")
(* validate_connection up to its await: submit_task replaces the future    *)
(* under the shared id, then queues the task.                              *)
Validate(c) ==
  /\ call' = [call EXCEPT ![c] = "validate"]
  /\ entry' = c
  /\ queue' = Append(queue, "connect")

(* Where the main task goes from a place: fetch_latest_data (base bars,    *)
(* latest bar, 5m, 15m), the analysis, and the next cycle.  Without any    *)
(* bar there is no more to fetch; the analysis may be skipped.             *)
After(place) ==
  CASE place = "boot" -> {"base"}
    [] place = "base" -> {"bar"}
    [] place = "bar" -> {"five", "base"}
    [] place = "five" -> {"fifteen"}
    [] place = "fifteen" -> {"analyse", "base"}
    [] OTHER -> {place}

(* The call of c returns; whoever awaits it goes on.                       *)
Return(c) ==
  /\ call' = [call EXCEPT ![c] = "idle"]
  /\ IF c = "main" \/ c = waits
     THEN mpc' \in After(mpc) /\ waits' = "none"
     ELSE UNCHANGED mainVars

(* validate_connection goes on: a ConnectTask that failed is overruled by  *)
(* is_connected().  Then the request is submitted, unless the executor has *)
(* been stopped.                                                           *)
ValidationEnds(c) ==
  /\ call[c] \in {"yes", "no"}
  /\ IF (call[c] = "yes" \/ Connected) /\ Running
     THEN /\ call' = [call EXCEPT ![c] = "data"]
          /\ queue' = Append(queue, c)
          /\ UNCHANGED mainVars
     ELSE Return(c) /\ UNCHANGED queue
  /\ UNCHANGED <<entry, hand, thread, linkVars, reachable>>

RequestEnds(c) ==
  /\ call[c] \in {"bars", "nothing", "error"}
  /\ Return(c)
  /\ UNCHANGED <<entry, queue, hand, thread, linkVars, reachable>>

-----------------------------------------------------------------------------
(* The main task.                                                          *)

(* get_latest_bar: for the startup snapshot and in each cycle.             *)
MainAsks ==
  /\ mpc \in {"boot", "bar"} /\ call["main"] = "idle"
  /\ Validate("main")
  /\ UNCHANGED <<mainVars, hand, thread, linkVars, reachable>>

(* wait_for(run_in_executor(fetch_historical)) with a thread that is free. *)
FetchStarts(w) ==
  /\ mpc \in Fetching /\ waits = "none" /\ call[w] = "idle"
  /\ Validate(w) /\ waits' = w
  /\ UNCHANGED <<mpc, hand, thread, linkVars, reachable>>

(* A cache that is still valid or the breaker answers without a call.      *)
Answered ==
  /\ mpc \in Fetching \cup {"bar"} /\ waits = "none" /\ call["main"] = "idle"
  /\ mpc' \in After(mpc)
  /\ UNCHANGED <<waits, call, entry, queue, hand, thread, linkVars, reachable>>

(* The executor works on a request.                                        *)
Requesting == thread = "executing" /\ hand # "connect"
(* c waits for a future that nothing leads to any more.                    *)
Forgotten(c) == call[c] = "validate" /\ entry # c
NoneFree == \A w \in Workers : call[w] # "idle"

(* The 60 s run out: the thread goes on, or the work that no thread has    *)
(* taken up is cancelled.                                                  *)
WaitTimesOut ==
  /\ mpc \in Fetching
  /\ IF waits = "none" THEN NoneFree ELSE Requesting \/ Forgotten(waits)
  /\ mpc' \in After(mpc) /\ waits' = "none"
  /\ UNCHANGED <<call, entry, queue, hand, thread, linkVars, reachable>>

(* What the executor holds of the main task's call becomes an orphan.      *)
Orphaned(task) == IF task = "main" THEN "orphan" ELSE task
(* The startup snapshot's 2.5 s run out: the future is cancelled, its task *)
(* is executed all the same.                                               *)
StartupTimesOut ==
  /\ mpc = "boot" /\ call["main"] \in {"validate", "data"}
  /\ mpc' = "base"
  /\ call' = [call EXCEPT !["main"] = "idle"]
  /\ entry' = Orphaned(entry) /\ hand' = Orphaned(hand)
  /\ queue' = [i \in DOMAIN queue |-> Orphaned(queue[i])]
  /\ UNCHANGED <<waits, thread, linkVars, reachable>>

(* run_in_executor(_analyze_fn), which needs a free thread and has no      *)
(* limit.                                                                  *)
Analyse ==
  /\ mpc = "analyse" /\ ~NoneFree /\ mpc' = "base"
  /\ UNCHANGED <<waits, call, entry, queue, hand, thread, linkVars, reachable>>

(* IBKRExecutor.stop, from MarketAgentDataFetcher.close when the loop has  *)
(* ended: the event and the disconnection, ...                             *)
StopSignals ==
  /\ mpc = "base" /\ waits = "none" /\ mpc' = "closing"
  /\ ib' = FALSE
  /\ UNCHANGED <<waits, call, entry, queue, hand, thread, flag, attempts, reachable>>
(* ... the marker in the queue, ...                                        *)
StopQueues ==
  /\ mpc = "closing" /\ mpc' = "joining"
  /\ queue' = Append(queue, "shutdown")
  /\ UNCHANGED <<waits, call, entry, hand, thread, linkVars, reachable>>
(* ... and the join, which gives up after 10 s on a thread that is busy.   *)
StopJoined ==
  /\ mpc = "joining" /\ thread # "idle" /\ mpc' = "closed"
  /\ UNCHANGED <<waits, call, entry, queue, hand, thread, linkVars, reachable>>

-----------------------------------------------------------------------------
(* The executor's thread: _run_executor.                                   *)

(* VARIANT: the task stays in hand.                                        *)
NextTaskHeld ==
  /\ hand' = hand
  /\ thread' = (IF Stopping THEN "ended" ELSE "idle")
(* The task is done: the loop's condition.                                 *)
NextTask ==
  /\ hand' = "none"
  /\ thread' = (IF Stopping THEN "ended" ELSE "idle")

(* VARIANT: stop() has disconnected already.                               *)
LinkAfterKept(up) == ib' = up
(* The connection after a task: the thread that ends closes it.            *)
LinkAfter(up) == ib' = (up /\ ~Stopping)

(* get() returns a task, perhaps after the event was set.                  *)
Take ==
  /\ thread = "idle" /\ queue # <<>> /\ Head(queue) # "shutdown"
  /\ queue' = Tail(queue) /\ hand' = Head(queue)
  /\ thread' = (IF Head(queue) = "connect" THEN "executing" ELSE "ensuring")
  /\ UNCHANGED <<mainVars, call, entry, linkVars, reachable>>

(* get() returns the marker, or nothing in 0.5 s.                          *)
ThreadEnds ==
  /\ thread = "idle" /\ Stopping
  /\ IF queue = <<>> THEN UNCHANGED queue
     ELSE Head(queue) = "shutdown" /\ queue' = Tail(queue)
  /\ thread' = "ended" /\ ib' = FALSE
  /\ UNCHANGED <<mainVars, call, entry, hand, flag, attempts, reachable>>

(* _ensure_connected: nothing to do.  A connection that a ConnectTask made *)
(* is found up, and _connected stays as it is.                             *)
EnsureReady ==
  /\ thread = "ensuring" /\ ib /\ thread' = "executing"
  /\ UNCHANGED <<mainVars, call, entry, queue, hand, linkVars, reachable>>

EnsureConnects ==
  /\ thread = "ensuring" /\ ~ib /\ reachable /\ thread' = "executing"
  /\ ib' = TRUE /\ flag' = TRUE /\ attempts' = 0
  /\ UNCHANGED <<mainVars, call, entry, queue, hand, reachable>>

(* VARIANT: the attempts are not counted.                                  *)
EnsureFailsForever ==
  /\ thread = "ensuring" /\ ~ib /\ ~reachable
  /\ flag' = FALSE /\ UNCHANGED attempts
  /\ UNCHANGED <<mainVars, call, entry, queue, hand, thread, ib, reachable>>
(* An attempt fails and another one follows after a delay; neither looks   *)
(* at the event.                                                           *)
EnsureFails ==
  /\ thread = "ensuring" /\ ~ib /\ ~reachable /\ attempts + 1 < ConnectAttempts
  /\ flag' = FALSE /\ attempts' = attempts + 1
  /\ UNCHANGED <<mainVars, call, entry, queue, hand, thread, ib, reachable>>

(* The future of the request in hand gets its result.                      *)
Resolve(result) ==
  IF hand = "orphan" THEN UNCHANGED call ELSE call' = [call EXCEPT ![hand] = result]

(* VARIANT: the exception is logged and the future forgotten.              *)
GiveUpUnanswered ==
  /\ thread = "ensuring" /\ ~ib /\ ~reachable /\ attempts + 1 >= ConnectAttempts
  /\ flag' = FALSE /\ attempts' = ConnectAttempts
  /\ NextTask /\ LinkAfter(ib)
  /\ UNCHANGED <<mainVars, call, entry, queue, reachable>>
(* The last attempt fails: the exception is the future's.  The counter is  *)
(* not reset, so that the next request has one attempt.                    *)
GiveUp ==
  /\ thread = "ensuring" /\ ~ib /\ ~reachable /\ attempts + 1 >= ConnectAttempts
  /\ flag' = FALSE /\ attempts' = ConnectAttempts
  /\ Resolve("error") /\ NextTask /\ LinkAfter(ib)
  /\ UNCHANGED <<mainVars, entry, queue, reachable>>

(* VARIANT: no connection is tried after the attempts were used up.        *)
CanConnectOnce == reachable /\ attempts < ConnectAttempts
(* ib.connect succeeds.                                                    *)
CanConnect == reachable

(* ConnectTask.execute: what is under the shared id now gets the answer,   *)
(* whoever submitted this task.  Only an error whose text speaks of a      *)
(* connection resets _connected, and nothing here sets it.                 *)
ConnectDone ==
  /\ thread = "executing" /\ hand = "connect"
  /\ LET up == ib \/ CanConnect
     IN /\ call' = (IF entry \in Callers
                    THEN [call EXCEPT ![entry] = IF up THEN "yes" ELSE "no"]
                    ELSE call)
        /\ flag' \in (IF up THEN {flag} ELSE {flag, FALSE})
        /\ LinkAfter(up)
  /\ entry' = "none" /\ NextTask
  /\ UNCHANGED <<mainVars, queue, attempts, reachable>>

(* GetHistoricalDataTask.execute for a future: every exception becomes an  *)
(* empty list.                                                             *)
HistoryDone(result) ==
  /\ thread = "executing" /\ hand \in Workers
  /\ result = "bars" => ib
  /\ Resolve(result) /\ NextTask /\ LinkAfter(ib)
  /\ UNCHANGED <<mainVars, entry, queue, flag, attempts, reachable>>

(* GetLatestBarTask.execute for a future: Level 1, then recent history,    *)
(* then None.                                                              *)
BarDone(result) ==
  /\ thread = "executing" /\ hand \in {"main", "orphan"}
  /\ result = "bars" => ib
  /\ Resolve(result) /\ NextTask /\ LinkAfter(ib)
  /\ UNCHANGED <<mainVars, entry, queue, flag, attempts, reachable>>

ThreadStep ==
  \/ Take \/ ThreadEnds
  \/ EnsureReady \/ EnsureConnects \/ EnsureFails \/ GiveUp
  \/ ConnectDone
  \/ \E result \in {"bars", "nothing"} : HistoryDone(result) \/ BarDone(result)

-----------------------------------------------------------------------------
(* The gateway.                                                            *)
GatewayStops ==
  /\ reachable' = FALSE /\ ib' = FALSE
  /\ UNCHANGED <<mainVars, call, entry, queue, hand, thread, flag, attempts>>
GatewayStarts ==
  /\ ~reachable /\ reachable' = TRUE
  /\ UNCHANGED <<mainVars, call, entry, queue, hand, thread, linkVars>>
LinkDrops ==
  /\ ib /\ ib' = FALSE
  /\ UNCHANGED <<mainVars, call, entry, queue, hand, thread, flag, attempts, reachable>>

-----------------------------------------------------------------------------
CallerStep(c) == ValidationEnds(c) \/ RequestEnds(c)
Stop == StopSignals \/ StopQueues \/ StopJoined
MainStep ==
  \/ MainAsks \/ Answered \/ WaitTimesOut \/ StartupTimesOut \/ Analyse \/ Stop
  \/ \E w \in Workers : FetchStarts(w)
Gateway == GatewayStops \/ GatewayStarts \/ LinkDrops

Next == MainStep \/ (\E c \in Callers : CallerStep(c)) \/ ThreadStep \/ Gateway

Spec == Init /\ [][Next]_vars
(* The threads and the event loop run; a call that can go on goes on.      *)
FairSpec ==
  /\ Spec
  /\ WF_vars(ThreadStep) /\ WF_vars(MainAsks) /\ WF_vars(StopQueues) /\ WF_vars(StopJoined)
  /\ \A c \in Callers : WF_vars(CallerStep(c))

-----------------------------------------------------------------------------
InQueue(task) == \E i \in DOMAIN queue : queue[i] = task
Ahead(task) == InQueue(task) \/ hand = task

(* submit_task and _run_executor: while the executor runs, a request that  *)
(* is awaited is still to be executed, and the main task's validation will *)
(* be answered although its id is shared.                                  *)
NobodyForgotten ==
  ~Stopping =>
    /\ \A c \in Callers : call[c] = "data" => Ahead(c)
    /\ call["main"] = "validate" => entry = "main" /\ Ahead("connect")

(* _run_executor and stop: whatever the thread was doing when stop() had   *)
(* disconnected, the connection and its client id are free when it ends.   *)
FreedAtEnd == thread = "ended" => ~ib

(* get_latest_bar, for which the loop waits without a limit, returns.      *)
BarReturns == mpc = "bar" ~> mpc # "bar"

(* stop(): the thread ends, though perhaps after the join has given up.    *)
StopEnds == Stopping ~> thread = "ended"

(* ConnectTask: attempts used up earlier do not keep the executor from     *)
(* connecting again when the gateway is back.                              *)
Reconnects == (([]reachable) /\ mpc = "bar" /\ call["main"] = "validate") ~> ib
=============================================================================
