---------------------------- MODULE SignalJournal ----------------------------
(***************************************************************************)
(* The record the agent keeps of its trades, and what it decides with it:  *)
(* signal_handler.py from the check of the open positions to the entry,    *)
(* virtual_trade_manager.py and the close requests of service.py for the   *)
(* exits, performance_tracker.py for the bookings.                         *)
(*                                                                         *)
(* The record is threefold.  signals.jsonl, the journal, has a line for    *)
(* each change of a signal's status.  The table signal_events of the       *)
(* database has a row for each; the first of a signal, "generated", goes   *)
(* through the asynchronous queue, the others are written on the spot.     *)
(* performance.json has an entry for each exit.  The check of the open     *)
(* positions and the search for exits read the journal, through a cache    *)
(* that lives 15 s; track_exit reads the table.                            *)
(*                                                                         *)
(* The loop is one coroutine.  What may come between its writes is the     *)
(* worker of the queue, the end of the process and a write that fails:     *)
(* every failure is logged and the code goes on.  Position events arrive   *)
(* at the awaits.                                                          *)
(*                                                                         *)
(* With the Tradovate adapter the service executes signals by              *)
(* follower_execute, without an adapter by process_signal.  The breaker is *)
(* in mode "enforce" and only its position limit is modelled: a signal it  *)
(* blocks otherwise leaves no trace here.  Pruning and rotation of the     *)
(* journal are left out: the first removes nothing (it compares a time     *)
(* without zone with one that has one, and keeps a line on any error), the *)
(* second keeps the newest 10000 lines, of which at most 500 are read.     *)
(***************************************************************************)
EXTENDS Naturals, Sequences, FiniteSets, SequencesExt

CONSTANTS
  None,
  MaxSignals,    \* signals admitted, a bound
  Modes,         \* the configurations: is there an adapter, is virtual P&L on
  MaxOpen,       \* max_concurrent_positions
  Window,        \* the lines a check or a search reads, 300 in the code
  Wide,          \* the lines a close request reads, 500
  MaxTroubles    \* restarts and writes that fail, a bound

ASSUME BoundsAssumption ==
  /\ MaxSignals \in Nat \ {0} /\ MaxOpen \in Nat \ {0}
  /\ Window \in Nat \ {0} /\ Wide \in Nat /\ Wide > Window
  /\ MaxTroubles \in Nat
ASSUME ModesAssumption == Modes \subseteq [adapter : BOOLEAN, virtual : BOOLEAN]

VARIABLES
  mode,         \* the configuration
  pc,           \* the place of the loop
  made,         \* signals admitted so far; the last is the one in hand
  journal,      \* signals.jsonl
  cache,        \* _signals_cache, or None when there is none or it is too old
  rows,         \* signal_events, the rows of each signal in their order
  queue,        \* signals whose first row waits in the asynchronous queue
  live,         \* _live_positions has a position
  todo,         \* signals about to be closed by a search or a request
  during,       \* which of the two it is
  exit,         \* the exit track_exit is booking
  processed,    \* _processed_exits
  performance,  \* performance.json
  restarts, faults

diskVars == <<journal, rows, performance>>
exitVars == <<todo, during, exit, processed>>
vars == <<mode, pc, made, journal, cache, rows, queue, live, todo, during,
          exit, processed, performance, restarts, faults>>

Ids == 1..MaxSignals
Statuses == {"generated", "entered", "exited"}
Line == [id : Ids, status : Statuses]
Row == [status : Statuses, whole : BOOLEAN]
Booking == [id : Ids, whole : BOOLEAN]
Bookkeeping == {"exitRow", "exitLine", "record"}
ASSUME NoneAssumption == None \notin Booking /\ None \notin Statuses
Places == {"close", "signals", "save", "enqueue", "execute", "enterRow",
           "enterLine", "exits", "track", "sync", "state"} \union Bookkeeping

-----------------------------------------------------------------------------
(* Reading. *)

LastLines(lines, n) ==
  SubSeq(lines, IF Len(lines) > n THEN Len(lines) - n + 1 ELSE 1, Len(lines))

HasLine(lines, s, status) == \E i \in DOMAIN lines : lines[i] = [id |-> s, status |-> status]

\* The status of a signal is that of its last line.
LatestStatus(lines, s) ==
  LET i == SelectLastInSeq(lines, LAMBDA line : line.id = s)
  IN  IF i = 0 THEN None ELSE lines[i].status

OpenIn(lines) == {s \in Ids : LatestStatus(lines, s) = "entered"}

\* get_recent_signals: the cache answers what asks for no more than it holds.
Hit(limit) == cache # None /\ limit <= cache.limit
Recent(limit) == IF Hit(limit) THEN LastLines(cache.lines, limit)
                               ELSE LastLines(journal, limit)
Reads(limit) ==
  cache' = IF Hit(limit) THEN cache
                         ELSE [lines |-> LastLines(journal, limit), limit |-> limit]

\* _get_signal_record: the latest row; without any, the journal's lines merged.
SignalRecord(s) ==
  IF rows[s] # <<>> THEN Last(rows[s])
  ELSE IF HasLine(journal, s, "generated")
       THEN [status |-> LatestStatus(journal, s), whole |-> TRUE]
       ELSE None

\* Some write fails.
Fault == restarts + faults < MaxTroubles /\ faults' = faults + 1

AddRow(s, status, whole) ==
  \/ /\ rows' = [rows EXCEPT ![s] = Append(@, [status |-> status, whole |-> whole])]
     /\ UNCHANGED faults
  \/ Fault /\ UNCHANGED rows

\* The file that _update_signal_status appends to must exist.
AddLine(s, status) ==
  \/ /\ journal' = IF journal = <<>> THEN journal
                   ELSE Append(journal, [id |-> s, status |-> status])
     /\ UNCHANGED faults
  \/ Fault /\ UNCHANGED journal

-----------------------------------------------------------------------------
(* A signal. *)

\* The positions the breaker counts: the broker's, of which there is one at
\* most (one contract), or else the journal's open trades.
ByBroker == mode.adapter /\ live
ActivePositions == IF ByBroker THEN 1 ELSE Cardinality(OpenIn(Recent(Window)))

CheckCircuitBreaker ==
  /\ pc = "signals" /\ made < MaxSignals
  /\ IF ByBroker THEN UNCHANGED cache ELSE Reads(Window)
  /\ IF ActivePositions < MaxOpen
     THEN pc' = "save" /\ made' = made + 1
     ELSE UNCHANGED <<pc, made>>
  /\ UNCHANGED <<mode, diskVars, queue, live, exitVars, restarts, faults>>

\* _validate_entry_price and the checks after it refuse the signal, or it goes on.
Validated == pc' \in {"signals", IF mode.adapter THEN "execute" ELSE "enterRow"}

\* VARIANT: the cache survives a new line.
SaveSignal_KeepsCache ==
  /\ pc = "save"
  /\ \/ /\ journal' = Append(journal, [id |-> made, status |-> "generated"])
        /\ pc' = "enqueue"
        /\ UNCHANGED faults
     \/ Fault /\ (Validated \/ pc' = "enqueue") /\ UNCHANGED journal
  /\ UNCHANGED <<mode, made, cache, rows, queue, live, exitVars, performance, restarts>>

\* The line is written, or it is not; when it is the lock file that could not be
\* opened, twice, then no row is queued either.
SaveSignal ==
  /\ pc = "save"
  /\ \/ /\ journal' = Append(journal, [id |-> made, status |-> "generated"])
        /\ cache' = None
        /\ pc' = "enqueue"
        /\ UNCHANGED faults
     \/ Fault /\ (Validated \/ pc' = "enqueue") /\ UNCHANGED <<journal, cache>>
  /\ UNCHANGED <<mode, made, rows, queue, live, exitVars, performance, restarts>>

EnqueueRow ==
  /\ pc = "enqueue"
  /\ \/ queue' = queue \union {made} /\ UNCHANGED faults
     \/ Fault /\ UNCHANGED queue
  /\ Validated
  /\ UNCHANGED <<mode, made, diskVars, cache, live, exitVars, restarts>>

\* The bracket is placed, or it is refused and the trade is not entered.
ExecuteSignal ==
  /\ pc = "execute"
  /\ pc' \in {"enterRow", "signals"}
  /\ UNCHANGED <<mode, made, diskVars, cache, queue, live, exitVars, restarts, faults>>

\* follower_execute does not hand the signal on, so that the row has its data
\* only if an earlier row has.
EnterRow ==
  /\ pc = "enterRow"
  /\ AddRow(made, "entered",
            ~mode.adapter \/ (rows[made] # <<>> /\ Last(rows[made]).whole))
  /\ pc' = "enterLine"
  /\ UNCHANGED <<mode, made, journal, cache, queue, live, exitVars, performance, restarts>>

EnterLine ==
  /\ pc = "enterLine"
  /\ AddLine(made, "entered")
  /\ pc' = "signals"
  /\ UNCHANGED <<mode, made, cache, rows, queue, live, exitVars, performance, restarts>>

SignalsDone ==
  /\ pc = "signals" /\ pc' = "exits"
  /\ UNCHANGED <<mode, made, diskVars, cache, queue, live, exitVars, restarts, faults>>

-----------------------------------------------------------------------------
(* The exits. *)

\* process_exits closes trades whose stop and target it knows, from the line
\* "generated", and closes none twice.
Candidates(lines) ==
  {s \in OpenIn(lines) \ processed : HasLine(lines, s, "generated")}

\* VARIANT: a trade that was looked at counts as processed.
ProcessExits_MarksAll ==
  /\ pc = "exits"
  /\ \/ /\ mode.virtual
        /\ Reads(Window)
        /\ todo' \in SUBSET Candidates(Recent(Window))
        /\ processed' = processed \union Candidates(Recent(Window))
        /\ during' = "exits"
        /\ pc' = "track"
     \/ pc' = "sync" /\ UNCHANGED <<cache, todo, processed, during>>
  /\ UNCHANGED <<mode, made, diskVars, queue, live, exit, restarts, faults>>

\* The bars touch the stop or the target of some; there may be no bars.
ProcessExits ==
  /\ pc = "exits"
  /\ \/ /\ mode.virtual
        /\ Reads(Window)
        /\ todo' \in SUBSET Candidates(Recent(Window))
        /\ during' = "exits"
        /\ pc' = "track"
     \/ pc' = "sync" /\ UNCHANGED <<cache, todo, during>>
  /\ UNCHANGED <<mode, made, diskVars, queue, live, exit, processed, restarts, faults>>

\* Close-all closes whatever has a line "entered", a request for some trades
\* those among them that it names.
CloseRequests ==
  /\ pc = "close"
  /\ \/ /\ mode.virtual
        /\ Reads(Wide)
        /\ todo' \in SUBSET {s \in Ids : HasLine(Recent(Wide), s, "entered")}
        /\ during' = "close"
        /\ pc' = "track"
     \/ pc' = "signals" /\ UNCHANGED <<cache, todo, during>>
  /\ UNCHANGED <<mode, made, diskVars, queue, live, exit, processed, restarts, faults>>

\* The search is through with a trade, whatever became of it.
Through(s) ==
  /\ todo' = todo \ {s}
  /\ processed' = IF during = "exits" THEN processed \union {s} ELSE processed

TrackDone ==
  /\ pc = "track" /\ todo = {}
  /\ pc' = IF during = "exits" THEN "sync" ELSE "signals"
  /\ UNCHANGED <<mode, made, diskVars, cache, queue, live, exitVars, restarts, faults>>

\* VARIANT: an exited trade is booked again.
TrackExit_NoGuard ==
  /\ pc = "track" /\ todo # {}
  /\ LET s == Min(todo)
         record == SignalRecord(s)
     IN  IF record = None
         THEN Through(s) /\ UNCHANGED <<pc, exit>>
         ELSE /\ exit' = [id |-> s, whole |-> record.whole]
              /\ pc' = "exitRow"
              /\ UNCHANGED <<todo, processed>>
  /\ UNCHANGED <<mode, made, diskVars, cache, queue, live, during, restarts, faults>>

TrackExit ==
  /\ pc = "track" /\ todo # {}
  /\ LET s == Min(todo)
         record == SignalRecord(s)
     IN  IF record = None \/ record.status = "exited"
         THEN Through(s) /\ UNCHANGED <<pc, exit>>
         ELSE /\ exit' = [id |-> s, whole |-> record.whole]
              /\ pc' = "exitRow"
              /\ UNCHANGED <<todo, processed>>
  /\ UNCHANGED <<mode, made, diskVars, cache, queue, live, during, restarts, faults>>

\* The row repeats what the latest row, read anew, has of the signal.
ExitRow ==
  /\ pc = "exitRow"
  /\ AddRow(exit.id, "exited", rows[exit.id] # <<>> /\ Last(rows[exit.id]).whole)
  /\ pc' = "exitLine"
  /\ UNCHANGED <<mode, made, journal, cache, queue, live, exitVars, performance, restarts>>

ExitLine ==
  /\ pc = "exitLine"
  /\ AddLine(exit.id, "exited")
  /\ pc' = "record"
  /\ UNCHANGED <<mode, made, cache, rows, queue, live, exitVars, performance, restarts>>

SavePerformance ==
  /\ pc = "record"
  /\ \/ performance' = Append(performance, exit) /\ UNCHANGED faults
     \/ Fault /\ UNCHANGED performance
  /\ Through(exit.id)
  /\ exit' = None
  /\ pc' = "track"
  /\ UNCHANGED <<mode, made, journal, cache, rows, queue, live, during, restarts>>

-----------------------------------------------------------------------------
(* The rest of the cycle, and what happens around it. *)

\* Once a minute _sync_virtual_trades_with_broker reads the journal.  It would
\* close what the broker no longer holds, but the method it calls does not exist
\* and the exception is swallowed.
SyncWithBroker ==
  /\ pc = "sync" /\ pc' = "state"
  /\ \/ mode.adapter /\ Reads(Window)
     \/ UNCHANGED cache
  /\ UNCHANGED <<mode, made, diskVars, queue, live, exitVars, restarts, faults>>

\* build_state counts the open trades.
SaveState ==
  /\ pc = "state" /\ pc' = "close"
  /\ Reads(Window)
  /\ UNCHANGED <<mode, made, diskVars, queue, live, exitVars, restarts, faults>>

\* It is noticed where the cache is asked.
CacheExpires ==
  /\ cache # None /\ pc \in {"close", "signals", "exits", "sync", "state"}
  /\ cache' = None
  /\ UNCHANGED <<mode, pc, made, diskVars, queue, live, exitVars, restarts, faults>>

\* The worker of the queue writes a row, or fails to.
RowLands(s) ==
  /\ s \in queue
  /\ queue' = queue \ {s}
  /\ AddRow(s, "generated", TRUE)
  /\ UNCHANGED <<mode, pc, made, journal, cache, live, exitVars, performance, restarts>>

\* A position of the account, ours or not, is opened or closed.  The awaits
\* between the last signal and the next cycle are one here.
PositionEvent ==
  /\ mode.adapter /\ pc \in {"close", "execute"}
  /\ live' = ~live
  /\ UNCHANGED <<mode, pc, made, diskVars, cache, queue, exitVars, restarts, faults>>

\* VARIANT: the exit in hand survives its process.
Restart_KeepsExit ==
  /\ restarts + faults < MaxTroubles
  /\ restarts' = restarts + 1
  /\ pc' = "close"
  /\ cache' = None /\ queue' = {} /\ live' = FALSE
  /\ todo' = {} /\ during' = "close" /\ processed' = {}
  /\ UNCHANGED <<mode, made, diskVars, exit, faults>>

\* The process ends and another begins; files and database remain.
Restart ==
  /\ restarts + faults < MaxTroubles
  /\ restarts' = restarts + 1
  /\ pc' = "close"
  /\ cache' = None /\ queue' = {} /\ live' = FALSE
  /\ todo' = {} /\ during' = "close" /\ exit' = None /\ processed' = {}
  /\ UNCHANGED <<mode, made, diskVars, faults>>

-----------------------------------------------------------------------------

Init ==
  /\ mode \in Modes
  /\ pc = "close" /\ made = 0
  /\ journal = <<>> /\ rows = [s \in Ids |-> <<>>] /\ performance = <<>>
  /\ cache = None /\ queue = {} /\ live = FALSE
  /\ todo = {} /\ during = "close" /\ exit = None /\ processed = {}
  /\ restarts = 0 /\ faults = 0

\* What the loop does of itself; signals come from the strategy.
Loop ==
  \/ SaveSignal \/ EnqueueRow \/ ExecuteSignal \/ EnterRow \/ EnterLine \/ SignalsDone
  \/ ProcessExits \/ CloseRequests \/ TrackExit \/ TrackDone
  \/ ExitRow \/ ExitLine \/ SavePerformance
  \/ SyncWithBroker \/ SaveState

Next ==
  \/ Loop \/ CheckCircuitBreaker
  \/ CacheExpires \/ PositionEvent \/ Restart
  \/ \E s \in Ids : RowLands(s)

Spec == Init /\ [][Next]_vars

\* The loop goes on, and the bars of a trade that stays open touch its stop or
\* its target in the end.  Nothing is assumed of the worker.
FairSpec ==
  /\ Spec
  /\ WF_vars(Loop)
  /\ \A s \in Ids : SF_vars(ProcessExits /\ s \in todo')

-----------------------------------------------------------------------------
(* Properties. *)

\* The types; an exit is in hand exactly while it is being booked, and it is
\* one of those to be closed.
TypeOK ==
  /\ mode \in Modes
  /\ pc \in Places
  /\ made \in 0..MaxSignals
  /\ journal \in Seq(Line)
  /\ cache = None \/ (cache.lines \in Seq(Line) /\ cache.limit \in {Window, Wide})
  /\ DOMAIN rows = Ids /\ \A s \in Ids : rows[s] \in Seq(Row)
  /\ queue \subseteq 1..made
  /\ live \in BOOLEAN /\ (live => mode.adapter)
  /\ todo \subseteq 1..made /\ processed \subseteq 1..made
  /\ during \in {"close", "exits"}
  /\ exit \in Booking \union {None}
  /\ exit # None <=> pc \in Bookkeeping
  /\ exit # None => exit.id \in todo
  /\ performance \in Seq(Booking)
  /\ restarts \in Nat /\ faults \in Nat /\ restarts + faults <= MaxTroubles

Bookings(s) == {i \in DOMAIN performance : performance[i].id = s}
ExitedRows(s) == {i \in DOMAIN rows[s] : rows[s][i].status = "exited"}

\* The queued row "generated" of a signal landed behind its exit.
ExitOvertaken(s) ==
  \E i \in ExitedRows(s) : \E j \in DOMAIN rows[s] :
    j > i /\ rows[s][j].status = "generated"

\* track_exit books each trade once, although the searches, the requests (which
\* do not ask for the latest status) and a restart lead to it again and again:
\* each booking more takes a row "exited" that could not be written, but for one
\* that the row "generated" may cause when it lands late.  And it books a trade
\* with its own direction and size, never as the long of one contract it takes
\* for a record without data, unless the adapter entered it before the worker
\* had written its first row.  No exit of the table is missing among the
\* bookings but for the one in hand and one for each restart or failed write.
BookedRight ==
  \A s \in Ids :
    /\ Cardinality(Bookings(s)) <= faults + (IF ExitOvertaken(s) THEN 2 ELSE 1)
    /\ (\E i \in Bookings(s) : ~performance[i].whole)
         => mode.adapter /\ rows[s][1].status # "generated"
    /\ Cardinality(ExitedRows(s)) <=
         Cardinality(Bookings(s)) + (IF exit # None /\ exit.id = s THEN 1 ELSE 0)
           + restarts + faults

\* A signal the journal decides about is admitted only while fewer than MaxOpen
\* trades of the file are open, however old the cache is: a trade is in what the
\* check reads as soon as it is entered (if its first line could be written).
OneOpenTrade ==
  [][pc = "signals" /\ pc' = "save" /\ ~ByBroker
      => Cardinality({s \in OpenIn(LastLines(journal, Window)) :
                        HasLine(journal, s, "generated")}) < MaxOpen]_vars

\* With virtual P&L on, an open trade whose bars touch its stop or target again
\* and again is booked, through restarts, unless the process ended after the row
\* "exited" and before the booking, or a write failed.
ExitArrives ==
  \A s \in Ids :
    mode.virtual /\ s \in OpenIn(journal)
      ~> \/ Bookings(s) # {}
         \/ ExitedRows(s) # {} /\ (exit = None \/ exit.id # s)
         \/ faults > 0
=============================================================================
