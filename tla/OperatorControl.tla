--------------------------- MODULE OperatorControl ---------------------------
(***************************************************************************)
(* The operator's commands.  The web API and the operator write flag files *)
(* and close requests into the state directory; the agent's loop consumes  *)
(* them at the top of each cycle and every 5 s of a sleep (execution_flags,*)
(* operator_handler), keeps the close requests in state.json until a cycle *)
(* that has market data acts on them (_handle_close_all_requests), and     *)
(* empties the account through the execution adapter.                      *)
(*                                                                         *)
(* Abstractions.  A trade is its signal id: held is the broker's side of   *)
(* it, virtual the record in signals.jsonl.  The pass over the flags awaits*)
(* nothing before cancel_all, so it is one step; what the loop awaits is a *)
(* step, and the other process may write between two steps.  The broker's  *)
(* orders are left to BracketPlacement: here a flatten sells a set of      *)
(* trades and the loop's own orders open one.                              *)
(*                                                                         *)
(* Reading or writing state.json may fail, and so may the closing of the   *)
(* virtual trades; the code logs it and goes on.  Such a mishap is one     *)
(* step's, however many of the step's reads and writes it spoils.  A flag  *)
(* file that is there can be read and removed.                             *)
(*                                                                         *)
(* A definition marked VARIANT is the one after it with one plausible      *)
(* mistake; no action uses it.                                             *)
(***************************************************************************)
EXTENDS Integers, FiniteSets

CONSTANTS
  SignalIds,     \* trades
  ConfigArmed,   \* config.armed
  MaxWrites,     \* bound: flags and requests written
  MaxFaults,     \* bound: steps with a mishap
  MaxRestarts    \* bound: crashes and stops of the agent

ASSUME ConfigAssumption == ConfigArmed \in BOOLEAN
ASSUME BoundsAssumption ==
  MaxWrites \in Nat /\ MaxFaults \in Nat /\ MaxRestarts \in Nat

Flags == {"kill", "disarm", "arm", "closeAll", "resume"}
AgingFlags == {"kill", "disarm", "arm"}   \* subject to FLAG_TTL_SECONDS

VARIABLES
  (* the state directory, which outlives the agent *)
  flags,       \* the flag files that exist
  aged,        \* those older than FLAG_TTL_SECONDS
  tickets,     \* operator_requests/close_trade_*.json, by signal id
  requests,    \* state.json: close_all_requested, close_signals_requested
  virtual,     \* signals.jsonl: trades whose last status is "entered"
  (* the agent *)
  pc,          \* where its loop is
  job,         \* what it empties the account for
  closing,     \* the trades that job was asked to close
  armed,       \* execution_adapter._armed
  paused,      \* service.paused
  conn,        \* execution_adapter.is_connected()
  (* the broker *)
  held,        \* trades with an open position
  (* history *)
  asked,       \* close-all requests written
  obeyed,      \* close-all jobs begun
  uncleared,   \* those of them with a mishap in the clear of the request
  slipped,     \* a mishap since the cycle had its data
  faults, writes, restarts   \* the bounded counters

stateDir == <<flags, aged, tickets, requests, virtual>>
mishaps == <<slipped, faults>>
history == <<asked, obeyed, uncleared>>
bounds == <<writes, restarts>>
vars == <<flags, aged, tickets, requests, virtual, pc, job, closing, armed,
          paused, conn, held, asked, obeyed, uncleared, slipped, faults,
          writes, restarts>>

(* cancel and flatten: inside the adapter's two calls, for the job.        *)
Points == {"boot", "top", "sleep", "cycle", "handle", "one", "autoFlat",
           "orders", "cancel", "flatten"}

(* A kill found at the top of a cycle or during a sleep, and the two kinds *)
(* of close request.                                                       *)
Jobs == {"none", "killTop", "killSleep", "all", "one"}
KillJobs == {"killTop", "killSleep"}

(* Where the loop goes on when a job ends.                                 *)
After(j) ==
  CASE j = "killTop"   -> "cycle"
    [] j = "killSleep" -> "sleep"
    [] j = "all"       -> "one"
    [] j = "one"       -> "autoFlat"

TypeOK ==
  /\ flags \in SUBSET Flags
  /\ aged \in SUBSET (flags \cap AgingFlags)
  /\ tickets \in SUBSET SignalIds
  /\ requests \in [all : BOOLEAN, only : SUBSET SignalIds]
  /\ virtual \in SUBSET SignalIds
  /\ pc \in Points
  /\ job \in Jobs
  /\ job # "none" <=> pc \in {"cancel", "flatten"}
  /\ closing \in SUBSET SignalIds
  /\ armed \in BOOLEAN
  /\ paused \in BOOLEAN
  /\ conn \in BOOLEAN
  /\ held \in SUBSET SignalIds
  /\ asked \in Nat
  /\ obeyed \in Nat
  /\ uncleared \in Nat
  /\ slipped \in BOOLEAN
  /\ faults \in Nat
  /\ writes \in Nat
  /\ restarts \in Nat

Nothing == [all |-> FALSE, only |-> {}]

(* A first start; trades may be left from an earlier life of the agent.    *)
Init ==
  /\ flags = {}
  /\ aged = {}
  /\ tickets = {}
  /\ requests = Nothing
  /\ held \in SUBSET SignalIds
  /\ virtual \in SUBSET SignalIds
  /\ pc = "boot"
  /\ job = "none"
  /\ closing = {}
  /\ armed = ConfigArmed
  /\ paused = FALSE
  /\ conn = FALSE
  /\ asked = 0
  /\ obeyed = 0
  /\ uncleared = 0
  /\ slipped = FALSE
  /\ faults = 0
  /\ writes = 0
  /\ restarts = 0

-------------------------------------------------------------------------------
(* state.json.                                                             *)

Mishap ==
  /\ faults < MaxFaults
  /\ faults' = faults + 1
  /\ slipped' = TRUE

(* What a step leaves in state.json: what it wants, or, when a load that   *)
(* failed read nothing or a save that failed left the file as it was, one  *)
(* of the others.                                                          *)
Stored(wanted, others) ==
  \/ requests' = wanted /\ UNCHANGED mishaps
  \/ requests' \in others \ {wanted} /\ Mishap

(* build_state() knows nothing of the close requests: a full save of the   *)
(* service's state is also the end of the ones state.json holds.           *)
SaveState == Stored(Nothing, {requests})

(* MarketAgentService.start: save the state, connect the adapter.          *)
Boot ==
  /\ pc = "boot"
  /\ SaveState
  /\ conn' \in BOOLEAN
  /\ pc' = "top"
  /\ UNCHANGED <<flags, aged, tickets, virtual, job, closing, armed, paused,
                 held, history, bounds>>

-------------------------------------------------------------------------------
(* check_execution_control_flags.                                          *)

(* VARIANT: the list of new ids appended, instead of its elements          *)
WithTicketsNested(r) ==
  [r EXCEPT !.only = IF tickets = {} THEN @ ELSE @ \cup {tickets}]

(* process_close_trade_requests, then process_close_all_flag: each loads   *)
(* state.json, adds to it and saves it, and only if it has something.      *)
WithTickets(r) == [r EXCEPT !.only = @ \cup tickets]
WithFlag(r) == [r EXCEPT !.all = TRUE]

Ingested ==
  IF "closeAll" \in flags
  THEN WithFlag(WithTickets(requests))
  ELSE WithTickets(requests)

(* What can become of them when loads or saves fail.                       *)
AfterTickets ==
  IF tickets = {} THEN {requests}
  ELSE {requests, WithTickets(requests), WithTickets(Nothing)}
Ingestions ==
  IF "closeAll" \in flags
  THEN AfterTickets \cup {WithFlag(r) : r \in AfterTickets \cup {Nothing}}
  ELSE AfterTickets

(* The flags that are left once the stale ones were cleared.               *)
Live == flags \ (aged \cup {"resume", "closeAll"})

Ingest == Stored(Ingested, Ingestions)

(* _save_state after the ingestion, of the new value of armed.             *)
IngestAndSave == Stored(Nothing, Ingestions)

Checked ==
  /\ pc' = IF pc = "top" THEN "cycle" ELSE pc
  /\ UNCHANGED <<job, closing>>

(* VARIANT: the flag removed when the kill begins                          *)
BeginKillUnlinks ==
  /\ "kill" \in Live
  /\ armed' = FALSE
  /\ flags' = Live \ {"kill", "disarm"}
  /\ job' = IF pc = "top" THEN "killTop" ELSE "killSleep"
  /\ closing' = SignalIds
  /\ pc' = "cancel"
  /\ Ingest

(* "SAFETY: Disarm FIRST", then await cancel_all()                         *)
BeginKill ==
  /\ "kill" \in Live
  /\ armed' = FALSE
  /\ flags' = Live
  /\ job' = IF pc = "top" THEN "killTop" ELSE "killSleep"
  /\ closing' = SignalIds
  /\ pc' = "cancel"
  /\ Ingest

DisarmFlag ==
  /\ "kill" \notin Live
  /\ "disarm" \in Live
  /\ armed' = FALSE
  /\ flags' = Live \ {"disarm"}
  /\ IngestAndSave
  /\ Checked

ArmFlag ==
  /\ Live \cap {"kill", "disarm"} = {}
  /\ "arm" \in Live
  /\ armed' = TRUE
  /\ flags' = {}
  /\ IngestAndSave
  /\ Checked

NoFlag ==
  /\ Live = {}
  /\ flags' = {}
  /\ Ingest
  /\ Checked
  /\ UNCHANGED armed

(* VARIANT: the flags left for later while the service is paused           *)
CheckFlagsUnlessPaused ==
  /\ pc \in {"top", "sleep"}
  /\ IF paused
       THEN /\ Checked
            /\ UNCHANGED <<flags, aged, tickets, requests, mishaps, armed,
                           paused>>
       ELSE /\ tickets' = {}
            /\ aged' = {}
            /\ BeginKill \/ DisarmFlag \/ ArmFlag \/ NoFlag
            /\ UNCHANGED paused
  /\ UNCHANGED <<virtual, conn, held, history, bounds>>

(* Resume, ingest the close requests, clear the stale flags, then the kill *)
(* or the disarm or the arm flag, the first of them that is there.         *)
CheckFlags ==
  /\ pc \in {"top", "sleep"}
  /\ paused' = (paused /\ "resume" \notin flags)
  /\ tickets' = {}
  /\ aged' = {}
  /\ BeginKill \/ DisarmFlag \/ ArmFlag \/ NoFlag
  /\ UNCHANGED <<virtual, conn, held, history, bounds>>

Wake ==
  /\ pc = "sleep"
  /\ pc' = "top"
  /\ UNCHANGED <<stateDir, job, closing, armed, paused, conn, held, history,
                 mishaps, bounds>>

-------------------------------------------------------------------------------
(* The virtual trades.  Closing them ends in a load and a save of          *)
(* state.json, for the count of the active ones; it may also raise.        *)
CloseAllVirtual(priced) ==
  IF priced
  THEN virtual' = {} /\ Stored(requests, IF virtual = {} THEN {} ELSE {Nothing})
  ELSE UNCHANGED <<virtual, requests, mishaps>>

ClosingRaises(trades) ==
  /\ \E closed \in SUBSET trades : virtual' = virtual \ closed
  /\ Mishap
  /\ UNCHANGED requests

-------------------------------------------------------------------------------
(* Emptying the account: cancel_all, then flatten_all_positions.           *)

(* What follows the flatten without another await.  The kill removes its   *)
(* flag, and the disarm flag, in its finally clause, whatever the flatten  *)
(* reported; then it closes the virtual trades if a price is known.        *)
Finish(left, priced) ==
  /\ held' = left
  /\ pc' = After(job)
  /\ job' = "none"
  /\ closing' = {}
  /\ armed' = FALSE
  /\ IF job \in KillJobs
       THEN /\ flags' = flags \ {"kill", "disarm"}
            /\ aged' = aged \ {"kill", "disarm"}
            /\ CloseAllVirtual(priced) \/ ClosingRaises(virtual)
       ELSE UNCHANGED <<flags, aged, virtual, requests, mishaps>>
  /\ UNCHANGED <<tickets, paused, conn, history, bounds>>

(* cancel_all swallows every error; flatten_all_positions disarms and      *)
(* returns at once when the adapter is not connected.                      *)
CancelDone(priced) ==
  /\ pc = "cancel"
  /\ IF conn
       THEN /\ pc' = "flatten"
            /\ armed' = FALSE
            /\ UNCHANGED <<stateDir, job, closing, paused, conn, held, history,
                           mishaps, bounds>>
       ELSE Finish(held, priced)

(* The listing or any one order may fail: a set of the trades is sold.     *)
FlattenDone(sold, priced) ==
  /\ pc = "flatten"
  /\ Finish(held \ sold, priced)

-------------------------------------------------------------------------------
(* The cycle.                                                              *)

CyclePaused ==
  /\ pc = "cycle"
  /\ paused
  /\ pc' = "sleep"
  /\ UNCHANGED <<stateDir, job, closing, armed, paused, conn, held, history,
                 mishaps, bounds>>

CycleData ==
  /\ pc = "cycle"
  /\ ~paused
  /\ pc' = "handle"
  /\ slipped' = FALSE
  /\ UNCHANGED <<stateDir, job, closing, armed, paused, conn, held, history,
                 faults, bounds>>

(* No data, or an error in the cycle: one too many pauses the service.     *)
CycleFails(trips) ==
  /\ pc = "cycle" \/ pc = "orders"
  /\ pc = "cycle" => ~paused
  /\ paused' = trips
  /\ pc' = "sleep"
  /\ UNCHANGED <<stateDir, job, closing, armed, conn, held, history, mishaps,
                 bounds>>

(* VARIANT: close_all_requested left in state.json                         *)
HandleAllAgain(priced) ==
  /\ pc = "handle"
  /\ requests.all
  /\ virtual' = IF priced THEN {} ELSE virtual
  /\ armed' = FALSE
  /\ job' = "all"
  /\ closing' = SignalIds
  /\ pc' = "cancel"
  /\ obeyed' = obeyed + 1
  /\ UNCHANGED <<flags, aged, tickets, requests, paused, conn, held, asked,
                 uncleared, mishaps, bounds>>

(* _handle_close_all_requests: the flag is cleared before the broker is    *)
(* asked for anything, and the broker is asked whether or not it was       *)
(* cleared.                                                                *)
HandleAll(priced) ==
  /\ pc = "handle"
  /\ requests.all
  /\ Stored([requests EXCEPT !.all = FALSE], {requests, Nothing})
  /\ virtual' = IF priced THEN {} ELSE virtual
  /\ armed' = FALSE
  /\ job' = "all"
  /\ closing' = SignalIds
  /\ pc' = "cancel"
  /\ obeyed' = obeyed + 1
  /\ uncleared' = uncleared + (faults' - faults)
  /\ UNCHANGED <<flags, aged, tickets, paused, conn, held, asked, bounds>>

AtRequests == pc = "one" \/ (pc = "handle" /\ ~requests.all)

(* VARIANT: only the requests that matched a virtual trade are cleared     *)
HandleOnlyMatched(priced) ==
  /\ AtRequests
  /\ requests.only # {}
  /\ Stored([requests EXCEPT !.only = @ \ virtual], {requests, Nothing})
  /\ virtual' = IF priced THEN virtual \ requests.only ELSE virtual
  /\ armed' = FALSE
  /\ job' = "one"
  /\ closing' = requests.only
  /\ pc' = "cancel"
  /\ UNCHANGED <<flags, aged, tickets, paused, conn, held, history, bounds>>

(* "Always clear the requests (even if no virtual trades matched)", then   *)
(* cancel_all and flatten_all_positions here too.                          *)
HandleOnly(priced) ==
  /\ AtRequests
  /\ requests.only # {}
  /\ Stored([requests EXCEPT !.only = {}], {requests, Nothing})
  /\ virtual' = IF priced THEN virtual \ requests.only ELSE virtual
  /\ armed' = FALSE
  /\ job' = "one"
  /\ closing' = requests.only
  /\ pc' = "cancel"
  /\ UNCHANGED <<flags, aged, tickets, paused, conn, held, history, bounds>>

AtAutoFlat == pc = "autoFlat" \/ (AtRequests /\ requests.only = {})

(* The auto-flat rules close virtual trades, and nothing at the broker.    *)
AutoFlat(due) ==
  /\ AtAutoFlat
  /\ CloseAllVirtual(due)
  /\ pc' = "orders"
  /\ UNCHANGED <<flags, aged, tickets, job, closing, armed, paused, conn, held,
                 history, bounds>>

(* A load that fails finds no request, for this cycle.                     *)
RequestUnread ==
  /\ \/ pc = "handle" /\ requests.all /\ pc' \in {"one", "autoFlat"}
     \/ AtRequests /\ requests.only # {} /\ pc' = "autoFlat"
  /\ Mishap
  /\ UNCHANGED <<stateDir, job, closing, armed, paused, conn, held, history,
                 bounds>>

(* _handle_close_all_requests raises, before the clear if there is one to  *)
(* come: the loop logs it and goes on with the cycle.                      *)
HandlerRaises ==
  /\ \/ pc = "handle" /\ requests.all /\ ClosingRaises(virtual)
     \/ /\ AtRequests
        /\ requests.only # {}
        /\ ClosingRaises(virtual \cap requests.only)
     \/ AtAutoFlat /\ ClosingRaises(virtual)
  /\ pc' = "orders"
  /\ UNCHANGED <<flags, aged, tickets, job, closing, armed, paused, conn, held,
                 history, bounds>>

(* The rest of the cycle: an order for a new signal if the adapter is      *)
(* armed, virtual exits, and the save of a dirty state.                    *)
RestOfCycle(opened, exits, dirty) ==
  /\ pc = "orders"
  /\ opened \cap (held \cup virtual \cup tickets \cup requests.only) = {}
  /\ opened # {} => armed /\ conn
  /\ held' = held \cup opened
  /\ virtual' = (virtual \cup opened) \ exits
  /\ IF dirty THEN SaveState ELSE UNCHANGED <<requests, mishaps>>
  /\ pc' = "sleep"
  /\ UNCHANGED <<flags, aged, tickets, job, closing, armed, paused, conn,
                 history, bounds>>

-------------------------------------------------------------------------------
(* The API process, the operator, time, the broker, and the agent's end.   *)

Written ==
  writes < MaxWrites /\ writes' = writes + 1 /\ UNCHANGED <<mishaps, restarts>>

(* A flag written again is a fresh one.                                    *)
WriteFlag(f) ==
  /\ Written
  /\ flags' = flags \cup {f}
  /\ aged' = aged \ {f}
  /\ asked' = IF f = "closeAll" THEN asked + 1 ELSE asked
  /\ UNCHANGED <<tickets, requests, virtual, pc, job, closing, armed,
                 paused, conn, held, obeyed, uncleared>>

(* The close-trade button of a trade that is shown.                        *)
WriteTicket(s) ==
  /\ Written
  /\ s \in held \cup virtual
  /\ tickets' = tickets \cup {s}
  /\ UNCHANGED <<flags, aged, requests, virtual, pc, job, closing,
                 armed, paused, conn, held, history>>

FlagAges(f) ==
  /\ f \in (flags \cap AgingFlags) \ aged
  /\ aged' = aged \cup {f}
  /\ UNCHANGED <<flags, tickets, requests, virtual, pc, job, closing,
                 armed, paused, conn, held, history, mishaps, bounds>>

(* A stop or a target fills.                                               *)
BrokerExit(s) ==
  /\ s \in held
  /\ held' = held \ {s}
  /\ UNCHANGED <<stateDir, pc, job, closing, armed, paused, conn, history,
                 mishaps, bounds>>

Connection ==
  /\ pc # "boot"
  /\ conn' = ~conn
  /\ UNCHANGED <<stateDir, pc, job, closing, armed, paused, held, history,
                 mishaps, bounds>>

(* The process dies, or is stopped and saves its state, which a start does *)
(* anyway; the orders of a flatten under way may have been accepted.       *)
Restart(sold) ==
  /\ restarts < MaxRestarts
  /\ restarts' = restarts + 1
  /\ pc # "boot"
  /\ sold # {} => pc = "flatten"
  /\ held' = held \ sold
  /\ pc' = "boot"
  /\ job' = "none"
  /\ closing' = {}
  /\ armed' = ConfigArmed
  /\ paused' = FALSE
  /\ conn' = FALSE
  /\ UNCHANGED <<stateDir, history, mishaps, writes>>

-------------------------------------------------------------------------------
Clearing ==
  \E priced \in BOOLEAN :
    \/ CancelDone(priced)
    \/ \E sold \in SUBSET held : FlattenDone(sold, priced)

Cycle ==
  \/ CyclePaused
  \/ CycleData
  \/ \E trips \in BOOLEAN : CycleFails(trips)
  \/ \E priced \in BOOLEAN :
       HandleAll(priced) \/ HandleOnly(priced) \/ AutoFlat(priced)
  \/ RequestUnread \/ HandlerRaises
  \/ \E opened \in {{}} \cup {{s} : s \in SignalIds},
        exits \in SUBSET virtual, dirty \in BOOLEAN :
       RestOfCycle(opened, exits, dirty)

Agent == Boot \/ CheckFlags \/ Wake \/ Clearing \/ Cycle

Environment ==
  \/ \E f \in Flags : WriteFlag(f) \/ FlagAges(f)
  \/ \E s \in SignalIds : WriteTicket(s) \/ BrokerExit(s)
  \/ Connection
  \/ \E sold \in SUBSET held : Restart(sold)

Next == Agent \/ Environment

Spec == Init /\ [][Next]_vars

(* The loop never stands still: each await ends (HTTP and data timeouts),  *)
(* a sleep ends, and the flags are read in each cycle.                     *)
Fairness ==
  /\ WF_vars(Boot)
  /\ WF_vars(CheckFlags)
  /\ WF_vars(Wake)
  /\ WF_vars(Clearing)
  /\ WF_vars(Cycle)

FairSpec == Spec /\ Fairness

-------------------------------------------------------------------------------
(* A kill flag leaves the state directory when its cancel and flatten were *)
(* tried to the end, or when it is older than the TTL; a crash in between  *)
(* leaves it for the next start.                                           *)
KillNotDropped ==
  [][("kill" \in flags /\ "kill" \notin flags') =>
       \/ job \in KillJobs /\ job' = "none" /\ pc' # "boot"
       \/ "kill" \in aged]_vars

(* A close request, from the file that brings it to its end, is only given *)
(* up without a job that empties the account                               *)
(*   - by the save of an arm or a disarm flag (execution_flags.py:257, 280)*)
(*     and of a start (service_lifecycle.py:159),                          *)
(*   - in a step in which state.json failed, or                            *)
(*   - by the save at the end of a cycle in which reading it, clearing it  *)
(*     or its handler had failed: that save drops what is there, and       *)
(*     otherwise nothing is.                                               *)
AllWaiting == requests.all \/ "closeAll" \in flags
OnlyWaiting == requests.only \cup tickets
GivenUp ==
  \/ AllWaiting /\ ~AllWaiting' /\ job' # "all"
  \/ \E s \in OnlyWaiting \ OnlyWaiting' : ~(job' = "one" /\ s \in closing')

SavedForFlag ==
  /\ pc \in {"top", "sleep"}
  /\ "kill" \notin Live
  /\ Live \cap {"arm", "disarm"} # {}

RequestsServed ==
  [][GivenUp =>
       \/ pc = "boot" \/ SavedForFlag
       \/ faults' # faults
       \/ pc = "orders" /\ slipped]_vars

(* One press of the close-all button empties the account at most once,     *)
(* restarts included, and once more for each job whose clear of the        *)
(* request went wrong (execution_orchestrator.py:265): each further flatten*)
(* would close trades opened since.                                        *)
CloseAllOnce == obeyed <= asked + uncleared

(* Every kill flag is taken, paused service, missing data and a restart    *)
(* notwithstanding.                                                        *)
KillTaken == "kill" \in flags ~> "kill" \notin flags

===============================================================================
