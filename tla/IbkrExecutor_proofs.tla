------------------------- MODULE IbkrExecutor_proofs -------------------------
(* Proofs about IbkrExecutor, for any threads and number of attempts, and   *)
(* about MarketData above it, for any timeframes and thresholds.            *)
EXTENDS IbkrExecutor, SequenceTheorems, TLAPS

(* Who waits for whom depends on the main task's place: only there is its  *)
(* own call, or the wait for a thread, in progress.                        *)
PlaceInv ==
  /\ call["main"] # "idle" => mpc \in {"boot", "bar"}
  /\ waits # "none" => mpc \in Fetching

(* What the executor holds belongs to calls that wait for it, one task     *)
(* each.                                                                   *)
OwnInv ==
  /\ entry \in Callers => call[entry] = "validate"
  /\ hand \in Callers => call[hand] = "data" /\ ~InQueue(hand)
  /\ \A i \in DOMAIN queue : queue[i] \in Callers => call[queue[i]] = "data"
  /\ \A i, j \in DOMAIN queue : queue[i] \in Callers /\ queue[i] = queue[j] => i = j

IInv == TypeOK /\ PlaceInv /\ OwnInv /\ NobodyForgotten /\ FreedAtEnd

USE WorkersAssumption, ConnectAttemptsAssumption

LEMMA InitIInv == Init => IInv
<1> SUFFICES ASSUME Init PROVE IInv
  OBVIOUS
<1>1. TypeOK
  <2>1. ValuesOK
    BY DEF Init, ValuesOK, Places
  <2>2. FlagsOK /\ HandOK
    BY DEF Init, FlagsOK, HandOK
  <2>3. QED
    BY <2>1, <2>2 DEF TypeOK
<1>2. PlaceInv /\ FreedAtEnd /\ OwnInv
  BY DEF Init, PlaceInv, FreedAtEnd, OwnInv, Callers
<1>3. NobodyForgotten
  BY DEF Init, NobodyForgotten, Callers
<1>4. QED
  BY <1>1, <1>2, <1>3 DEF IInv

-----------------------------------------------------------------------------
(* Type correctness. *)

USE DEF mainVars, linkVars

(* From a place the main task goes to a place.                             *)
LEMMA AfterIsPlace == ASSUME NEW p \in Places PROVE After(p) \subseteq Places
BY DEF After, Places, Fetching

LEMMA ReturnTypes ==
  ASSUME ValuesOK, NEW c \in Callers, Return(c)
  PROVE  /\ mpc' \in Places /\ waits' \in Workers \cup {"none"}
         /\ call' \in [Callers -> {"idle", "validate", "yes", "no", "data", "bars", "nothing", "error"}]
BY AfterIsPlace DEF Return, ValuesOK

LEMMA ValidateTypes ==
  ASSUME ValuesOK, NEW c \in Callers, Validate(c)
  PROVE  /\ call' \in [Callers -> {"idle", "validate", "yes", "no", "data", "bars", "nothing", "error"}]
         /\ entry' \in Requests \cup {"none"} /\ queue' \in Seq(Tasks)
BY DEF Validate, ValuesOK, Requests, Tasks

LEMMA ResolveTypes ==
  ASSUME ValuesOK, hand \in Requests, NEW r \in {"bars", "nothing", "error"}, Resolve(r)
  PROVE  call' \in [Callers -> {"idle", "validate", "yes", "no", "data", "bars", "nothing", "error"}]
BY DEF Resolve, ValuesOK, Requests

LEMMA MainValues == ValuesOK /\ MainStep => ValuesOK'
<1> SUFFICES ASSUME ValuesOK, MainStep PROVE ValuesOK'
  OBVIOUS
<1>1. CASE MainAsks
  <2>1. "main" \in Callers
    BY DEF Callers
  <2>2. QED
    BY <1>1, <2>1, ValidateTypes DEF MainAsks, ValuesOK
<1>2. CASE \E w \in Workers : FetchStarts(w)
  <2>1. PICK w \in Workers : FetchStarts(w)
    BY <1>2
  <2>2. w \in Callers
    BY DEF Callers
  <2>3. QED
    BY <2>1, <2>2, ValidateTypes DEF FetchStarts, ValuesOK
<1>3. CASE Answered \/ WaitTimesOut
  BY <1>3, AfterIsPlace DEF Answered, WaitTimesOut, ValuesOK
<1>4. CASE StartupTimesOut
  <2>1. queue' \in Seq(Tasks)
    <3>1. \A i \in DOMAIN queue : Orphaned(queue[i]) \in Tasks
      BY DEF Orphaned, ValuesOK, Tasks, Requests
    <3>2. QED
      BY <1>4, <3>1, IsASeq DEF StartupTimesOut, ValuesOK
  <2>2. entry' \in Requests \cup {"none"} /\ hand' \in Requests \cup {"connect", "none"}
    BY <1>4 DEF StartupTimesOut, ValuesOK, Orphaned, Requests
  <2>3. QED
    BY <1>4, <2>1, <2>2 DEF StartupTimesOut, ValuesOK, Places, Fetching
<1>5. CASE Analyse \/ Stop
  BY <1>5 DEF Analyse, Stop, StopSignals, StopQueues, StopJoined, ValuesOK, Places, Fetching, Tasks
<1>6. QED
  BY <1>1, <1>2, <1>3, <1>4, <1>5 DEF MainStep

LEMMA CallerValues ==
  ASSUME ValuesOK, NEW c \in Callers, CallerStep(c)
  PROVE  ValuesOK'
<1>1. CASE ValidationEnds(c)
  <2>1. CASE (call[c] = "yes" \/ Connected) /\ Running
    BY <1>1, <2>1 DEF ValidationEnds, ValuesOK, Tasks, Requests
  <2>2. CASE ~((call[c] = "yes" \/ Connected) /\ Running)
    BY <1>1, <2>2, ReturnTypes DEF ValidationEnds, ValuesOK
  <2>3. QED
    BY <2>1, <2>2
<1>2. CASE RequestEnds(c)
  BY <1>2, ReturnTypes DEF RequestEnds, ValuesOK
<1>3. QED
  BY <1>1, <1>2 DEF CallerStep

(* What Take finds in the queue is a task that can be in hand.             *)
LEMMA HeadIsTask ==
  ASSUME ValuesOK, queue # <<>>
  PROVE  Head(queue) \in Tasks /\ Tail(queue) \in Seq(Tasks)
BY DEF ValuesOK

LEMMA ThreadValues == ValuesOK /\ HandOK /\ ThreadStep => ValuesOK' /\ HandOK'
<1> SUFFICES ASSUME ValuesOK, HandOK, ThreadStep PROVE ValuesOK' /\ HandOK'
  OBVIOUS
<1>1. CASE Take
  <2>1. Head(queue) \in Requests \cup {"connect"}
    BY <1>1, HeadIsTask DEF Take, Tasks
  <2>2. "none" \notin Requests \cup {"connect"}
    BY DEF Requests, Callers
  <2>3. QED
    BY <1>1, <2>1, <2>2, HeadIsTask DEF Take, ValuesOK, HandOK
<1>2. CASE ThreadEnds
  BY <1>2, HeadIsTask DEF ThreadEnds, ValuesOK, HandOK
<1>3. CASE EnsureReady \/ EnsureConnects \/ EnsureFails
  BY <1>3 DEF EnsureReady, EnsureConnects, EnsureFails, ValuesOK, HandOK
<1>4. CASE GiveUp
  <2>1. hand \in Requests
    BY <1>4 DEF GiveUp, ValuesOK, HandOK
  <2>2. QED
    BY <1>4, <2>1, ResolveTypes DEF GiveUp, NextTask, ValuesOK, HandOK
<1>5. CASE ConnectDone
  BY <1>5 DEF ConnectDone, NextTask, ValuesOK, HandOK
<1>6. CASE \E r \in {"bars", "nothing"} : HistoryDone(r) \/ BarDone(r)
  <2>1. PICK r \in {"bars", "nothing"} : HistoryDone(r) \/ BarDone(r)
    BY <1>6
  <2>2. hand \in Requests
    BY <2>1 DEF HistoryDone, BarDone, Requests, Callers
  <2>3. QED
    BY <2>1, <2>2, ResolveTypes DEF HistoryDone, BarDone, NextTask, ValuesOK, HandOK
<1>7. QED
  BY <1>1, <1>2, <1>3, <1>4, <1>5, <1>6 DEF ThreadStep

(* The main task and the callers leave the thread alone; a task in hand    *)
(* may become an orphan.                                                   *)
LEMMA OtherHand ==
  ASSUME ValuesOK, HandOK, MainStep \/ (\E c \in Callers : CallerStep(c))
  PROVE  HandOK'
<1>1. CASE StartupTimesOut
  BY <1>1 DEF StartupTimesOut, Orphaned, HandOK
<1>2. CASE \E c \in Callers : CallerStep(c)
  BY <1>2 DEF CallerStep, ValidationEnds, RequestEnds, HandOK
<1>3. CASE MainStep /\ ~StartupTimesOut
  BY <1>3 DEF MainStep, MainAsks, Answered, WaitTimesOut, Analyse, Stop, StopSignals, StopQueues,
              StopJoined, FetchStarts, HandOK
<1>4. QED
  BY <1>1, <1>2, <1>3

LEMMA GatewayValues == ValuesOK /\ HandOK /\ Gateway => ValuesOK' /\ HandOK'
BY DEF Gateway, GatewayStops, GatewayStarts, LinkDrops, ValuesOK, HandOK

LEMMA FlagsStep == FlagsOK /\ [Next]_vars => FlagsOK'
<1> SUFFICES ASSUME FlagsOK, [Next]_vars PROVE FlagsOK'
  OBVIOUS
<1>1. CASE MainStep
  BY <1>1, Zenon
     DEF MainStep, MainAsks, Answered, WaitTimesOut, StartupTimesOut, Analyse, Stop, StopSignals,
         StopQueues, StopJoined, FetchStarts, FlagsOK
<1>2. CASE \E c \in Callers : CallerStep(c)
  BY <1>2, Zenon DEF CallerStep, ValidationEnds, RequestEnds, FlagsOK
<1>3. CASE Take \/ ThreadEnds \/ EnsureReady \/ EnsureConnects \/ EnsureFails
  BY <1>3, Zenon DEF Take, ThreadEnds, EnsureReady, EnsureConnects, EnsureFails, FlagsOK
<1>4. CASE GiveUp \/ (\E r \in {"bars", "nothing"} : HistoryDone(r) \/ BarDone(r))
  <2>1. ib' \in BOOLEAN
    BY <1>4, Zenon DEF GiveUp, HistoryDone, BarDone, LinkAfter
  <2>2. flag' \in BOOLEAN /\ reachable' \in BOOLEAN
    BY <1>4, Zenon DEF GiveUp, HistoryDone, BarDone, FlagsOK
  <2>3. QED
    BY <2>1, <2>2 DEF FlagsOK
<1>5. CASE ConnectDone
  <2>1. ib' \in BOOLEAN
    BY <1>5, Zenon DEF ConnectDone, LinkAfter
  <2>2. flag' \in BOOLEAN /\ reachable' \in BOOLEAN
    <3>1. flag' = flag \/ flag' = FALSE
      BY <1>5, Zenon DEF ConnectDone
    <3>2. reachable' = reachable
      BY <1>5, Zenon DEF ConnectDone
    <3>3. QED
      BY <3>1, <3>2, Zenon DEF FlagsOK
  <2>3. QED
    BY <2>1, <2>2 DEF FlagsOK
<1>6. CASE Gateway
  BY <1>6, Zenon DEF Gateway, GatewayStops, GatewayStarts, LinkDrops, FlagsOK
<1>7. CASE UNCHANGED vars
  BY <1>7, Zenon DEF vars, FlagsOK
<1>8. QED
  BY <1>1, <1>2, <1>3, <1>4, <1>5, <1>6, <1>7 DEF Next, ThreadStep

LEMMA TypeStep == TypeOK /\ [Next]_vars => TypeOK'
<1> SUFFICES ASSUME TypeOK, [Next]_vars PROVE TypeOK'
  OBVIOUS
<1> USE DEF TypeOK
<1>1. FlagsOK'
  BY FlagsStep
<1>2. CASE MainStep
  BY <1>1, <1>2, MainValues, OtherHand
<1>3. CASE \E c \in Callers : CallerStep(c)
  BY <1>1, <1>3, CallerValues, OtherHand
<1>4. CASE ThreadStep
  BY <1>1, <1>4, ThreadValues
<1>5. CASE Gateway
  BY <1>1, <1>5, GatewayValues
<1>6. CASE UNCHANGED vars
  BY <1>1, <1>6 DEF vars, ValuesOK, HandOK
<1>7. QED
  BY <1>2, <1>3, <1>4, <1>5, <1>6 DEF Next

-----------------------------------------------------------------------------
(* The queue. *)

LEMMA AppendElements ==
  ASSUME NEW q \in Seq(Tasks), NEW t \in Tasks, NEW r, r = Append(q, t)
  PROVE  /\ \A i \in DOMAIN r : \/ i \in DOMAIN q /\ r[i] = q[i]
                                \/ i = Len(q) + 1 /\ r[i] = t
         /\ \A i \in DOMAIN q : i \in DOMAIN r /\ r[i] = q[i] /\ i # Len(q) + 1
         /\ Len(q) + 1 \in DOMAIN r /\ r[Len(q) + 1] = t
OBVIOUS

LEMMA TailElements ==
  ASSUME NEW q \in Seq(Tasks), q # <<>>, NEW r, r = Tail(q)
  PROVE  /\ \A i \in DOMAIN r : i \in Nat /\ i + 1 \in DOMAIN q /\ r[i] = q[i + 1] /\ i + 1 # 1
         /\ \A i \in DOMAIN q : i = 1 \/ (i - 1 \in DOMAIN r /\ r[i - 1] = q[i])
         /\ 1 \in DOMAIN q /\ q[1] = Head(q)
OBVIOUS

(* A call that waits for nothing of the executor's begins a validation.    *)
LEMMA OwnValidate ==
  ASSUME TypeOK, OwnInv, NEW c \in Callers, call[c] = "idle", Validate(c), hand' = hand
  PROVE  OwnInv'
<1>1. "connect" \in Tasks /\ "connect" \notin Callers
  BY DEF Tasks, Callers
<1>2. /\ \A i \in DOMAIN queue' : \/ i \in DOMAIN queue /\ queue'[i] = queue[i]
                                  \/ i = Len(queue) + 1 /\ queue'[i] = "connect"
      /\ \A i \in DOMAIN queue : i \in DOMAIN queue' /\ queue'[i] = queue[i] /\ i # Len(queue) + 1
  BY <1>1, AppendElements DEF Validate, TypeOK, ValuesOK
<1>3. \A d \in Callers : d # c => call'[d] = call[d]
  BY DEF Validate, TypeOK, ValuesOK
<1>4. call'[c] = "validate" /\ entry' = c
  BY DEF Validate, TypeOK, ValuesOK
<1>5. hand' \in Callers => call'[hand'] = "data" /\ ~InQueue(hand)'
  BY <1>1, <1>2, <1>3 DEF OwnInv, InQueue
<1>6. \A i \in DOMAIN queue' : queue'[i] \in Callers => call'[queue'[i]] = "data"
  BY <1>1, <1>2, <1>3 DEF OwnInv
<1>7. \A i, j \in DOMAIN queue' : queue'[i] \in Callers /\ queue'[i] = queue'[j] => i = j
  BY <1>1, <1>2 DEF OwnInv
<1>8. QED
  BY <1>4, <1>5, <1>6, <1>7 DEF OwnInv, InQueue

(* A call that has been answered returns.                                  *)
LEMMA OwnReturn ==
  ASSUME TypeOK, OwnInv, NEW c \in Callers, call[c] \notin {"validate", "data"}, Return(c),
         UNCHANGED <<entry, queue, hand>>
  PROVE  OwnInv'
<1>1. \A d \in Callers : d # c => call'[d] = call[d]
  BY DEF Return, TypeOK, ValuesOK
<1>2. QED
  BY <1>1 DEF OwnInv, InQueue

LEMMA OwnCaller ==
  ASSUME TypeOK, OwnInv, NEW c \in Callers, CallerStep(c)
  PROVE  OwnInv'
<1>1. CASE RequestEnds(c) \/ (ValidationEnds(c) /\ Return(c) /\ UNCHANGED queue)
  BY <1>1, OwnReturn DEF RequestEnds, ValidationEnds
<1>2. CASE /\ call[c] \in {"yes", "no"} /\ call' = [call EXCEPT ![c] = "data"]
           /\ queue' = Append(queue, c) /\ UNCHANGED <<entry, hand>>
  <2>1. c \in Tasks
    BY DEF Tasks, Requests
  <2>2. /\ \A i \in DOMAIN queue' : \/ i \in DOMAIN queue /\ queue'[i] = queue[i]
                                    \/ i = Len(queue) + 1 /\ queue'[i] = c
        /\ \A i \in DOMAIN queue : i \in DOMAIN queue' /\ queue'[i] = queue[i] /\ i # Len(queue) + 1
    BY <1>2, <2>1, AppendElements DEF TypeOK, ValuesOK
  <2>3. \A d \in Callers : call'[d] = IF d = c THEN "data" ELSE call[d]
    BY <1>2 DEF TypeOK, ValuesOK
  <2>4. \A i \in DOMAIN queue : queue[i] # c
    BY <1>2 DEF OwnInv
  <2>5. entry' \in Callers => call'[entry'] = "validate"
    BY <1>2, <2>3 DEF OwnInv
  <2>6. hand' \in Callers => call'[hand'] = "data" /\ ~InQueue(hand)'
    BY <1>2, <2>2, <2>3 DEF OwnInv, InQueue
  <2>7. \A i \in DOMAIN queue' : queue'[i] \in Callers => call'[queue'[i]] = "data"
    BY <2>2, <2>3 DEF OwnInv
  <2>8. \A i, j \in DOMAIN queue' : queue'[i] \in Callers /\ queue'[i] = queue'[j] => i = j
    BY <2>2, <2>4 DEF OwnInv
  <2>9. QED
    BY <2>5, <2>6, <2>7, <2>8 DEF OwnInv, InQueue
<1>3. QED
  BY <1>1, <1>2 DEF CallerStep, ValidationEnds

(* The task in hand is done; no other task is of its call.                 *)
LEMMA OwnResolve ==
  ASSUME TypeOK, OwnInv, hand \in Requests, NEW r \in {"bars", "nothing", "error"}, Resolve(r),
         NextTask, UNCHANGED <<entry, queue>>
  PROVE  OwnInv'
<1>1. \A d \in Callers : d # hand => call'[d] = call[d]
  BY DEF Resolve, TypeOK, ValuesOK, Requests
<1>2. hand' \notin Callers
  BY DEF NextTask, Callers
<1>3. entry' \in Callers => call'[entry'] = "validate"
  BY <1>1 DEF OwnInv
<1>4. \A i \in DOMAIN queue : queue[i] \in Callers => queue[i] # hand
  BY DEF OwnInv, InQueue
<1>5. QED
  BY <1>1, <1>2, <1>3, <1>4 DEF OwnInv

LEMMA OwnThread == ASSUME TypeOK, OwnInv, ThreadStep PROVE OwnInv'
<1>1. CASE Take
  <2>1. /\ \A i \in DOMAIN queue' : /\ i \in Nat /\ i + 1 \in DOMAIN queue /\ i + 1 # 1
                                    /\ queue'[i] = queue[i + 1]
        /\ 1 \in DOMAIN queue /\ queue[1] = hand'
    BY <1>1, TailElements DEF Take, TypeOK, ValuesOK
  <2>2. ASSUME NEW i \in DOMAIN queue', hand' \in Callers, queue'[i] = hand' PROVE FALSE
    <3>1. queue[1] \in Callers /\ queue[1] = queue[i + 1] /\ i + 1 # 1
      BY <2>1, <2>2
    <3>2. QED
      BY <2>1, <3>1 DEF OwnInv
  <2>3. hand' \in Callers => call'[hand'] = "data"
    BY <1>1, <2>1 DEF OwnInv, Take
  <2>4. \A i, j \in DOMAIN queue' : queue'[i] \in Callers /\ queue'[i] = queue'[j] => i = j
    BY <2>1 DEF OwnInv
  <2>5. QED
    BY <1>1, <2>1, <2>2, <2>3, <2>4 DEF OwnInv, InQueue, Take
<1>2. CASE ThreadEnds
  <2>1. CASE UNCHANGED queue
    BY <1>2, <2>1 DEF ThreadEnds, OwnInv, InQueue
  <2>2. CASE queue # <<>> /\ queue' = Tail(queue)
    <3>1. \A i \in DOMAIN queue' : i + 1 \in DOMAIN queue /\ queue'[i] = queue[i + 1] /\ i \in Nat
      BY <2>2, TailElements DEF TypeOK, ValuesOK
    <3>2. \A i, j \in DOMAIN queue' : queue'[i] \in Callers /\ queue'[i] = queue'[j] => i = j
      BY <3>1 DEF OwnInv
    <3>3. QED
      BY <1>2, <3>1, <3>2 DEF ThreadEnds, OwnInv, InQueue
  <2>3. QED
    BY <1>2, <2>1, <2>2 DEF ThreadEnds
<1>3. CASE EnsureReady \/ EnsureConnects \/ EnsureFails
  BY <1>3 DEF EnsureReady, EnsureConnects, EnsureFails, OwnInv, InQueue
<1>4. CASE GiveUp
  <2>1. hand \in Requests
    BY <1>4 DEF GiveUp, TypeOK, ValuesOK, HandOK
  <2>2. QED
    BY <1>4, <2>1, OwnResolve DEF GiveUp
<1>5. CASE ConnectDone
  <2>1. \A d \in Callers : d # entry => call'[d] = call[d]
    BY <1>5 DEF ConnectDone, TypeOK, ValuesOK
  <2>2. hand' \notin Callers /\ entry' \notin Callers
    BY <1>5 DEF ConnectDone, NextTask, Callers
  <2>3. \A i \in DOMAIN queue : queue[i] \in Callers => queue[i] # entry
    BY DEF OwnInv
  <2>4. QED
    BY <1>5, <2>1, <2>2, <2>3 DEF ConnectDone, OwnInv
<1>6. CASE \E r \in {"bars", "nothing"} : HistoryDone(r) \/ BarDone(r)
  <2>1. PICK r \in {"bars", "nothing"} : HistoryDone(r) \/ BarDone(r)
    BY <1>6
  <2>2. hand \in Requests
    BY <2>1 DEF HistoryDone, BarDone, Requests, Callers
  <2>3. QED
    BY <2>1, <2>2, OwnResolve DEF HistoryDone, BarDone
<1>7. QED
  BY <1>1, <1>2, <1>3, <1>4, <1>5, <1>6 DEF ThreadStep

(* The startup snapshot is given up: what was the main task's is nobody's. *)
LEMMA OwnStartup == ASSUME TypeOK, OwnInv, StartupTimesOut PROVE OwnInv'
<1>1. "main" \in Callers /\ "orphan" \notin Callers
  BY DEF Callers
<1>2. \A d \in Callers \ {"main"} : call'[d] = call[d]
  BY DEF StartupTimesOut, TypeOK, ValuesOK
<1>3. /\ DOMAIN queue' = DOMAIN queue
      /\ \A i \in DOMAIN queue : queue'[i] = Orphaned(queue[i])
  BY DEF StartupTimesOut
<1>4. \A t : Orphaned(t) \in Callers => Orphaned(t) = t /\ t # "main"
  BY <1>1 DEF Orphaned
<1>5. entry' \in Callers => call'[entry'] = "validate"
  BY <1>2, <1>4 DEF StartupTimesOut, OwnInv
<1>6. hand' \in Callers => call'[hand'] = "data" /\ ~InQueue(hand)'
  BY <1>2, <1>3, <1>4 DEF StartupTimesOut, OwnInv, InQueue, Orphaned
<1>7. \A i \in DOMAIN queue' : queue'[i] \in Callers => call'[queue'[i]] = "data"
  BY <1>2, <1>3, <1>4 DEF OwnInv
<1>8. \A i, j \in DOMAIN queue' : queue'[i] \in Callers /\ queue'[i] = queue'[j] => i = j
  BY <1>3, <1>4 DEF OwnInv
<1>9. QED
  BY <1>5, <1>6, <1>7, <1>8 DEF OwnInv, InQueue

LEMMA OwnMain == ASSUME TypeOK, OwnInv, MainStep PROVE OwnInv'
<1>1. CASE MainAsks
  <2>1. "main" \in Callers
    BY DEF Callers
  <2>2. QED
    BY <1>1, <2>1, OwnValidate DEF MainAsks
<1>2. CASE \E w \in Workers : FetchStarts(w)
  <2>1. PICK w \in Workers : FetchStarts(w)
    BY <1>2
  <2>2. w \in Callers
    BY DEF Callers
  <2>3. QED
    BY <2>1, <2>2, OwnValidate DEF FetchStarts
<1>3. CASE Answered \/ WaitTimesOut \/ Analyse \/ StopSignals \/ StopJoined
  BY <1>3 DEF Answered, WaitTimesOut, Analyse, StopSignals, StopJoined, OwnInv, InQueue
<1>4. CASE StartupTimesOut
  BY <1>4, OwnStartup
<1>5. CASE StopQueues
  <2>1. "shutdown" \in Tasks /\ "shutdown" \notin Callers
    BY DEF Tasks, Callers
  <2>2. \A i \in DOMAIN queue' : \/ i \in DOMAIN queue /\ queue'[i] = queue[i]
                                 \/ queue'[i] = "shutdown"
    BY <1>5, <2>1, AppendElements DEF StopQueues, TypeOK, ValuesOK
  <2>3. \A i, j \in DOMAIN queue' : queue'[i] \in Callers /\ queue'[i] = queue'[j] => i = j
    BY <2>1, <2>2 DEF OwnInv
  <2>4. QED
    BY <1>5, <2>1, <2>2, <2>3 DEF StopQueues, OwnInv, InQueue
<1>6. QED
  BY <1>1, <1>2, <1>3, <1>4, <1>5 DEF MainStep, Stop

LEMMA OwnStep == TypeOK /\ OwnInv /\ [Next]_vars => OwnInv'
<1> SUFFICES ASSUME TypeOK, OwnInv, [Next]_vars PROVE OwnInv'
  OBVIOUS
<1>1. CASE Gateway \/ UNCHANGED vars
  BY <1>1 DEF Gateway, GatewayStops, GatewayStarts, LinkDrops, vars, OwnInv, InQueue
<1>2. QED
  BY <1>1, OwnMain, OwnCaller, OwnThread DEF Next

-----------------------------------------------------------------------------
(* Places. *)

(* The threads and the gateway leave the main task where it is.            *)
LEMMA OthersPlace ==
  ASSUME ThreadStep \/ Gateway
  PROVE  UNCHANGED mainVars
BY DEF ThreadStep, Take, ThreadEnds, EnsureReady, EnsureConnects, EnsureFails, GiveUp, ConnectDone,
       HistoryDone, BarDone, Gateway, GatewayStops, GatewayStarts, LinkDrops

(* The executor answers only a call that waits for it.                     *)
LEMMA ThreadCalls ==
  ASSUME TypeOK, OwnInv, ThreadStep \/ Gateway, NEW c \in Callers, call'[c] # call[c]
  PROVE  \/ c = entry /\ call[c] = "validate" /\ ConnectDone
         \/ c = hand /\ call[c] = "data" /\ call'[c] # "validate" /\ hand \in Requests
<1>1. CASE ConnectDone
  BY <1>1 DEF ConnectDone, TypeOK, ValuesOK, OwnInv
<1>2. CASE GiveUp
  BY <1>2 DEF GiveUp, Resolve, TypeOK, ValuesOK, HandOK, OwnInv, Requests
<1>3. CASE \E r \in {"bars", "nothing"} : HistoryDone(r) \/ BarDone(r)
  <2>1. hand \in Requests
    BY <1>3 DEF HistoryDone, BarDone, Requests, Callers
  <2>2. QED
    BY <1>3, <2>1 DEF HistoryDone, BarDone, Resolve, TypeOK, ValuesOK, OwnInv, Requests
<1>4. CASE Take \/ ThreadEnds \/ EnsureReady \/ EnsureConnects \/ EnsureFails \/ Gateway
  BY <1>4 DEF Take, ThreadEnds, EnsureReady, EnsureConnects, EnsureFails, Gateway, GatewayStops,
              GatewayStarts, LinkDrops
<1>5. QED
  BY <1>1, <1>2, <1>3, <1>4 DEF ThreadStep

LEMMA CallerPlace ==
  ASSUME TypeOK, PlaceInv, NEW c \in Callers, CallerStep(c)
  PROVE  PlaceInv' /\ (Stopping => Stopping')
<1>1. call[c] # "idle" /\ "main" \in Callers
  BY DEF CallerStep, ValidationEnds, RequestEnds, Callers
<1>2. CASE Return(c)
  <2>1. CASE c = "main" \/ c = waits
    <3>1. ~Stopping
      BY <1>1, <2>1 DEF PlaceInv, Stopping, Fetching, Callers
    <3>2. waits' = "none" /\ (c = "main" => call'["main"] = "idle")
      BY <1>1, <1>2, <2>1 DEF Return, TypeOK, ValuesOK
    <3>3. c # "main" => call'["main"] = "idle"
      BY <1>1, <1>2, <2>1 DEF PlaceInv, Fetching, Return, TypeOK, ValuesOK, Callers
    <3>4. QED
      BY <3>1, <3>2, <3>3 DEF PlaceInv
  <2>2. CASE c # "main" /\ c # waits
    BY <1>1, <1>2, <2>2 DEF Return, PlaceInv, Stopping, TypeOK, ValuesOK
  <2>3. QED
    BY <2>1, <2>2
<1>3. CASE call' = [call EXCEPT ![c] = "data"] /\ UNCHANGED mainVars
  BY <1>1, <1>3 DEF PlaceInv, Stopping, TypeOK, ValuesOK
<1>4. QED
  BY <1>2, <1>3 DEF CallerStep, ValidationEnds, RequestEnds

LEMMA MainPlace ==
  ASSUME TypeOK, PlaceInv, MainStep
  PROVE  PlaceInv' /\ (Stopping => Stopping')
<1>1. "main" \in Callers /\ "main" \notin Workers /\ "none" \notin Workers
  BY DEF Callers
<1>2. CASE MainAsks
  BY <1>1, <1>2 DEF MainAsks, Validate, PlaceInv, Stopping, TypeOK, ValuesOK
<1>3. CASE \E w \in Workers : FetchStarts(w)
  BY <1>1, <1>3 DEF FetchStarts, Validate, PlaceInv, Stopping, TypeOK, ValuesOK, Callers
<1>4. CASE Answered
  BY <1>4 DEF Answered, PlaceInv, Stopping, Fetching
<1>5. CASE WaitTimesOut
  BY <1>5 DEF WaitTimesOut, PlaceInv, Stopping, Fetching
<1>6. CASE StartupTimesOut
  BY <1>1, <1>6 DEF StartupTimesOut, PlaceInv, Stopping, Fetching, TypeOK, ValuesOK
<1>7. CASE Analyse \/ Stop
  BY <1>7 DEF Analyse, Stop, StopSignals, StopQueues, StopJoined, PlaceInv, Stopping, Fetching
<1>8. QED
  BY <1>2, <1>3, <1>4, <1>5, <1>6, <1>7 DEF MainStep

LEMMA PlaceStep ==
  TypeOK /\ OwnInv /\ PlaceInv /\ [Next]_vars => PlaceInv' /\ (Stopping => Stopping')
<1> SUFFICES ASSUME TypeOK, OwnInv, PlaceInv, [Next]_vars
             PROVE  PlaceInv' /\ (Stopping => Stopping')
  OBVIOUS
<1>1. CASE ThreadStep \/ Gateway
  <2>1. "main" \in Callers
    BY DEF Callers
  <2>2. call'["main"] # "idle" => call["main"] # "idle"
    BY <1>1, <2>1, ThreadCalls
  <2>3. QED
    BY <1>1, <2>2, OthersPlace DEF PlaceInv, Stopping
<1>2. CASE UNCHANGED vars
  BY <1>2 DEF vars, PlaceInv, Stopping
<1>3. QED
  BY <1>1, <1>2, MainPlace, CallerPlace DEF Next

-----------------------------------------------------------------------------
(* Nobody is forgotten. *)

(* What is queued or in hand stays so when a task is added, ...            *)
LEMMA AheadAppend ==
  ASSUME TypeOK, NEW t \in Tasks, queue' = Append(queue, t), hand' = hand
  PROVE  InQueue(t)' /\ \A u : Ahead(u) => Ahead(u)'
<1>1. /\ \A i \in DOMAIN queue : i \in DOMAIN queue' /\ queue'[i] = queue[i]
      /\ Len(queue) + 1 \in DOMAIN queue' /\ queue'[Len(queue) + 1] = t
  BY AppendElements DEF TypeOK, ValuesOK
<1>2. QED
  BY <1>1 DEF Ahead, InQueue

(* ... and when the thread takes one.                                      *)
LEMMA AheadTake ==
  ASSUME TypeOK, Take, NEW u, u # "none", Ahead(u)
  PROVE  Ahead(u)'
<1>1. /\ \A i \in DOMAIN queue : i = 1 \/ (i - 1 \in DOMAIN queue' /\ queue'[i - 1] = queue[i])
      /\ queue[1] = hand'
  BY TailElements DEF Take, TypeOK, ValuesOK
<1>2. hand = "none"
  BY DEF Take, TypeOK, HandOK
<1>3. PICK i \in DOMAIN queue : queue[i] = u
  BY <1>2 DEF Ahead, InQueue
<1>4. CASE i = 1
  BY <1>1, <1>3, <1>4 DEF Ahead
<1>5. CASE i # 1
  BY <1>1, <1>3, <1>5 DEF Ahead, InQueue
<1>6. QED
  BY <1>4, <1>5

LEMMA ForgottenCaller ==
  ASSUME TypeOK, NobodyForgotten, ~Stopping, NEW d \in Callers, CallerStep(d)
  PROVE  NobodyForgotten'
<1>1. CASE UNCHANGED <<queue, hand, entry>> /\ call' = [call EXCEPT ![d] = "idle"]
  BY <1>1 DEF NobodyForgotten, Ahead, InQueue, TypeOK, ValuesOK, Callers
<1>2. CASE /\ call' = [call EXCEPT ![d] = "data"] /\ queue' = Append(queue, d)
           /\ UNCHANGED <<hand, entry>>
  <2>1. d \in Tasks
    BY DEF Tasks, Requests
  <2>2. InQueue(d)' /\ \A u : Ahead(u) => Ahead(u)'
    BY <1>2, <2>1, AheadAppend
  <2>3. \A c \in Callers : call'[c] = IF c = d THEN "data" ELSE call[c]
    BY <1>2 DEF TypeOK, ValuesOK
  <2>4. ASSUME NEW c \in Callers, call'[c] = "data" PROVE Ahead(c)'
    BY <2>2, <2>3, <2>4 DEF NobodyForgotten, Ahead
  <2>5. call'["main"] = "validate" => entry' = "main" /\ Ahead("connect")'
    BY <1>2, <2>2, <2>3 DEF NobodyForgotten, Callers
  <2>6. QED
    BY <2>4, <2>5 DEF NobodyForgotten
<1>3. QED
  BY <1>1, <1>2 DEF CallerStep, ValidationEnds, RequestEnds, Return

(* A call that begins: the main task's own, or a thread's, while the main  *)
(* task has none.                                                          *)
LEMMA ForgottenValidate ==
  ASSUME TypeOK, NobodyForgotten, ~Stopping, NEW d \in Callers, Validate(d), hand' = hand,
         d = "main" \/ call["main"] = "idle"
  PROVE  NobodyForgotten'
<1>1. "connect" \in Tasks
  BY DEF Tasks
<1>2. InQueue("connect")' /\ \A u : Ahead(u) => Ahead(u)'
  BY <1>1, AheadAppend DEF Validate
<1>3. \A c \in Callers : call'[c] = IF c = d THEN "validate" ELSE call[c]
  BY DEF Validate, TypeOK, ValuesOK
<1>4. QED
  BY <1>2, <1>3 DEF NobodyForgotten, Validate, Ahead, Callers

LEMMA ForgottenMain ==
  ASSUME TypeOK, PlaceInv, NobodyForgotten, ~Stopping, ~Stopping', MainStep
  PROVE  NobodyForgotten'
<1>1. "main" \in Callers /\ "orphan" \notin Callers
  BY DEF Callers
<1>2. CASE MainAsks
  BY <1>1, <1>2, ForgottenValidate DEF MainAsks
<1>3. CASE \E w \in Workers : FetchStarts(w)
  <2>1. PICK w \in Workers : FetchStarts(w)
    BY <1>3
  <2>2. w \in Callers /\ call["main"] = "idle"
    BY <2>1 DEF FetchStarts, PlaceInv, Fetching, Callers
  <2>3. QED
    BY <2>1, <2>2, ForgottenValidate DEF FetchStarts
<1>4. CASE Answered \/ WaitTimesOut \/ Analyse
  BY <1>4 DEF Answered, WaitTimesOut, Analyse, NobodyForgotten, Ahead, InQueue
<1>5. CASE StartupTimesOut
  <2>1. \A c \in Callers : c # "main" => (Ahead(c) => Ahead(c)')
    BY <1>5 DEF StartupTimesOut, Ahead, InQueue, Orphaned
  <2>2. \A c \in Callers : call'[c] = IF c = "main" THEN "idle" ELSE call[c]
    BY <1>5 DEF StartupTimesOut, TypeOK, ValuesOK
  <2>3. QED
    BY <1>1, <2>1, <2>2 DEF NobodyForgotten
<1>6. CASE Stop
  BY <1>6 DEF Stop, StopSignals, StopQueues, StopJoined, Stopping
<1>7. QED
  BY <1>2, <1>3, <1>4, <1>5, <1>6 DEF MainStep

(* The task in hand is done and its call answered.                         *)
LEMMA ForgottenResolve ==
  ASSUME TypeOK, NobodyForgotten, ~Stopping, hand \in Requests,
         NEW r \in {"bars", "nothing", "error"}, Resolve(r), NextTask, UNCHANGED <<entry, queue>>
  PROVE  NobodyForgotten'
<1>1. \A c \in Callers : call'[c] = IF c = hand THEN r ELSE call[c]
  BY DEF Resolve, TypeOK, ValuesOK, Requests, Callers
<1>2. "connect" # hand /\ "main" \in Callers
  BY DEF Requests, Callers
<1>3. QED
  BY <1>1, <1>2 DEF NobodyForgotten, Ahead, InQueue

LEMMA ForgottenThread ==
  ASSUME TypeOK, NobodyForgotten, ~Stopping, ThreadStep
  PROVE  NobodyForgotten'
<1>1. CASE Take
  <2>1. \A u : u # "none" /\ Ahead(u) => Ahead(u)'
    BY <1>1, AheadTake
  <2>2. "none" \notin Callers
    BY DEF Callers
  <2>3. QED
    BY <1>1, <2>1, <2>2 DEF NobodyForgotten, Take
<1>2. CASE ThreadEnds
  BY <1>2 DEF ThreadEnds
<1>3. CASE EnsureReady \/ EnsureConnects \/ EnsureFails
  BY <1>3 DEF EnsureReady, EnsureConnects, EnsureFails, NobodyForgotten, Ahead, InQueue
<1>4. CASE GiveUp
  <2>1. hand \in Requests
    BY <1>4 DEF GiveUp, TypeOK, ValuesOK, HandOK
  <2>2. QED
    BY <1>4, <2>1, ForgottenResolve DEF GiveUp
<1>5. CASE ConnectDone
  <2>1. \A c \in Callers : c # entry => call'[c] = call[c]
    BY <1>5 DEF ConnectDone, TypeOK, ValuesOK
  <2>2. entry \in Callers => call'[entry] \in {"yes", "no"}
    BY <1>5 DEF ConnectDone, TypeOK, ValuesOK
  <2>3. "main" \in Callers /\ "connect" \notin Callers
    BY DEF Callers
  <2>4. hand = "connect" /\ queue' = queue
    BY <1>5 DEF ConnectDone
  <2>5. \A c \in Callers : call'[c] = "data" => Ahead(c)'
    BY <2>1, <2>2, <2>3, <2>4 DEF NobodyForgotten, Ahead, InQueue
  <2>6. call'["main"] # "validate"
    BY <2>1, <2>2, <2>3 DEF NobodyForgotten
  <2>7. QED
    BY <2>5, <2>6 DEF NobodyForgotten
<1>6. CASE \E r \in {"bars", "nothing"} : HistoryDone(r) \/ BarDone(r)
  <2>1. PICK r \in {"bars", "nothing"} : HistoryDone(r) \/ BarDone(r)
    BY <1>6
  <2>2. hand \in Requests
    BY <2>1 DEF HistoryDone, BarDone, Requests, Callers
  <2>3. QED
    BY <2>1, <2>2, ForgottenResolve DEF HistoryDone, BarDone
<1>7. QED
  BY <1>1, <1>2, <1>3, <1>4, <1>5, <1>6 DEF ThreadStep

LEMMA ForgottenStep ==
  TypeOK /\ OwnInv /\ PlaceInv /\ NobodyForgotten /\ [Next]_vars => NobodyForgotten'
<1> SUFFICES ASSUME TypeOK, OwnInv, PlaceInv, NobodyForgotten, [Next]_vars, ~Stopping'
             PROVE  NobodyForgotten'
  BY DEF NobodyForgotten
<1>1. ~Stopping
  BY PlaceStep
<1>2. CASE Gateway \/ UNCHANGED vars
  BY <1>2 DEF Gateway, GatewayStops, GatewayStarts, LinkDrops, vars, NobodyForgotten, Ahead, InQueue,
              Stopping
<1>3. QED
  BY <1>1, <1>2, ForgottenMain, ForgottenCaller, ForgottenThread DEF Next

-----------------------------------------------------------------------------
(* The connection is free at the end. *)

LEMMA FreedStep == TypeOK /\ FreedAtEnd /\ [Next]_vars => FreedAtEnd'
<1> SUFFICES ASSUME TypeOK, FreedAtEnd, [Next]_vars, thread' = "ended" PROVE ~ib'
  BY DEF FreedAtEnd
<1>1. CASE MainStep \/ (\E c \in Callers : CallerStep(c)) \/ Gateway \/ UNCHANGED vars
  <2>1. thread' = thread
    BY <1>1 DEF MainStep, MainAsks, FetchStarts, Answered, WaitTimesOut, StartupTimesOut, Analyse,
                Stop, StopSignals, StopQueues, StopJoined, CallerStep, ValidationEnds, RequestEnds,
                Gateway, GatewayStops, GatewayStarts, LinkDrops, vars
  <2>2. ib' = ib \/ ib' = FALSE
    BY <1>1 DEF MainStep, MainAsks, FetchStarts, Answered, WaitTimesOut, StartupTimesOut, Analyse,
                Stop, StopSignals, StopQueues, StopJoined, CallerStep, ValidationEnds, RequestEnds,
                Gateway, GatewayStops, GatewayStarts, LinkDrops, vars
  <2>3. QED
    BY <2>1, <2>2 DEF FreedAtEnd
<1>2. CASE Take \/ EnsureReady \/ EnsureConnects \/ EnsureFails
  BY <1>2 DEF Take, EnsureReady, EnsureConnects, EnsureFails
<1>3. CASE ThreadEnds
  BY <1>3 DEF ThreadEnds
<1>4. CASE GiveUp \/ ConnectDone \/ (\E r \in {"bars", "nothing"} : HistoryDone(r) \/ BarDone(r))
  <2>1. Stopping
    BY <1>4 DEF GiveUp, ConnectDone, HistoryDone, BarDone, NextTask
  <2>2. \E up : ib' = (up /\ ~Stopping)
    BY <1>4, Zenon DEF GiveUp, ConnectDone, HistoryDone, BarDone, LinkAfter
  <2>3. QED
    BY <2>1, <2>2, Zenon
<1>5. QED
  BY <1>1, <1>2, <1>3, <1>4 DEF Next, ThreadStep

-----------------------------------------------------------------------------
LEMMA Inductive == Spec => []IInv
<1>1. IInv /\ [Next]_vars => IInv'
  BY TypeStep, OwnStep, PlaceStep, ForgottenStep, FreedStep DEF IInv
<1>2. QED
  BY InitIInv, <1>1, PTL DEF Spec

(* Every variable keeps its type, and the thread is busy exactly while it  *)
(* holds a task.                                                           *)
THEOREM TypeCorrect == Spec => []TypeOK
BY Inductive, PTL DEF IInv

(* submit_task: for any number of threads, whatever times out, an awaited  *)
(* request is still to be executed and the main task's validation will be  *)
(* answered.                                                               *)
THEOREM NoRequestForgotten == Spec => []NobodyForgotten
BY Inductive, PTL DEF IInv

(* stop() and _run_executor: the thread never leaves a connection behind.  *)
THEOREM ConnectionFreed == Spec => []FreedAtEnd
BY Inductive, PTL DEF IInv

-----------------------------------------------------------------------------
(* MarketData, the caller of the provider: the same executor seen from the *)
(* loop, for any timeframes and thresholds.                                *)

CONSTANTS Frames, FailureThreshold, MaxConnFailures, PauseOnFailures
VARIABLES pc, at, asked, found, up, breaker, fails, slot, barSlot, held, valid, late,
          connFailures, paused
Feed == INSTANCE MarketData

(* What MarketData assumes of its constants.                                *)
FeedConstants == Feed!FramesAssumption /\ Feed!ThresholdsAssumption /\ Feed!PauseAssumption

USE DEF FeedConstants, Feed!FramesAssumption, Feed!ThresholdsAssumption, Feed!PauseAssumption

(* The constants' types that the steps below need. *)
LEMMA FramesFacts ==
  ASSUME FeedConstants
  PROVE  /\ Len(Frames) \in Nat /\ Len(Frames) >= 2
         /\ \A i \in 1..Len(Frames) : Frames[i] \in Feed!FrameSet
         /\ Feed!NoBars \notin Feed!FrameBars
<1>1. Len(Frames) \in Nat /\ Len(Frames) >= 2
  OBVIOUS
<1>2. \A i \in 1..Len(Frames) : Frames[i] \in Feed!FrameSet
  BY DEF Feed!FrameSet
<1>3. Feed!NoBars \notin Feed!FrameBars
  BY DEF Feed!NoBars, Feed!FrameBars
<1>4. QED
  BY <1>1, <1>2, <1>3

FeedPlaces == {"boot", "top", "fetch", "bar", "judge", "analyse"}
BreakerStates == {"closed", "open", "due", "half_open"}

-----------------------------------------------------------------------------
(* What the operators of the model return. *)

LEMMA FailureTypes ==
  ASSUME FeedConstants, Feed!ValuesOK, Feed!RecordFailure
  PROVE  breaker' \in BreakerStates /\ fails' \in 0..FailureThreshold
BY DEF Feed!ValuesOK, Feed!RecordFailure, Feed!UpTo, BreakerStates

LEMMA SuccessTypes ==
  ASSUME FeedConstants, Feed!ValuesOK, NEW f, NEW bars \in Feed!Bars, Feed!Succeeds(f, bars)
  PROVE  /\ breaker' \in BreakerStates /\ fails' \in 0..FailureThreshold
         /\ slot' \in Feed!Bars
BY DEF Feed!ValuesOK, Feed!Succeeds, Feed!RecordSuccess, BreakerStates

LEMMA ReadTypes ==
  ASSUME FeedConstants, Feed!ValuesOK PROVE Feed!Read \in BreakerStates
BY DEF Feed!ValuesOK, Feed!Read, BreakerStates

LEMMA KeepTypes ==
  ASSUME FeedConstants, Feed!ValuesOK, Feed!CachesOK, NEW bars \in Feed!Bars, Feed!Keep(bars)
  PROVE  /\ held' \in [Feed!FrameSet -> Feed!Bars] /\ valid' \subseteq Feed!FrameSet
         /\ \A f \in valid' : held'[f] # Feed!NoBars
<1>1. Feed!Frame \in Feed!FrameSet
  BY FramesFacts DEF Feed!ValuesOK, Feed!Frame
<1>2. CASE bars = Feed!NoBars
  BY <1>1, <1>2 DEF Feed!Keep, Feed!ValuesOK, Feed!CachesOK
<1>3. CASE bars # Feed!NoBars
  BY <1>1, <1>3 DEF Feed!Keep, Feed!ValuesOK, Feed!CachesOK
<1>4. QED
  BY <1>2, <1>3

LEMMA GoOnTypes ==
  ASSUME FeedConstants, Feed!ValuesOK, pc = "fetch", NEW some, Feed!GoOn(some)
  PROVE  /\ pc' \in FeedPlaces /\ at' \in 1..Len(Frames)
         /\ found' \in {some, found} /\ asked' = FALSE
<1>1. pc' \in FeedPlaces /\ at' \in 1..Len(Frames)
  BY FramesFacts DEF Feed!GoOn, Feed!ValuesOK, FeedPlaces
<1>2. found' \in {some, found} /\ asked' = FALSE
  BY Zenon DEF Feed!GoOn
<1>3. QED
  BY <1>1, <1>2

LEMMA BarIsTypes ==
  ASSUME FeedConstants, Feed!ValuesOK, NEW there, Feed!BarIs(there)
  PROVE  /\ pc' \in FeedPlaces /\ at' \in 1..Len(Frames)
         /\ found' \in {found, found \/ there} /\ asked' = FALSE
<1>1. pc' \in FeedPlaces
  BY Zenon DEF Feed!BarIs, FeedPlaces
<1>2. at' \in 1..Len(Frames)
  <2>1. at' = at \/ at' = 2
    BY Zenon DEF Feed!BarIs
  <2>2. QED
    BY <2>1, FramesFacts DEF Feed!ValuesOK
<1>3. found' \in {found, found \/ there} /\ asked' = FALSE
  BY Zenon DEF Feed!BarIs
<1>4. QED
  BY <1>1, <1>2, <1>3

-----------------------------------------------------------------------------
(* Type correctness: values first, then flags, then the caches. *)

USE DEF Feed!vars, Feed!breakerVars, Feed!cacheVars, Feed!bufferVars, Feed!loopVars

LEMMA NoBarsTypes == Feed!NoBars \in Feed!Bars
BY DEF Feed!Bars

LEMMA ValuesFetch ==
  ASSUME FeedConstants, Feed!TypeOK,
         Feed!Ask \/ Feed!CacheAnswers \/ Feed!Fails \/ Feed!FindsNothing \/ Feed!TimesOut
         \/ (\E bars \in Feed!Bars : Feed!Answered(bars))
  PROVE  Feed!ValuesOK'
<1> USE DEF FeedPlaces, BreakerStates
<1>1. CASE Feed!Ask
  <2>1. CASE Feed!Open
    <3>1. Feed!Keep(slot) /\ Feed!GoOn(slot # Feed!NoBars) /\ pc = "fetch"
      BY <1>1, <2>1 DEF Feed!Ask
    <3>2. QED
      BY <1>1, <2>1, <3>1, ReadTypes, KeepTypes, GoOnTypes DEF Feed!Ask, Feed!TypeOK,
         Feed!ValuesOK
  <2>2. CASE ~Feed!Open
    BY <1>1, <2>2, ReadTypes DEF Feed!Ask, Feed!TypeOK, Feed!ValuesOK
  <2>3. QED
    BY <2>1, <2>2
<1>2. CASE Feed!CacheAnswers
  BY <1>2, GoOnTypes DEF Feed!CacheAnswers, Feed!TypeOK, Feed!ValuesOK
<1>3. CASE Feed!Fails
  BY <1>3, FailureTypes, KeepTypes, GoOnTypes DEF Feed!Fails, Feed!TypeOK, Feed!ValuesOK
<1>4. CASE Feed!FindsNothing
  BY <1>4, NoBarsTypes, KeepTypes, GoOnTypes DEF Feed!FindsNothing, Feed!TypeOK,
     Feed!ValuesOK
<1>5. CASE Feed!TimesOut
  BY <1>5, FramesFacts, GoOnTypes DEF Feed!TimesOut, Feed!TypeOK, Feed!ValuesOK, Feed!Frame
<1>6. ASSUME NEW bars \in Feed!Bars, Feed!Answered(bars) PROVE Feed!ValuesOK'
  BY <1>6, SuccessTypes, KeepTypes, GoOnTypes DEF Feed!Answered, Feed!TypeOK, Feed!ValuesOK
<1>7. QED
  BY <1>1, <1>2, <1>3, <1>4, <1>5, <1>6

LEMMA ValuesBar ==
  ASSUME FeedConstants, Feed!TypeOK, Feed!AskBar \/ Feed!BarAnswered \/ Feed!BarFails \/ Feed!NoBar
  PROVE  Feed!ValuesOK'
<1> USE DEF FeedPlaces, BreakerStates
<1>1. CASE Feed!AskBar
  <2>1. CASE Feed!Open
    BY <1>1, <2>1, ReadTypes, BarIsTypes DEF Feed!AskBar, Feed!TypeOK, Feed!ValuesOK
  <2>2. CASE ~Feed!Open
    BY <1>1, <2>2, ReadTypes DEF Feed!AskBar, Feed!TypeOK, Feed!ValuesOK
  <2>3. QED
    BY <2>1, <2>2
<1>2. CASE Feed!BarAnswered
  <2>1. Feed!ValuesOK /\ Feed!BarIs(TRUE)
    BY <1>2, Zenon DEF Feed!BarAnswered, Feed!TypeOK
  <2>2. pc' \in FeedPlaces /\ at' \in 1..Len(Frames)
    BY <2>1, BarIsTypes, Zenon
  <2>3. /\ breaker' = "closed" /\ fails' = 0
        /\ UNCHANGED <<slot, held, valid, late, connFailures, paused>>
    BY <1>2, Zenon DEF Feed!BarAnswered, Feed!RecordSuccess
  <2>4. QED
    BY <2>1, <2>2, <2>3 DEF Feed!ValuesOK
<1>3. CASE Feed!BarFails
  BY <1>3, FailureTypes, BarIsTypes DEF Feed!BarFails, Feed!TypeOK, Feed!ValuesOK
<1>4. CASE Feed!NoBar
  BY <1>4, BarIsTypes DEF Feed!NoBar, Feed!TypeOK, Feed!ValuesOK
<1>5. QED
  BY <1>1, <1>2, <1>3, <1>4

LEMMA ValuesLoop ==
  ASSUME FeedConstants, Feed!TypeOK, Feed!StartCycle \/ Feed!Judge \/ Feed!Analysed \/ Feed!Pause \/ Feed!Resume
  PROVE  Feed!ValuesOK'
<1>1. CASE Feed!StartCycle
  BY <1>1, FramesFacts DEF Feed!StartCycle, Feed!TypeOK, Feed!ValuesOK
<1>2. CASE Feed!JudgedFailed
  BY <1>2 DEF Feed!JudgedFailed, Feed!UpTo, Feed!TypeOK, Feed!ValuesOK
<1>3. CASE Feed!JudgedQuiet \/ Feed!JudgedGood \/ Feed!CheckRaises
  BY <1>3 DEF Feed!JudgedQuiet, Feed!JudgedGood, Feed!CheckRaises, Feed!TypeOK,
     Feed!ValuesOK
<1>4. CASE Feed!Analysed \/ Feed!Pause \/ Feed!Resume
  BY <1>4 DEF Feed!Analysed, Feed!Pause, Feed!Resume, Feed!TypeOK, Feed!ValuesOK
<1>5. QED
  BY <1>1, <1>2, <1>3, <1>4 DEF Feed!Judge

(* Ageing keeps bars bars, and no bars no bars. *)
LEMMA AgedTypes ==
  ASSUME FeedConstants, NEW bars \in Feed!Bars
  PROVE  Feed!Aged(bars) \in Feed!Bars /\ (bars # Feed!NoBars => Feed!Aged(bars) # Feed!NoBars)
BY FramesFacts DEF Feed!Aged, Feed!Bars, Feed!FrameBars, Feed!NoBars

LEMMA ValuesAround ==
  ASSUME FeedConstants, Feed!TypeOK, Feed!LateStep \/ Feed!Time \/ Feed!GatewayTurns
  PROVE  Feed!ValuesOK'
<1> USE DEF BreakerStates
<1>1. ASSUME NEW f \in Feed!FrameSet, Feed!LateFailure(f) PROVE Feed!ValuesOK'
  BY <1>1, FailureTypes DEF Feed!LateFailure, Feed!TypeOK, Feed!ValuesOK
<1>2. ASSUME NEW f \in Feed!FrameSet, NEW bars \in Feed!Bars, Feed!LateAnswer(f, bars) PROVE Feed!ValuesOK'
  BY <1>2, SuccessTypes DEF Feed!LateAnswer, Feed!TypeOK, Feed!ValuesOK
<1>3. CASE Feed!BarsAge
  BY <1>3, AgedTypes DEF Feed!BarsAge, Feed!TypeOK, Feed!ValuesOK
<1>4. ASSUME NEW f \in Feed!FrameSet, Feed!Expire(f) PROVE Feed!ValuesOK'
  BY <1>4 DEF Feed!Expire, Feed!TypeOK, Feed!ValuesOK
<1>5. CASE Feed!RecoveryDue \/ Feed!GatewayTurns
  BY <1>5 DEF Feed!RecoveryDue, Feed!GatewayTurns, Feed!TypeOK, Feed!ValuesOK
<1>6. QED
  BY <1>1, <1>2, <1>3, <1>4, <1>5 DEF Feed!LateStep, Feed!Time

LEMMA ValuesStep ==
  ASSUME FeedConstants
  PROVE  Feed!TypeOK /\ [Feed!Next]_Feed!vars => Feed!ValuesOK'
<1> SUFFICES ASSUME Feed!TypeOK, [Feed!Next]_Feed!vars PROVE Feed!ValuesOK'
  OBVIOUS
<1>1. CASE UNCHANGED Feed!vars
  BY <1>1 DEF Feed!TypeOK, Feed!ValuesOK
<1>2. CASE Feed!Next
  BY <1>2, ValuesFetch, ValuesBar, ValuesLoop, ValuesAround DEF Feed!Next, Feed!Cycle,
     Feed!Request
<1>3. QED
  BY <1>1, <1>2

(* The flags.  An answer, a step of the loop or of the surroundings sets   *)
(* them to a truth value or leaves them alone.                             *)
LEMMA FeedFlags ==
  ASSUME FeedConstants
  PROVE  Feed!TypeOK /\ [Feed!Next]_Feed!vars => Feed!FlagsOK'
<1> SUFFICES ASSUME Feed!TypeOK, [Feed!Next]_Feed!vars PROVE Feed!FlagsOK'
  OBVIOUS
<1>1. CASE UNCHANGED Feed!vars
  BY <1>1, Zenon DEF Feed!TypeOK, Feed!FlagsOK
<1>2. ASSUME NEW some \in BOOLEAN, pc = "fetch", Feed!GoOn(some), UNCHANGED <<up, barSlot>>
      PROVE  Feed!FlagsOK'
  <2>1. found' \in {some, found} /\ asked' = FALSE
    BY <1>2, GoOnTypes, Zenon DEF Feed!TypeOK
  <2>2. QED
    BY <1>2, <2>1, Zenon DEF Feed!TypeOK, Feed!FlagsOK
<1>3. ASSUME NEW there \in BOOLEAN, Feed!BarIs(there), UNCHANGED up, barSlot' \in {barSlot, TRUE}
      PROVE  Feed!FlagsOK'
  <2>1. found' \in {found, found \/ there} /\ asked' = FALSE
    BY <1>3, BarIsTypes, Zenon DEF Feed!TypeOK
  <2>2. QED
    BY <1>3, <2>1, Zenon DEF Feed!TypeOK, Feed!FlagsOK
<1>4. CASE Feed!Request
  <2>1. CASE Feed!Ask
    BY <1>2, <2>1, Zenon DEF Feed!Ask, Feed!TypeOK, Feed!FlagsOK
  <2>2. CASE Feed!CacheAnswers \/ Feed!Fails \/ Feed!FindsNothing \/ Feed!TimesOut
    BY <1>2, <2>2, Zenon DEF Feed!CacheAnswers, Feed!Fails, Feed!FindsNothing, Feed!TimesOut
  <2>3. ASSUME NEW bars \in Feed!Bars, Feed!Answered(bars) PROVE Feed!FlagsOK'
    BY <1>2, <2>3, Zenon DEF Feed!Answered
  <2>4. CASE Feed!AskBar
    <3>1. CASE Feed!Open
      BY <1>3, <2>4, <3>1, Zenon DEF Feed!AskBar, Feed!TypeOK, Feed!FlagsOK
    <3>2. CASE ~Feed!Open
      BY <2>4, <3>2, Zenon DEF Feed!AskBar, Feed!TypeOK, Feed!FlagsOK
    <3>3. QED
      BY <3>1, <3>2
  <2>5. CASE Feed!BarAnswered \/ Feed!BarFails \/ Feed!NoBar
    BY <1>3, <2>5, Zenon DEF Feed!BarAnswered, Feed!BarFails, Feed!NoBar, Feed!TypeOK,
       Feed!FlagsOK
  <2>6. QED
    BY <1>4, <2>1, <2>2, <2>3, <2>4, <2>5, Zenon DEF Feed!Request
<1>5. CASE Feed!StartCycle \/ Feed!Judge \/ Feed!Analysed \/ Feed!Pause \/ Feed!Resume
  BY <1>5, Zenon DEF Feed!StartCycle, Feed!Judge, Feed!JudgedFailed, Feed!JudgedQuiet,
     Feed!JudgedGood, Feed!CheckRaises, Feed!Analysed, Feed!Pause, Feed!Resume,
     Feed!TypeOK, Feed!FlagsOK
<1>6. CASE Feed!LateStep
  BY <1>6, Zenon DEF Feed!LateStep, Feed!LateFailure, Feed!LateAnswer, Feed!Succeeds,
     Feed!TypeOK, Feed!FlagsOK
<1>7. CASE Feed!Time \/ Feed!GatewayTurns
  BY <1>7, Zenon DEF Feed!Time, Feed!BarsAge, Feed!Expire, Feed!RecoveryDue,
     Feed!GatewayTurns, Feed!TypeOK, Feed!FlagsOK
<1>8. QED
  BY <1>1, <1>4, <1>5, <1>6, <1>7, Zenon DEF Feed!Next, Feed!Cycle

(* The caches: only Keep fills one, and it never leaves a valid one empty. *)
LEMMA CachesStep ==
  ASSUME FeedConstants
  PROVE  Feed!TypeOK /\ [Feed!Next]_Feed!vars => Feed!CachesOK'
<1> SUFFICES ASSUME Feed!TypeOK, [Feed!Next]_Feed!vars PROVE Feed!CachesOK'
  OBVIOUS
<1>1. ASSUME UNCHANGED <<held, valid, paused>> PROVE Feed!CachesOK'
  BY <1>1 DEF Feed!TypeOK, Feed!CachesOK
<1>2. ASSUME NEW bars \in Feed!Bars, Feed!Keep(bars), UNCHANGED paused PROVE Feed!CachesOK'
  BY <1>2, KeepTypes DEF Feed!TypeOK, Feed!CachesOK
<1>3. CASE Feed!Request
  <2>1. slot \in Feed!Bars /\ Feed!NoBars \in Feed!Bars
    BY NoBarsTypes DEF Feed!TypeOK, Feed!ValuesOK
  <2>2. CASE Feed!Ask \/ Feed!CacheAnswers \/ Feed!Fails \/ Feed!FindsNothing \/ Feed!TimesOut
    BY <1>1, <1>2, <2>1, <2>2, Zenon DEF Feed!Ask, Feed!CacheAnswers, Feed!Fails,
       Feed!FindsNothing, Feed!TimesOut
  <2>3. ASSUME NEW bars \in Feed!Bars, Feed!Answered(bars) PROVE Feed!CachesOK'
    BY <1>2, <2>3, Zenon DEF Feed!Answered
  <2>4. CASE Feed!AskBar \/ Feed!BarAnswered \/ Feed!BarFails \/ Feed!NoBar
    BY <1>1, <2>4, Zenon DEF Feed!AskBar, Feed!BarAnswered, Feed!BarFails, Feed!NoBar
  <2>5. QED
    BY <1>3, <2>2, <2>3, <2>4, Zenon DEF Feed!Request
<1>4. CASE Feed!JudgedFailed \/ Feed!Pause \/ Feed!Resume
  BY <1>4 DEF Feed!JudgedFailed, Feed!Pause, Feed!Resume, Feed!TypeOK, Feed!CachesOK
<1>5. CASE Feed!BarsAge
  <2>1. \A f \in valid : held[f] \in Feed!Bars /\ held'[f] = Feed!Aged(held[f])
    BY <1>5 DEF Feed!BarsAge, Feed!TypeOK, Feed!ValuesOK
  <2>2. QED
    BY <1>5, <2>1, AgedTypes DEF Feed!BarsAge, Feed!TypeOK, Feed!CachesOK
<1>6. ASSUME NEW f \in Feed!FrameSet, Feed!Expire(f) PROVE Feed!CachesOK'
  BY <1>6 DEF Feed!Expire, Feed!TypeOK, Feed!CachesOK
<1>7. CASE \/ Feed!StartCycle \/ Feed!JudgedQuiet \/ Feed!JudgedGood \/ Feed!CheckRaises \/ Feed!Analysed
           \/ Feed!LateStep \/ Feed!RecoveryDue \/ Feed!GatewayTurns \/ UNCHANGED Feed!vars
  BY <1>1, <1>7, Zenon DEF Feed!StartCycle, Feed!JudgedQuiet, Feed!JudgedGood,
     Feed!CheckRaises, Feed!Analysed, Feed!LateStep, Feed!LateFailure, Feed!LateAnswer,
     Feed!RecoveryDue, Feed!GatewayTurns
<1>8. QED
  BY <1>3, <1>4, <1>5, <1>6, <1>7, Zenon DEF Feed!Next, Feed!Cycle, Feed!Judge, Feed!Time

(* Type correctness: fetch_latest_data and the caches, whatever is         *)
(* answered, late, timed out or stale; no empty cache counts as valid.     *)
THEOREM FeedTypes ==
  ASSUME FeedConstants
  PROVE  Feed!Spec => []Feed!TypeOK
<1>1. Feed!Init => Feed!TypeOK
  <2> SUFFICES ASSUME Feed!Init PROVE Feed!TypeOK
    OBVIOUS
  <2>1. Feed!ValuesOK /\ Feed!CachesOK
    BY FramesFacts, NoBarsTypes DEF Feed!Init, Feed!ValuesOK, Feed!CachesOK
  <2>2. Feed!FlagsOK
    BY Zenon DEF Feed!Init, Feed!FlagsOK
  <2>3. QED
    BY <2>1, <2>2 DEF Feed!TypeOK
<1>2. Feed!TypeOK /\ [Feed!Next]_Feed!vars => Feed!TypeOK'
  BY ValuesStep, FeedFlags, CachesStep DEF Feed!TypeOK
<1>3. QED
  BY <1>1, <1>2, PTL DEF Feed!Spec

-----------------------------------------------------------------------------
(* The breaker's count and its state. *)

LEMMA FailureCounts ==
  ASSUME FeedConstants, Feed!ValuesOK, Feed!ClosedBelowThreshold, Feed!RecordFailure
  PROVE  Feed!ClosedBelowThreshold'
BY DEF Feed!ValuesOK, Feed!ClosedBelowThreshold, Feed!RecordFailure, Feed!UpTo

LEMMA SuccessCounts ==
  ASSUME FeedConstants, Feed!RecordSuccess PROVE Feed!ClosedBelowThreshold'
BY DEF Feed!RecordSuccess, Feed!ClosedBelowThreshold

(* Reading the state, or its becoming due, does not close it.              *)
LEMMA ReadCounts ==
  ASSUME Feed!ClosedBelowThreshold, UNCHANGED fails,
         breaker' \in {breaker, Feed!Read} \/ (breaker = "open" /\ breaker' = "due")
  PROVE  Feed!ClosedBelowThreshold'
BY DEF Feed!ClosedBelowThreshold, Feed!Read

LEMMA CountStep ==
  ASSUME FeedConstants
  PROVE  Feed!TypeOK /\ Feed!ClosedBelowThreshold /\ [Feed!Next]_Feed!vars => Feed!ClosedBelowThreshold'
<1> SUFFICES ASSUME Feed!ValuesOK, Feed!ClosedBelowThreshold, [Feed!Next]_Feed!vars
             PROVE  Feed!ClosedBelowThreshold'
  BY DEF Feed!TypeOK
<1>1. CASE Feed!Request
  <2>1. CASE Feed!Ask \/ Feed!AskBar
    BY <2>1, ReadCounts DEF Feed!Ask, Feed!AskBar
  <2>2. CASE Feed!CacheAnswers \/ Feed!FindsNothing \/ Feed!TimesOut \/ Feed!NoBar
    BY <2>2, ReadCounts, Zenon DEF Feed!CacheAnswers, Feed!FindsNothing, Feed!TimesOut,
       Feed!NoBar
  <2>3. CASE Feed!Fails \/ Feed!BarFails
    BY <2>3, FailureCounts, Zenon DEF Feed!Fails, Feed!BarFails
  <2>4. CASE Feed!BarAnswered \/ \E bars \in Feed!Bars : Feed!Answered(bars)
    BY <2>4, SuccessCounts, Zenon DEF Feed!BarAnswered, Feed!Answered, Feed!Succeeds
  <2>5. QED
    BY <1>1, <2>1, <2>2, <2>3, <2>4, Zenon DEF Feed!Request
<1>2. CASE Feed!LateStep
  BY <1>2, FailureCounts, SuccessCounts, Zenon DEF Feed!LateStep, Feed!LateFailure,
     Feed!LateAnswer, Feed!Succeeds
<1>3. CASE Feed!RecoveryDue
  BY <1>3, ReadCounts DEF Feed!RecoveryDue
<1>4. CASE \/ Feed!StartCycle \/ Feed!Judge \/ Feed!Analysed \/ Feed!Pause \/ Feed!Resume \/ Feed!GatewayTurns
           \/ Feed!BarsAge \/ (\E f \in Feed!FrameSet : Feed!Expire(f)) \/ UNCHANGED Feed!vars
  BY <1>4, ReadCounts, Zenon DEF Feed!StartCycle, Feed!Judge, Feed!JudgedFailed,
     Feed!JudgedQuiet, Feed!JudgedGood, Feed!CheckRaises, Feed!Analysed, Feed!Pause,
     Feed!Resume, Feed!GatewayTurns, Feed!BarsAge, Feed!Expire
<1>5. QED
  BY <1>1, <1>2, <1>3, <1>4, Zenon DEF Feed!Next, Feed!Cycle, Feed!Time

(* ConnectionCircuitBreaker: whatever calls of the loop and late threads   *)
(* record, it is closed exactly below the threshold.                       *)
THEOREM BreakerCounts ==
  ASSUME FeedConstants
  PROVE  Feed!Spec => []Feed!ClosedBelowThreshold
<1>1. Feed!Init => Feed!ClosedBelowThreshold
  BY DEF Feed!Init, Feed!ClosedBelowThreshold
<1>2. QED
  BY <1>1, FeedTypes, CountStep, PTL DEF Feed!Spec

-----------------------------------------------------------------------------
(* An outage with nothing but old bars. *)

LEMMA OldKept ==
  ASSUME FeedConstants, Feed!TypeOK, Feed!OldBars, NEW bars, bars.age = "old", Feed!Keep(bars),
         UNCHANGED slot
  PROVE  Feed!OldBars'
<1>1. Feed!Frame \in Feed!FrameSet /\ held \in [Feed!FrameSet -> Feed!Bars]
  BY FramesFacts DEF Feed!TypeOK, Feed!ValuesOK, Feed!Frame
<1>2. held' = held \/ held' = [held EXCEPT ![Feed!Frame] = bars]
  BY Zenon DEF Feed!Keep
<1>3. \A f \in Feed!FrameSet : held'[f] = held[f] \/ held'[f] = bars
  BY <1>1, <1>2
<1>4. QED
  BY <1>3 DEF Feed!OldBars

LEMMA QuietStep ==
  ASSUME FeedConstants, Feed!TypeOK, [Feed!Next]_Feed!vars, ~up, Feed!OldBars
  PROVE  Feed!OldBars' /\ (pc' = "analyse" => pc = "analyse")
<1>1. ASSUME UNCHANGED <<slot, held>> PROVE Feed!OldBars'
  BY <1>1, Zenon DEF Feed!OldBars
<1>2. slot.age = "old" /\ Feed!NoBars.age = "old"
  BY DEF Feed!OldBars, Feed!NoBars
<1>3. ASSUME NEW some, Feed!GoOn(some), pc = "fetch" PROVE pc' # "analyse"
  BY <1>3 DEF Feed!GoOn
<1>4. ASSUME NEW there, Feed!BarIs(there) PROVE pc' # "analyse"
  BY <1>4 DEF Feed!BarIs
<1>5. CASE Feed!Request
  <2>1. CASE Feed!Ask
    <3>1. CASE Feed!Open
      <4>1. Feed!Keep(slot) /\ Feed!GoOn(slot # Feed!NoBars) /\ pc = "fetch" /\ UNCHANGED slot
        BY <2>1, <3>1, Zenon DEF Feed!Ask
      <4>2. QED
        BY <1>2, <1>3, <4>1, OldKept
    <3>2. CASE ~Feed!Open
      BY <1>1, <2>1, <3>2 DEF Feed!Ask
    <3>3. QED
      BY <3>1, <3>2
  <2>2. CASE Feed!CacheAnswers \/ Feed!TimesOut
    <3>1. UNCHANGED <<slot, held>> /\ pc = "fetch" /\ \E some \in BOOLEAN : Feed!GoOn(some)
      BY <2>2, Zenon DEF Feed!CacheAnswers, Feed!TimesOut
    <3>2. QED
      BY <1>1, <1>3, <3>1
  <2>3. CASE Feed!Fails
    <3>1. Feed!Keep(slot) /\ Feed!GoOn(slot # Feed!NoBars) /\ pc = "fetch" /\ UNCHANGED slot
      BY <2>3, Zenon DEF Feed!Fails
    <3>2. QED
      BY <1>2, <1>3, <3>1, OldKept
  <2>4. CASE Feed!FindsNothing
    <3>1. Feed!Keep(Feed!NoBars) /\ Feed!GoOn(FALSE) /\ pc = "fetch" /\ UNCHANGED slot
      BY <2>4, Zenon DEF Feed!FindsNothing
    <3>2. QED
      BY <1>2, <1>3, <3>1, OldKept
  <2>5. ~(\E bars \in Feed!Bars : Feed!Answered(bars))
    BY Zenon DEF Feed!Answered, Feed!Succeeds
  <2>6. CASE Feed!AskBar \/ Feed!BarAnswered \/ Feed!BarFails \/ Feed!NoBar
    <3>1. UNCHANGED <<slot, held>> /\ (pc' = pc \/ \E there \in BOOLEAN : Feed!BarIs(there))
      <4>1. CASE Feed!AskBar
        <5>1. barSlot \in BOOLEAN
          BY DEF Feed!TypeOK, Feed!FlagsOK
        <5>2. QED
          BY <4>1, <5>1, Zenon DEF Feed!AskBar
      <4>2. CASE Feed!BarAnswered
        BY <4>2, Zenon DEF Feed!BarAnswered
      <4>3. CASE Feed!BarFails
        <5>1. barSlot \in BOOLEAN
          BY DEF Feed!TypeOK, Feed!FlagsOK
        <5>2. QED
          BY <4>3, <5>1, Zenon DEF Feed!BarFails
      <4>4. CASE Feed!NoBar
        BY <4>4, Zenon DEF Feed!NoBar
      <4>5. QED
        BY <2>6, <4>1, <4>2, <4>3, <4>4
    <3>2. QED
      BY <1>1, <1>4, <3>1
  <2>7. QED
    BY <1>5, <2>1, <2>2, <2>3, <2>4, <2>5, <2>6, Zenon DEF Feed!Request
\* The stale data guard: what is judged are old bars.
<1>6. CASE Feed!JudgedGood
  <2>1. Feed!Stale
    <3>1. Frames[1] \in Feed!FrameSet
      BY FramesFacts
    <3>2. QED
      BY <3>1 DEF Feed!Stale, Feed!OldBars
  <2>2. pc' = "top" /\ UNCHANGED <<slot, held>>
    BY <1>6, <2>1 DEF Feed!JudgedGood
  <2>3. QED
    BY <1>1, <2>2
<1>7. CASE \/ Feed!StartCycle \/ Feed!JudgedFailed \/ Feed!JudgedQuiet \/ Feed!CheckRaises
           \/ Feed!Analysed \/ Feed!Pause \/ Feed!Resume
  <2>1. UNCHANGED <<slot, held>> /\ (pc' = pc \/ pc' \in {"fetch", "top"})
    BY <1>7, Zenon DEF Feed!StartCycle, Feed!JudgedFailed, Feed!JudgedQuiet, Feed!CheckRaises,
       Feed!Analysed, Feed!Pause, Feed!Resume
  <2>2. QED
    BY <1>1, <2>1
<1>8. CASE Feed!LateStep
  <2>1. UNCHANGED <<slot, held, pc>>
    BY <1>8, Zenon DEF Feed!LateStep, Feed!LateFailure, Feed!LateAnswer, Feed!Succeeds
  <2>2. QED
    BY <1>1, <2>1
<1>9. CASE Feed!BarsAge
  <2>1. /\ slot \in Feed!Bars /\ \A f \in Feed!FrameSet : held[f] \in Feed!Bars
        /\ slot' = Feed!Aged(slot) /\ \A f \in Feed!FrameSet : held'[f] = Feed!Aged(held[f])
        /\ pc' = pc
    BY <1>9 DEF Feed!BarsAge, Feed!TypeOK, Feed!ValuesOK
  <2>2. \A bars \in Feed!Bars : Feed!Aged(bars).age = "old"
    BY DEF Feed!Aged, Feed!Bars, Feed!FrameBars, Feed!NoBars
  <2>3. QED
    BY <2>1, <2>2 DEF Feed!OldBars
<1>10. CASE \/ (\E f \in Feed!FrameSet : Feed!Expire(f)) \/ Feed!RecoveryDue
            \/ Feed!GatewayTurns \/ UNCHANGED Feed!vars
  <2>1. UNCHANGED <<slot, held, pc>>
    BY <1>10, Zenon DEF Feed!Expire, Feed!RecoveryDue, Feed!GatewayTurns
  <2>2. QED
    BY <1>1, <2>1
<1>11. QED
  BY <1>5, <1>6, <1>7, <1>8, <1>9, <1>10, Zenon DEF Feed!Next, Feed!Cycle, Feed!Judge, Feed!Time

(* In an outage nothing that stands in for an answer (the breaker's frame,  *)
(* a renewed cache, a late thread) makes old bars new, so that the stale    *)
(* data guard lets no analysis begin.                                       *)
THEOREM OutageQuiet ==
  ASSUME FeedConstants
  PROVE  Feed!Spec => Feed!OutageStaysQuiet
<1>1. Feed!TypeOK /\ [Feed!Next]_Feed!vars
        => [~up /\ Feed!OldBars => Feed!OldBars' /\ (pc' = "analyse" => pc = "analyse")]_Feed!vars
  BY QuietStep
<1>2. QED
  BY <1>1, FeedTypes, PTL DEF Feed!Spec, Feed!OutageStaysQuiet
=============================================================================
