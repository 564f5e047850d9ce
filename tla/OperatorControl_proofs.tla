------------------------ MODULE OperatorControl_proofs ------------------------
(* Theorems about OperatorControl, for every set of trades and every bound  *)
(* on the mishaps, the writes and the restarts.                             *)
EXTENDS OperatorControl, TLAPS

(* What state.json can hold.                                               *)
Requests == [all : BOOLEAN, only : SUBSET SignalIds]

(* Where a close request of state.json may still be waiting: not past the  *)
(* handler that takes its kind, nor inside the job that handler began,     *)
(* unless something went wrong since the cycle had its data.               *)
RequestsInv ==
  ~slipped =>
    /\ pc \in {"autoFlat", "orders"} \/ job = "one" => requests = Nothing
    /\ pc = "one" \/ job = "all" => ~requests.all

(* A close-all request is in the flag file, then in state.json, then in    *)
(* the count of the jobs it began; only a clear that went wrong leaves it  *)
(* in state.json when it is counted.                                       *)
One(p) == IF p THEN 1 ELSE 0
TokenInv ==
  obeyed + One("closeAll" \in flags) + One(requests.all) <= asked + uncleared

IInv == TypeOK /\ RequestsInv /\ TokenInv

LEMMA InitIInv == Init => IInv
<1>. SUFFICES ASSUME Init PROVE IInv
  OBVIOUS
<1>1. TypeOK
  BY ConfigAssumption DEF Init, TypeOK, Points, Jobs, Nothing
<1>2. RequestsInv
  BY DEF Init, RequestsInv
<1>3. TokenInv
  BY DEF Init, TokenInv, One, Nothing
<1>. QED  BY <1>1, <1>2, <1>3 DEF IInv

-------------------------------------------------------------------------------
(* The primitives of state.json.                                           *)

LEMMA NothingAlone ==
  ASSUME NEW r \in Requests, ~r.all, r.only = {}
  PROVE  r = Nothing
BY DEF Requests, Nothing

LEMMA MishapFacts ==
  ASSUME TypeOK, Mishap
  PROVE  /\ slipped' /\ slipped' \in BOOLEAN
         /\ faults' \in Nat /\ faults' = faults + 1 /\ faults' # faults
<1>1. slipped' = TRUE /\ faults' = faults + 1
  BY DEF Mishap
<1>2. faults' \in Nat /\ faults' # faults
  BY <1>1 DEF TypeOK
<1>. QED  BY <1>1, <1>2

(* A step leaves what it wants, or has a mishap and leaves another.        *)
LEMMA StoredOutcome ==
  ASSUME TypeOK, NEW wanted \in Requests, NEW others \in SUBSET Requests,
         Stored(wanted, others)
  PROVE  /\ requests' \in Requests /\ slipped' \in BOOLEAN /\ faults' \in Nat
         /\ \/ requests' = wanted /\ slipped' = slipped /\ faults' = faults
            \/ requests' \in others /\ slipped' /\ faults' = faults + 1
<1>1. CASE requests' = wanted /\ UNCHANGED mishaps
  BY <1>1 DEF TypeOK, mishaps
<1>2. CASE requests' \in others \ {wanted} /\ Mishap
  BY <1>2, MishapFacts
<1>. QED  BY <1>1, <1>2 DEF Stored

LEMMA SavedOutcome ==
  ASSUME TypeOK, SaveState
  PROVE  /\ requests' \in Requests /\ slipped' \in BOOLEAN /\ faults' \in Nat
         /\ \/ requests' = Nothing /\ slipped' = slipped /\ faults' = faults
            \/ requests' = requests /\ slipped' /\ faults' = faults + 1
<1>1. Nothing \in Requests /\ requests \in Requests
  BY DEF TypeOK, Requests, Nothing
<1>2. Stored(Nothing, {requests})
  BY DEF SaveState
<1>. QED  BY <1>1, <1>2, StoredOutcome

(* The ingestion invents no close-all request, whatever fails in it; when  *)
(* nothing does, it keeps every request.                                   *)
LEMMA IngestionFacts ==
  ASSUME TypeOK
  PROVE  /\ Ingested \in Requests /\ Ingestions \in SUBSET Requests
         /\ \A r \in {Ingested} \cup Ingestions :
              r.all => requests.all \/ "closeAll" \in flags
         /\ requests.all \/ "closeAll" \in flags => Ingested.all
         /\ Ingested.only = requests.only \cup tickets
<1>1. /\ requests \in Requests /\ Nothing \in Requests
      /\ ~Nothing.all /\ tickets \in SUBSET SignalIds
  BY DEF TypeOK, Requests, Nothing
<1>2. \A r \in Requests :
        /\ WithTickets(r) \in Requests
        /\ WithTickets(r).all = r.all
        /\ WithTickets(r).only = r.only \cup tickets
  BY <1>1 DEF WithTickets, Requests
<1>3. \A r \in Requests :
        /\ WithFlag(r) \in Requests
        /\ WithFlag(r).all
        /\ WithFlag(r).only = r.only
  BY DEF WithFlag, Requests
<1>. HIDE DEF Requests
<1>4. /\ AfterTickets \in SUBSET Requests
      /\ \A r \in AfterTickets : r.all => requests.all
  BY <1>1, <1>2 DEF AfterTickets
<1>5. /\ Ingestions \in SUBSET Requests
      /\ \A r \in Ingestions : r.all => requests.all \/ "closeAll" \in flags
  BY <1>1, <1>3, <1>4 DEF Ingestions
<1>6. /\ Ingested \in Requests
      /\ Ingested.all <=> requests.all \/ "closeAll" \in flags
      /\ Ingested.only = requests.only \cup tickets
  <2>1. CASE "closeAll" \in flags
    BY <1>1, <1>2, <1>3, <2>1 DEF Ingested
  <2>2. CASE "closeAll" \notin flags
    BY <1>1, <1>2, <2>2 DEF Ingested
  <2>. QED  BY <2>1, <2>2
<1>. QED  BY <1>5, <1>6

LEMMA IngestedOutcome ==
  ASSUME TypeOK, Ingest
  PROVE  /\ requests' \in Requests /\ slipped' \in BOOLEAN /\ faults' \in Nat
         /\ requests'.all => requests.all \/ "closeAll" \in flags
         /\ faults' = faults => requests' = Ingested
<1>1. Stored(Ingested, Ingestions)
  BY DEF Ingest
<1>2. /\ requests' \in Requests /\ slipped' \in BOOLEAN /\ faults' \in Nat
      /\ \/ requests' = Ingested /\ slipped' = slipped /\ faults' = faults
         \/ requests' \in Ingestions /\ slipped' /\ faults' = faults + 1
  BY <1>1, IngestionFacts, StoredOutcome
<1>. QED  BY <1>2, IngestionFacts DEF TypeOK

LEMMA SavedForFlagOutcome ==
  ASSUME TypeOK, IngestAndSave
  PROVE  /\ requests' \in Requests /\ slipped' \in BOOLEAN /\ faults' \in Nat
         /\ requests'.all => requests.all \/ "closeAll" \in flags
<1>1. Stored(Nothing, Ingestions) /\ Nothing \in Requests /\ ~Nothing.all
  BY DEF IngestAndSave, Nothing, Requests
<1>2. /\ requests' \in Requests /\ slipped' \in BOOLEAN /\ faults' \in Nat
      /\ requests' = Nothing \/ requests' \in Ingestions
  BY <1>1, IngestionFacts, StoredOutcome
<1>. QED  BY <1>1, <1>2, IngestionFacts

(* Closing virtual trades touches state.json only by a mishap.             *)
LEMMA VirtualOutcome ==
  ASSUME TypeOK, NEW trades \in SUBSET virtual,
         \/ \E priced \in BOOLEAN : CloseAllVirtual(priced)
         \/ ClosingRaises(trades)
  PROVE  /\ virtual' \in SUBSET SignalIds
         /\ requests' \in Requests /\ slipped' \in BOOLEAN /\ faults' \in Nat
         /\ requests'.all => requests.all
         /\ \/ requests' = requests /\ slipped' = slipped /\ faults' = faults
            \/ slipped' /\ faults' # faults
<1>1. requests \in Requests /\ Nothing \in Requests /\ ~Nothing.all
  BY DEF TypeOK, Requests, Nothing
<1>2. ASSUME NEW priced \in BOOLEAN, CloseAllVirtual(priced)
      PROVE  /\ virtual' \in SUBSET SignalIds
             /\ requests' \in Requests /\ slipped' \in BOOLEAN /\ faults' \in Nat
             /\ requests'.all => requests.all
             /\ \/ requests' = requests /\ slipped' = slipped /\ faults' = faults
                \/ slipped' /\ faults' # faults
  <2>1. CASE priced
    <3>. DEFINE others == IF virtual = {} THEN {} ELSE {Nothing}
    <3>1. virtual' = {} /\ Stored(requests, others)
      BY <1>2, <2>1 DEF CloseAllVirtual
    <3>2. others \in SUBSET Requests /\ others \subseteq {Nothing}
      BY <1>1
    <3>. HIDE DEF others
    <3>3. /\ requests' \in Requests /\ slipped' \in BOOLEAN /\ faults' \in Nat
          /\ \/ requests' = requests /\ slipped' = slipped /\ faults' = faults
             \/ requests' \in others /\ slipped' /\ faults' = faults + 1
      BY <1>1, <3>1, <3>2, StoredOutcome
    <3>. QED  BY <1>1, <3>1, <3>2, <3>3 DEF TypeOK
  <2>2. CASE ~priced
    BY <1>1, <1>2, <2>2 DEF CloseAllVirtual, mishaps, TypeOK
  <2>. QED  BY <2>1, <2>2
<1>3. CASE ClosingRaises(trades)
  <2>1. virtual' \in SUBSET SignalIds
    BY <1>3 DEF ClosingRaises, TypeOK
  <2>. QED  BY <1>1, <1>3, <2>1, MishapFacts DEF ClosingRaises
<1>. QED  BY <1>2, <1>3

-------------------------------------------------------------------------------
(* The invariant.                                                          *)
LEMMA BootIInv == IInv /\ Boot => IInv'
<1>. SUFFICES ASSUME IInv, Boot PROVE IInv'
  OBVIOUS
<1>1. /\ requests' \in Requests /\ slipped' \in BOOLEAN /\ faults' \in Nat
      /\ requests'.all => requests.all
  BY SavedOutcome DEF IInv, Boot, Nothing
<1>2. TypeOK'
  BY <1>1 DEF IInv, Boot, TypeOK, Points, Jobs, Requests, history, bounds
<1>3. RequestsInv'
  BY DEF IInv, Boot, RequestsInv, TypeOK
<1>4. TokenInv'
  BY <1>1 DEF IInv, Boot, TokenInv, One, TypeOK, history
<1>. QED  BY <1>2, <1>3, <1>4 DEF IInv

LEMMA CheckFlagsIInv == IInv /\ CheckFlags => IInv'
<1>. SUFFICES ASSUME IInv, CheckFlags PROVE IInv'
  OBVIOUS
<1>. USE DEF IInv
<1>1. /\ pc \in {"top", "sleep"} /\ job = "none"
      /\ tickets' = {} /\ aged' = {} /\ paused' \in BOOLEAN
      /\ UNCHANGED <<virtual, conn, held, history, bounds>>
  BY DEF CheckFlags, TypeOK
<1>2. Live \in SUBSET Flags /\ "closeAll" \notin Live
  BY DEF Live, TypeOK
<1>3. CASE BeginKill
  <2>1. /\ requests' \in Requests /\ slipped' \in BOOLEAN /\ faults' \in Nat
        /\ requests'.all => requests.all \/ "closeAll" \in flags
    BY <1>3, IngestedOutcome DEF BeginKill
  <2>2. /\ job' \in KillJobs /\ pc' = "cancel" /\ closing' = SignalIds
        /\ flags' = Live /\ ~armed' /\ armed' \in BOOLEAN
    BY <1>3 DEF BeginKill, KillJobs
  <2>3. TypeOK'
    BY <1>1, <1>2, <2>1, <2>2
       DEF TypeOK, Requests, KillJobs, Jobs, Points, history, bounds
  <2>4. RequestsInv'
    BY <2>2 DEF RequestsInv, KillJobs
  <2>5. TokenInv'
    BY <1>1, <1>2, <2>1, <2>2 DEF TokenInv, One, TypeOK, history
  <2>. QED  BY <2>3, <2>4, <2>5
<1>4. CASE DisarmFlag \/ ArmFlag \/ NoFlag
  <2>1. /\ requests' \in Requests /\ slipped' \in BOOLEAN /\ faults' \in Nat
        /\ requests'.all => requests.all \/ "closeAll" \in flags
    BY <1>4, IngestedOutcome, SavedForFlagOutcome DEF DisarmFlag, ArmFlag, NoFlag
  <2>2. /\ pc' \in {"cycle", "sleep"} /\ job' = "none" /\ closing' = closing
        /\ flags' \subseteq Live /\ armed' \in BOOLEAN
    BY <1>1, <1>4 DEF DisarmFlag, ArmFlag, NoFlag, Checked, TypeOK
  <2>3. TypeOK'
    BY <1>1, <1>2, <2>1, <2>2 DEF TypeOK, Requests, Jobs, Points, history, bounds
  <2>4. RequestsInv'
    BY <2>2 DEF RequestsInv
  <2>5. TokenInv'
    BY <1>1, <1>2, <2>1, <2>2 DEF TokenInv, One, TypeOK, history
  <2>. QED  BY <2>3, <2>4, <2>5
<1>. QED  BY <1>3, <1>4 DEF CheckFlags

LEMMA ClearingIInv == IInv /\ Clearing => IInv'
<1>. SUFFICES ASSUME IInv, Clearing PROVE IInv'
  OBVIOUS
<1>. USE DEF IInv
<1>1. ASSUME NEW left \in SUBSET held, NEW priced \in BOOLEAN,
             Finish(left, priced), pc \in {"cancel", "flatten"}
      PROVE  IInv'
  <2>1. job \in Jobs \ {"none"}
    BY <1>1 DEF TypeOK
  <2>2. /\ pc' \in {"cycle", "sleep", "one", "autoFlat"} /\ job' = "none"
        /\ closing' = {} /\ ~armed' /\ armed' \in BOOLEAN
        /\ pc' = "one" => job = "all"
        /\ pc' = "autoFlat" => job = "one"
    BY <1>1, <2>1 DEF Finish, After, Jobs
  <2>3. /\ virtual' \in SUBSET SignalIds
        /\ requests' \in Requests /\ slipped' \in BOOLEAN /\ faults' \in Nat
        /\ requests'.all => requests.all
        /\ \/ requests' = requests /\ slipped' = slipped /\ faults' = faults
           \/ slipped' /\ faults' # faults
    <3>1. CASE job \in KillJobs
      BY <1>1, <3>1, VirtualOutcome DEF Finish
    <3>2. CASE job \notin KillJobs
      BY <1>1, <3>2 DEF Finish, mishaps, TypeOK, Requests
    <3>. QED  BY <3>1, <3>2
  <2>4. /\ flags' \in SUBSET flags /\ aged' \in SUBSET (flags' \cap AgingFlags)
        /\ "closeAll" \in flags' => "closeAll" \in flags
    BY <1>1 DEF Finish, TypeOK
  <2>5. TypeOK'
    BY <1>1, <2>2, <2>3, <2>4
       DEF Finish, TypeOK, Requests, Jobs, Points, history, bounds
  <2>6. RequestsInv'
    BY <2>2, <2>3 DEF RequestsInv
  <2>7. TokenInv'
    BY <1>1, <2>3, <2>4 DEF Finish, TokenInv, One, TypeOK, history
  <2>. QED  BY <2>5, <2>6, <2>7
<1>2. ASSUME NEW priced \in BOOLEAN, CancelDone(priced) PROVE IInv'
  <2>1. CASE conn
    <3>1. /\ pc = "cancel" /\ pc' = "flatten" /\ ~armed' /\ armed' \in BOOLEAN
          /\ UNCHANGED <<stateDir, job, closing, paused, conn, held, history,
                         mishaps, bounds>>
      BY <1>2, <2>1 DEF CancelDone
    <3>2. TypeOK'
      BY <3>1 DEF TypeOK, Points, stateDir, mishaps, history, bounds
    <3>3. RequestsInv'
      BY <3>1 DEF RequestsInv, stateDir, mishaps
    <3>4. TokenInv'
      BY <3>1 DEF TokenInv, stateDir, history
    <3>. QED  BY <3>2, <3>3, <3>4
  <2>2. CASE ~conn
    BY <1>1, <1>2, <2>2 DEF CancelDone
  <2>. QED  BY <2>1, <2>2
<1>3. ASSUME NEW priced \in BOOLEAN, NEW sold \in SUBSET held,
             FlattenDone(sold, priced)
      PROVE  IInv'
  BY <1>1, <1>3 DEF FlattenDone
<1>. QED  BY <1>2, <1>3 DEF Clearing

LEMMA HandleAllIInv ==
  ASSUME IInv, NEW priced \in BOOLEAN, HandleAll(priced)
  PROVE  IInv'
<1>. USE DEF IInv
<1>. DEFINE cleared == [requests EXCEPT !.all = FALSE]
<1>1. /\ cleared \in Requests /\ ~cleared.all
      /\ {requests, Nothing} \in SUBSET Requests
  <2>1. requests \in Requests /\ Nothing \in Requests
    BY DEF TypeOK, Requests, Nothing
  <2>2. cleared \in Requests /\ cleared.all = FALSE
    BY <2>1 DEF Requests
  <2>. QED  BY <2>1, <2>2
<1>2. Stored(cleared, {requests, Nothing})
  BY DEF HandleAll
<1>. HIDE DEF cleared
<1>3. /\ requests' \in Requests /\ slipped' \in BOOLEAN /\ faults' \in Nat
      /\ \/ ~requests'.all /\ faults' = faults
         \/ slipped' /\ faults' = faults + 1
      /\ ~slipped' => ~requests'.all
  BY <1>1, <1>2, StoredOutcome
<1>4. /\ virtual' \in SUBSET SignalIds /\ closing' = SignalIds
      /\ job' = "all" /\ pc' = "cancel" /\ ~armed' /\ armed' \in BOOLEAN
      /\ pc = "handle" /\ requests.all /\ obeyed' = obeyed + 1
      /\ uncleared' = uncleared + (faults' - faults)
      /\ UNCHANGED <<flags, aged, tickets, paused, conn, held, asked, bounds>>
  BY DEF HandleAll, TypeOK
<1>5. /\ obeyed' \in Nat /\ uncleared' \in Nat
      /\ requests'.all => uncleared' = uncleared + 1
      /\ uncleared <= uncleared'
  <2>1. /\ faults \in Nat /\ uncleared \in Nat /\ obeyed \in Nat
        /\ uncleared' = uncleared + (faults' - faults) /\ obeyed' = obeyed + 1
    BY <1>4 DEF TypeOK
  <2>2. CASE ~requests'.all /\ faults' = faults
    BY <2>1, <2>2
  <2>3. CASE faults' = faults + 1
    BY <2>1, <2>3
  <2>. QED  BY <1>3, <2>2, <2>3
<1>6. TypeOK'
  BY <1>3, <1>4, <1>5 DEF TypeOK, Requests, Jobs, Points, bounds
<1>7. RequestsInv'
  BY <1>3, <1>4 DEF RequestsInv
<1>8. TokenInv'
  <2>1. obeyed + One("closeAll" \in flags) + 1 <= asked + uncleared
    BY <1>4 DEF TokenInv, One
  <2>2. CASE ~requests'.all
    BY <1>4, <1>5, <2>1, <2>2 DEF TokenInv, One, TypeOK
  <2>3. CASE requests'.all
    BY <1>4, <1>5, <2>1, <2>3 DEF TokenInv, One, TypeOK
  <2>. QED  BY <2>2, <2>3
<1>. QED  BY <1>6, <1>7, <1>8

LEMMA HandleOnlyIInv ==
  ASSUME IInv, NEW priced \in BOOLEAN, HandleOnly(priced)
  PROVE  IInv'
<1>. USE DEF IInv
<1>. DEFINE cleared == [requests EXCEPT !.only = {}]
<1>1. /\ cleared \in Requests /\ cleared.only = {} /\ cleared.all = requests.all
      /\ {requests, Nothing} \in SUBSET Requests /\ ~Nothing.all
  BY DEF TypeOK, Requests, Nothing
<1>2. Stored(cleared, {requests, Nothing})
  BY DEF HandleOnly
<1>. HIDE DEF cleared
<1>3. /\ requests' \in Requests /\ slipped' \in BOOLEAN /\ faults' \in Nat
      /\ requests'.all => requests.all
      /\ (requests' = cleared /\ slipped' = slipped) \/ slipped'
  BY <1>1, <1>2, StoredOutcome
<1>4. /\ virtual' \in SUBSET SignalIds /\ closing' \in SUBSET SignalIds
      /\ job' = "one" /\ pc' = "cancel" /\ ~armed' /\ armed' \in BOOLEAN
      /\ pc \in {"handle", "one"} /\ AtRequests
      /\ UNCHANGED <<flags, aged, tickets, paused, conn, held, history, bounds>>
  BY DEF HandleOnly, AtRequests, TypeOK
<1>5. TypeOK'
  BY <1>3, <1>4 DEF TypeOK, Requests, Jobs, Points, history, bounds
<1>6. RequestsInv'
  <2>1. ASSUME ~slipped' PROVE requests' = Nothing
    <3>1. ~requests.all
      BY <1>3, <1>4, <2>1 DEF RequestsInv, AtRequests
    <3>. QED  BY <1>1, <1>3, <2>1, <3>1, NothingAlone
  <2>. QED  BY <1>4, <2>1 DEF RequestsInv, Nothing
<1>7. TokenInv'
  BY <1>3, <1>4 DEF TokenInv, One, TypeOK, history
<1>. QED  BY <1>5, <1>6, <1>7

LEMMA AtAutoFlatFacts ==
  ASSUME IInv, AtAutoFlat
  PROVE  pc \in {"handle", "one", "autoFlat"} /\ (~slipped => requests = Nothing)
<1>1. requests \in Requests
  BY DEF IInv, TypeOK, Requests
<1>2. CASE pc = "autoFlat"
  BY <1>2 DEF IInv, RequestsInv
<1>3. CASE AtRequests /\ requests.only = {}
  BY <1>1, <1>3, NothingAlone DEF IInv, RequestsInv, AtRequests
<1>. QED  BY <1>2, <1>3 DEF AtAutoFlat

LEMMA CycleIInv == IInv /\ Cycle => IInv'
<1>. SUFFICES ASSUME IInv, Cycle PROVE IInv'
  OBVIOUS
<1>. USE DEF IInv
<1>1. ASSUME pc' \in {"sleep", "handle"}, job = "none", paused' \in BOOLEAN,
             slipped' \in BOOLEAN,
             UNCHANGED <<stateDir, job, closing, armed, conn, held, history,
                         faults, bounds>>
      PROVE  IInv'
  <2>1. TypeOK'
    BY <1>1 DEF TypeOK, Jobs, Points, stateDir, history, bounds
  <2>2. RequestsInv'
    BY <1>1 DEF RequestsInv
  <2>3. TokenInv'
    BY <1>1 DEF TokenInv, stateDir, history
  <2>. QED  BY <2>1, <2>2, <2>3
<1>2. CASE CyclePaused
  BY <1>1, <1>2 DEF CyclePaused, TypeOK, mishaps
<1>3. CASE CycleData
  BY <1>1, <1>3 DEF CycleData, TypeOK
<1>4. ASSUME NEW trips \in BOOLEAN, CycleFails(trips) PROVE IInv'
  BY <1>1, <1>4 DEF CycleFails, TypeOK, mishaps
<1>5. ASSUME NEW priced \in BOOLEAN, AutoFlat(priced) PROVE IInv'
  <2>1. /\ virtual' \in SUBSET SignalIds
        /\ requests' \in Requests /\ slipped' \in BOOLEAN /\ faults' \in Nat
        /\ requests'.all => requests.all
        /\ \/ requests' = requests /\ slipped' = slipped /\ faults' = faults
           \/ slipped' /\ faults' # faults
    BY <1>5, VirtualOutcome DEF AutoFlat
  <2>2. /\ AtAutoFlat /\ pc' = "orders"
        /\ UNCHANGED <<flags, aged, tickets, job, closing, armed, paused, conn,
                       held, history, bounds>>
    BY <1>5 DEF AutoFlat
  <2>3. pc \in {"handle", "one", "autoFlat"} /\ (~slipped => requests = Nothing)
    BY <2>2, AtAutoFlatFacts
  <2>4. TypeOK'
    BY <2>1, <2>2, <2>3 DEF TypeOK, Requests, Jobs, Points, history, bounds
  <2>5. RequestsInv'
    BY <2>1, <2>2, <2>3 DEF RequestsInv, TypeOK
  <2>6. TokenInv'
    BY <2>1, <2>2 DEF TokenInv, One, TypeOK, history
  <2>. QED  BY <2>4, <2>5, <2>6
<1>6. CASE RequestUnread
  <2>1. /\ pc \in {"handle", "one"} /\ pc' \in {"one", "autoFlat"}
        /\ UNCHANGED <<stateDir, job, closing, armed, paused, conn, held,
                       history, bounds>>
        /\ slipped' /\ slipped' \in BOOLEAN /\ faults' \in Nat
    BY <1>6, MishapFacts DEF RequestUnread, AtRequests
  <2>2. TypeOK'
    BY <2>1 DEF TypeOK, Jobs, Points, stateDir, history, bounds
  <2>3. RequestsInv'
    BY <2>1 DEF RequestsInv
  <2>4. TokenInv'
    BY <2>1 DEF TokenInv, stateDir, history
  <2>. QED  BY <2>2, <2>3, <2>4
<1>7. CASE HandlerRaises
  <2>1. /\ pc \in {"handle", "one", "autoFlat"} /\ pc' = "orders"
        /\ UNCHANGED <<flags, aged, tickets, requests, job, closing, armed, paused,
                       conn, held, history, bounds>>
        /\ virtual' \in SUBSET SignalIds /\ Mishap
    BY <1>7 DEF HandlerRaises, ClosingRaises, AtRequests, AtAutoFlat, TypeOK
  <2>2. slipped' /\ slipped' \in BOOLEAN /\ faults' \in Nat
    BY <2>1, MishapFacts
  <2>3. TypeOK'
    BY <2>1, <2>2 DEF TypeOK, Jobs, Points, history, bounds
  <2>4. RequestsInv'
    BY <2>2 DEF RequestsInv
  <2>5. TokenInv'
    BY <2>1 DEF TokenInv, history
  <2>. QED  BY <2>3, <2>4, <2>5
<1>8. ASSUME NEW opened \in SUBSET SignalIds, NEW exits \in SUBSET virtual,
             NEW dirty \in BOOLEAN, RestOfCycle(opened, exits, dirty)
      PROVE  IInv'
  <2>1. /\ requests' \in Requests /\ slipped' \in BOOLEAN /\ faults' \in Nat
        /\ requests'.all => requests.all
    <3>1. CASE dirty
      BY <1>8, <3>1, SavedOutcome DEF RestOfCycle, Nothing
    <3>2. CASE ~dirty
      BY <1>8, <3>2 DEF RestOfCycle, mishaps, TypeOK, Requests
    <3>. QED  BY <3>1, <3>2
  <2>2. /\ pc = "orders" /\ pc' = "sleep"
        /\ held' \in SUBSET SignalIds /\ virtual' \in SUBSET SignalIds
        /\ UNCHANGED <<flags, aged, tickets, job, closing, armed, paused, conn,
                       history, bounds>>
    BY <1>8 DEF RestOfCycle, TypeOK
  <2>3. TypeOK'
    BY <2>1, <2>2 DEF TypeOK, Requests, Jobs, Points, history, bounds
  <2>4. RequestsInv'
    BY <2>2 DEF RequestsInv, TypeOK
  <2>5. TokenInv'
    BY <2>1, <2>2 DEF TokenInv, One, TypeOK, history
  <2>. QED  BY <2>3, <2>4, <2>5
<1>. QED  BY <1>2, <1>3, <1>4, <1>5, <1>6, <1>7, <1>8, HandleAllIInv,
             HandleOnlyIInv DEF Cycle

LEMMA EnvironmentIInv == IInv /\ Environment => IInv'
<1>. SUFFICES ASSUME IInv, Environment PROVE IInv'
  OBVIOUS
<1>. USE DEF IInv
<1>1. ASSUME NEW f \in Flags, WriteFlag(f) PROVE IInv'
  <2>1. /\ flags' = flags \cup {f} /\ aged' = aged \ {f}
        /\ asked' = (IF f = "closeAll" THEN asked + 1 ELSE asked)
        /\ writes' = writes + 1
        /\ UNCHANGED <<tickets, requests, virtual, pc, job, closing, armed, paused,
                       conn, held, obeyed, uncleared, slipped, faults, restarts>>
    BY <1>1 DEF WriteFlag, Written, mishaps
  <2>2. asked' \in Nat /\ writes' \in Nat
    BY <2>1 DEF TypeOK
  <2>3. TypeOK'
    BY <2>1, <2>2 DEF TypeOK
  <2>4. RequestsInv'
    BY <2>1 DEF RequestsInv
  <2>5. TokenInv'
    BY <2>1 DEF TokenInv, One, TypeOK
  <2>. QED  BY <2>3, <2>4, <2>5
<1>2. ASSUME NEW f \in Flags, FlagAges(f) PROVE IInv'
  <2>1. TypeOK'
    BY <1>2 DEF FlagAges, TypeOK, mishaps, history, bounds
  <2>2. RequestsInv'
    BY <1>2 DEF FlagAges, RequestsInv, mishaps
  <2>3. TokenInv'
    BY <1>2 DEF FlagAges, TokenInv, history
  <2>. QED  BY <2>1, <2>2, <2>3
<1>3. ASSUME NEW s \in SignalIds, WriteTicket(s) PROVE IInv'
  <2>1. TypeOK'
    BY <1>3 DEF WriteTicket, Written, TypeOK, mishaps, history
  <2>2. RequestsInv'
    BY <1>3 DEF WriteTicket, Written, RequestsInv, mishaps
  <2>3. TokenInv'
    BY <1>3 DEF WriteTicket, TokenInv, history
  <2>. QED  BY <2>1, <2>2, <2>3
<1>4. ASSUME NEW s \in SignalIds, BrokerExit(s) PROVE IInv'
  <2>1. TypeOK'
    BY <1>4 DEF BrokerExit, TypeOK, stateDir, mishaps, history, bounds
  <2>2. RequestsInv'
    BY <1>4 DEF BrokerExit, RequestsInv, stateDir, mishaps
  <2>3. TokenInv'
    BY <1>4 DEF BrokerExit, TokenInv, stateDir, history
  <2>. QED  BY <2>1, <2>2, <2>3
<1>5. CASE Connection
  <2>1. TypeOK'
    BY <1>5 DEF Connection, TypeOK, stateDir, mishaps, history, bounds
  <2>2. RequestsInv'
    BY <1>5 DEF Connection, RequestsInv, stateDir, mishaps
  <2>3. TokenInv'
    BY <1>5 DEF Connection, TokenInv, stateDir, history
  <2>. QED  BY <2>1, <2>2, <2>3
<1>6. ASSUME NEW sold \in SUBSET held, Restart(sold) PROVE IInv'
  <2>1. /\ held' \in SUBSET SignalIds /\ armed' \in BOOLEAN /\ restarts' \in Nat
        /\ job' = "none" /\ pc' = "boot" /\ closing' = {}
        /\ paused' \in BOOLEAN /\ conn' \in BOOLEAN
        /\ UNCHANGED <<stateDir, history, mishaps, writes>>
    <3>1. /\ held' = held \ sold /\ armed' = ConfigArmed /\ restarts' = restarts + 1
          /\ job' = "none" /\ pc' = "boot" /\ closing' = {}
          /\ paused' = FALSE /\ conn' = FALSE
          /\ UNCHANGED <<stateDir, history, mishaps, writes>>
      BY <1>6 DEF Restart
    <3>2. restarts' \in Nat /\ held' \in SUBSET SignalIds
      BY <3>1 DEF TypeOK
    <3>3. armed' \in BOOLEAN /\ paused' \in BOOLEAN /\ conn' \in BOOLEAN
      BY <3>1, ConfigAssumption
    <3>. QED  BY <3>1, <3>2, <3>3
  <2>2. TypeOK'
    BY <2>1 DEF TypeOK, Jobs, Points, stateDir, mishaps, history
  <2>3. RequestsInv'
    BY <2>1 DEF RequestsInv
  <2>4. TokenInv'
    BY <2>1 DEF TokenInv, stateDir, history
  <2>. QED  BY <2>2, <2>3, <2>4
<1>. QED  BY <1>1, <1>2, <1>3, <1>4, <1>5, <1>6 DEF Environment

LEMMA NextIInv == IInv /\ [Next]_vars => IInv'
<1>. SUFFICES ASSUME IInv, [Next]_vars PROVE IInv'
  OBVIOUS
<1>1. CASE Wake
  <2>1. /\ pc' = "top"
        /\ UNCHANGED <<stateDir, job, closing, armed, paused, conn, held, history,
                       mishaps, bounds>>
        /\ pc = "sleep"
    BY <1>1 DEF Wake
  <2>2. TypeOK'
    BY <2>1 DEF IInv, TypeOK, Points, stateDir, mishaps, history, bounds
  <2>3. RequestsInv'
    BY <2>1 DEF IInv, TypeOK, RequestsInv
  <2>4. TokenInv'
    BY <2>1 DEF IInv, TokenInv, stateDir, history
  <2>. QED  BY <2>2, <2>3, <2>4 DEF IInv
<1>2. CASE UNCHANGED vars
  <2>1. TypeOK'
    BY <1>2 DEF IInv, vars, TypeOK
  <2>2. RequestsInv'
    BY <1>2 DEF IInv, vars, RequestsInv
  <2>3. TokenInv'
    BY <1>2 DEF IInv, vars, TokenInv
  <2>. QED  BY <2>1, <2>2, <2>3 DEF IInv
<1>. QED  BY <1>1, <1>2, BootIInv, CheckFlagsIInv, ClearingIInv, CycleIInv,
             EnvironmentIInv DEF Next, Agent

(* Together: the inductive invariant holds.                                *)
THEOREM Invariance == Spec => []IInv
  BY InitIInv, NextIInv, PTL DEF Spec

-------------------------------------------------------------------------------
(* Type correctness of the operator's commands.                            *)
THEOREM OperatorTypes == Spec => []TypeOK
<1>1. IInv => TypeOK
  BY DEF IInv
<1>. QED  BY <1>1, Invariance, PTL

(* A close-all request begins one job, and one more for each clear of it   *)
(* that went wrong (clear_close_all_flag, whose failed save is swallowed). *)
THEOREM OneJobPerRequest == Spec => []CloseAllOnce
<1>1. IInv => CloseAllOnce
  BY DEF IInv, TypeOK, TokenInv, One, CloseAllOnce
<1>. QED  BY <1>1, Invariance, PTL

(* No close request is given up but by the saves that do not know it and   *)
(* where state.json or the handler failed (_handle_close_all_requests).    *)
THEOREM RequestsAreServed == Spec => RequestsServed
<1>. DEFINE Excused ==
       \/ pc = "boot" \/ SavedForFlag
       \/ faults' # faults
       \/ pc = "orders" /\ slipped
<1>1. IInv /\ [Next]_vars => [GivenUp => Excused]_vars
  <2>. SUFFICES ASSUME IInv, [Next]_vars, GivenUp PROVE Excused
    OBVIOUS
  <2>. USE DEF IInv
  <2>1. CASE Boot
    BY <2>1 DEF Boot
  <2>2. CASE CheckFlags
    <3>1. CASE BeginKill \/ NoFlag
      <4>1. Ingest
        BY <3>1 DEF BeginKill, NoFlag
      <4>2. CASE faults' = faults
        <5>1. /\ AllWaiting => requests'.all
              /\ OnlyWaiting \subseteq requests'.only
          BY <4>1, <4>2, IngestedOutcome, IngestionFacts DEF AllWaiting, OnlyWaiting
        <5>. QED  BY <5>1 DEF GivenUp, AllWaiting, OnlyWaiting
      <4>. QED  BY <4>2
    <3>2. CASE DisarmFlag \/ ArmFlag
      BY <2>2, <3>2 DEF CheckFlags, DisarmFlag, ArmFlag, SavedForFlag
    <3>. QED  BY <2>2, <3>1, <3>2 DEF CheckFlags
  <2>3. ASSUME UNCHANGED <<requests, tickets>>,
               "closeAll" \in flags => "closeAll" \in flags'
        PROVE  FALSE
    BY <2>3 DEF GivenUp, AllWaiting, OnlyWaiting
  <2>4. ASSUME NEW left, NEW priced \in BOOLEAN, Finish(left, priced)
        PROVE  Excused
    <3>1. tickets' = tickets /\ ("closeAll" \in flags => "closeAll" \in flags')
      BY <2>4 DEF Finish
    <3>2. requests' = requests \/ faults' # faults
      BY <2>4, VirtualOutcome DEF Finish
    <3>. QED  BY <2>3, <3>1, <3>2
  <2>5. CASE Clearing
    BY <2>3, <2>4, <2>5 DEF Clearing, CancelDone, FlattenDone, stateDir
  <2>6. ASSUME NEW priced \in BOOLEAN, HandleAll(priced) PROVE Excused
    <3>1. /\ job' = "all" /\ tickets' = tickets
          /\ Stored([requests EXCEPT !.all = FALSE], {requests, Nothing})
      BY <2>6 DEF HandleAll
    <3>2. CASE Mishap
      BY <3>2, MishapFacts
    <3>3. CASE requests' = [requests EXCEPT !.all = FALSE]
      <4>1. requests'.only = requests.only
        BY <3>3 DEF TypeOK
      <4>. QED  BY <3>1, <4>1 DEF GivenUp, OnlyWaiting
    <3>. QED  BY <3>1, <3>2, <3>3 DEF Stored
  <2>7. ASSUME NEW priced \in BOOLEAN, HandleOnly(priced) PROVE Excused
    <3>1. /\ job' = "one" /\ closing' = requests.only
          /\ tickets' = tickets /\ flags' = flags
          /\ Stored([requests EXCEPT !.only = {}], {requests, Nothing})
      BY <2>7 DEF HandleOnly
    <3>2. CASE Mishap
      BY <3>2, MishapFacts
    <3>3. CASE requests' = [requests EXCEPT !.only = {}]
      <4>1. requests'.all = requests.all
        BY <3>3 DEF TypeOK
      <4>. QED  BY <3>1, <4>1 DEF GivenUp, AllWaiting, OnlyWaiting
    <3>. QED  BY <3>1, <3>2, <3>3 DEF Stored
  <2>8. ASSUME NEW priced \in BOOLEAN, AutoFlat(priced) PROVE Excused
    <3>1. requests' = requests \/ faults' # faults
      BY <2>8, VirtualOutcome DEF AutoFlat
    <3>. QED  BY <2>3, <2>8, <3>1 DEF AutoFlat
  <2>9. ASSUME NEW opened, NEW exits, NEW dirty \in BOOLEAN,
               RestOfCycle(opened, exits, dirty)
        PROVE  Excused
    <3>1. pc = "orders" /\ tickets' = tickets /\ flags' = flags
      BY <2>9 DEF RestOfCycle
    <3>2. CASE ~slipped
      <4>1. ~requests.all /\ requests.only = {}
        BY <3>1, <3>2 DEF RequestsInv, Nothing
      <4>. QED  BY <3>1, <4>1 DEF GivenUp, AllWaiting, OnlyWaiting
    <3>. QED  BY <3>1, <3>2
  <2>10. CASE CyclePaused \/ CycleData \/ \E trips \in BOOLEAN : CycleFails(trips)
    BY <2>3, <2>10 DEF CyclePaused, CycleData, CycleFails, stateDir
  <2>11. CASE RequestUnread \/ HandlerRaises
    BY <2>3, <2>11 DEF RequestUnread, HandlerRaises, ClosingRaises, stateDir
  <2>12. CASE Cycle
    BY <2>6, <2>7, <2>8, <2>9, <2>10, <2>11, <2>12 DEF Cycle
  <2>13. ASSUME NEW s \in SignalIds, WriteTicket(s) PROVE Excused
    <3>1. /\ requests' = requests /\ flags' = flags /\ tickets \subseteq tickets'
      BY <2>13 DEF WriteTicket
    <3>. QED  BY <3>1 DEF GivenUp, AllWaiting, OnlyWaiting
  <2>14. CASE Environment
    BY <2>3, <2>13, <2>14 DEF Environment, WriteFlag, FlagAges, BrokerExit,
                              Connection, Restart, stateDir
  <2>15. CASE Wake \/ UNCHANGED vars
    BY <2>3, <2>15 DEF Wake, stateDir, vars
  <2>. QED  BY <2>1, <2>2, <2>5, <2>12, <2>14, <2>15 DEF Next, Agent
<1>. QED  BY <1>1, Invariance, PTL DEF Spec, RequestsServed

(* The kill flag outlives everything but its own handling and its TTL.     *)
THEOREM KillKept == Spec => KillNotDropped
<1>1. IInv /\ [Next]_vars =>
        [("kill" \in flags /\ "kill" \notin flags') =>
           \/ job \in KillJobs /\ job' = "none" /\ pc' # "boot"
           \/ "kill" \in aged]_vars
  <2>. SUFFICES ASSUME IInv, [Next]_vars, "kill" \in flags, "kill" \notin flags',
                       "kill" \notin aged
                PROVE  job \in KillJobs /\ job' = "none" /\ pc' # "boot"
    OBVIOUS
  <2>. "kill" \in Live
    BY DEF Live
  <2>1. CASE CheckFlags
    BY <2>1 DEF CheckFlags, BeginKill, DisarmFlag, ArmFlag, NoFlag
  <2>2. ASSUME NEW left, NEW priced, Finish(left, priced), pc \in {"cancel", "flatten"}
        PROVE  job \in KillJobs /\ job' = "none" /\ pc' # "boot"
    <3>1. job \in KillJobs /\ job' = "none"
      BY <2>2 DEF Finish
    <3>2. pc' \in {"cycle", "sleep"}
      BY <2>2, <3>1 DEF Finish, After, KillJobs
    <3>. QED  BY <3>1, <3>2
  <2>3. CASE Clearing
    BY <2>2, <2>3 DEF Clearing, CancelDone, FlattenDone, stateDir
  <2>4. CASE Boot \/ Wake
    BY <2>4 DEF Boot, Wake, stateDir
  <2>5. CASE Cycle
    BY <2>5 DEF Cycle, CyclePaused, CycleData, CycleFails, HandleAll, HandleOnly,
                AutoFlat, RequestUnread, HandlerRaises, RestOfCycle, stateDir
  <2>6. CASE Environment
    BY <2>6 DEF Environment, WriteFlag, FlagAges, WriteTicket, BrokerExit,
                Connection, Restart, stateDir
  <2>7. CASE UNCHANGED vars
    BY <2>7 DEF vars
  <2>. QED  BY <2>1, <2>3, <2>4, <2>5, <2>6, <2>7 DEF Next, Agent
<1>. QED  BY <1>1, Invariance, PTL DEF Spec, KillNotDropped
===============================================================================
