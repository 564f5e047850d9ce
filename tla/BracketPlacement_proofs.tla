------------------------ MODULE BracketPlacement_proofs ------------------------
(* Theorems about BracketPlacement, for every set of callers and every limit. *)
EXTENDS BracketPlacement, FiniteSetTheorems, TLAPS

-------------------------------------------------------------------------------
(* Type correctness.                                                       *)

(* What the code between two awaits of a call assigns.                     *)
CallTypes ==
  /\ executed' \in SUBSET SignalIds
  /\ pending' \in Nat
  /\ call' \in [Callers -> ActiveCalls \cup {Idle}]
  /\ sends' \in [SignalIds -> Nat]
  /\ strays' \in Nat

(* Moving a call to another stage keeps it a call.                         *)
LEMMA StageType ==
  ASSUME NEW sig \in ActiveCalls, NEW st \in Stages \ {"idle"}
  PROVE  [sig EXCEPT !.pc = st] \in ActiveCalls
  BY DEF ActiveCalls

(* Nor does filling in what the guard saw.                                 *)
LEMMA SightType ==
  ASSUME NEW sig \in ActiveCalls, NEW v \in Int, NEW b \in BOOLEAN
  PROVE  [sig EXCEPT !.view = v, !.seen = b] \in ActiveCalls
  BY DEF ActiveCalls

(* Send: the request is prepared, or refused for its target's distance.    *)
LEMMA SendTypes ==
  ASSUME TypeOK, NEW c \in Callers, NEW sig \in ActiveCalls, Send(c, sig)
  PROVE  CallTypes
<1>1. CASE sig.tight
  BY <1>1 DEF Send, Return, CallTypes, TypeOK
<1>2. CASE ~sig.tight
  <2>1. [sig EXCEPT !.pc = "oso"] \in ActiveCalls
    BY StageType DEF Stages
  <2>2. sig.sid \in SignalIds
    BY DEF ActiveCalls
  <2>3. call' \in [Callers -> ActiveCalls \cup {Idle}]
    BY <1>2, <2>1 DEF Send, TypeOK
  <2>4. sends' \in [SignalIds -> Nat]
    <3>1. sends \in [SignalIds -> Nat] /\ sends[sig.sid] + 1 \in Nat
      BY <2>2 DEF TypeOK
    <3>2. sends' = [sends EXCEPT ![sig.sid] = sends[sig.sid] + 1]
      BY <1>2 DEF Send
    <3>. QED  BY <2>2, <3>1, <3>2
  <2>5. executed' \in SUBSET SignalIds
    BY <1>2, <2>2 DEF Send, TypeOK
  <2>6. pending' \in Nat
    BY <1>2 DEF Send, TypeOK
  <2>7. strays' \in Nat
    BY <1>2 DEF Send, TypeOK
  <2>. QED  BY <2>3, <2>4, <2>5, <2>6, <2>7 DEF CallTypes
<1>. QED  BY <1>1, <1>2

(* PastDirection: the checks that follow the loop over the positions.      *)
LEMMA PastDirectionTypes ==
  ASSUME TypeOK, NEW c \in Callers, NEW sig \in ActiveCalls,
         PastDirection(c, sig)
  PROVE  CallTypes
<1>1. [sig EXCEPT !.pc = "resolve"] \in ActiveCalls
  BY StageType DEF Stages
<1>2. CASE Send(c, sig)
  BY <1>2, SendTypes
<1>3. CASE ~Send(c, sig)
  BY <1>1, <1>3 DEF PastDirection, Return, CallTypes, TypeOK
<1>. QED  BY <1>2, <1>3

(* Guard: the loop over the positions, with its reversal branch.           *)
LEMMA GuardTypes ==
  ASSUME TypeOK, NEW c \in Callers, NEW sig \in ActiveCalls, Guard(c, sig)
  PROVE  CallTypes /\ armed' \in BOOLEAN
<1>1. [sig EXCEPT !.pc = "flattenList"] \in ActiveCalls
  BY StageType DEF Stages
<1>2. CASE PastDirection(c, sig) /\ UNCHANGED armed
  BY <1>2, PastDirectionTypes DEF TypeOK
<1>3. CASE ~(PastDirection(c, sig) /\ UNCHANGED armed)
  BY <1>1, <1>3 DEF Guard, Return, CallTypes, TypeOK
<1>. QED  BY <1>2, <1>3

LEMMA InitType == Init => TypeOK
<1>. SUFFICES ASSUME Init PROVE TypeOK
  OBVIOUS
<1>1. call \in [Callers -> ActiveCalls \cup {Idle}]
  BY DEF Init
<1>2. sync \in Seq(Int) /\ wsQueue \in Seq(Int)
  BY DEF Init
<1>3. /\ working \in [Directions -> Nat]
      /\ wire \in [Directions -> Nat]
      /\ sends \in [SignalIds -> Nat]
  BY DEF Init
<1>4. lossHit \in BOOLEAN /\ conn \in BOOLEAN
  BY DEF Init
<1>. QED  BY <1>1, <1>2, <1>3, <1>4 DEF Init, TypeOK

LEMMA NextType == TypeOK /\ [Next]_vars => TypeOK'
<1>. SUFFICES ASSUME TypeOK, [Next]_vars PROVE TypeOK'
  OBVIOUS
<1>1. ASSUME NEW c \in Callers, Start(c) PROVE TypeOK'
  <2>. PICK sid \in SignalIds, type \in Types :
         \/ StartDuplicate(c, sid)
         \/ StartRefused(c, sid, type)
         \/ \E dir \in Directions, tight \in BOOLEAN :
              \/ StartWithRest(c, sid, type, dir, tight)
              \/ StartWithCache(c, sid, type, dir, tight)
    BY <1>1 DEF Start
  <2>0. [call EXCEPT ![c] = Idle] \in [Callers -> ActiveCalls \cup {Idle}]
    BY DEF TypeOK
  <2>1. CASE StartDuplicate(c, sid)
    <3>1. call' = [call EXCEPT ![c] = Idle] /\ calls' \in Nat
      BY <2>1 DEF StartDuplicate, MayStart, Return, TypeOK
    <3>. QED
      BY <2>0, <2>1, <3>1 DEF StartDuplicate, MayStart, TypeOK, adapterVars, brokerVars
  <2>2. CASE StartRefused(c, sid, type)
    <3>1. call' = [call EXCEPT ![c] = Idle] /\ calls' \in Nat
      BY <2>2 DEF StartRefused, MayStart, Return, TypeOK
    <3>2. armed' \in BOOLEAN
      BY <2>2 DEF StartRefused
    <3>. QED
      BY <2>0, <2>2, <3>1, <3>2 DEF StartRefused, MayStart, TypeOK, brokerVars
  <2>3. ASSUME NEW dir \in Directions, NEW tight \in BOOLEAN
        PROVE  NewCall(sid, type, dir, tight) \in ActiveCalls
    BY <2>3 DEF NewCall, ActiveCalls, Stages, Settled
  <2>4. Cached \in Int
    BY DEF Cached, TypeOK
  <2>5. ASSUME NEW dir \in Directions, NEW tight \in BOOLEAN,
               StartWithRest(c, sid, type, dir, tight)
        PROVE  TypeOK'
    BY <2>3, <2>4, <2>5 DEF StartWithRest, MayStart, TypeOK, brokerVars
  <2>6. ASSUME NEW dir \in Directions, NEW tight \in BOOLEAN,
               StartWithCache(c, sid, type, dir, tight)
        PROVE  TypeOK'
    <3>. DEFINE seen == (Cached # 0 \/ cacheAge = "fresh")
                sig == [NewCall(sid, type, dir, tight) EXCEPT
                          !.view = Cached, !.seen = seen]
    <3>0. seen \in BOOLEAN
      OBVIOUS
    <3>2. Guard(c, sig)
      BY <2>6 DEF StartWithCache
    <3>. HIDE DEF seen
    <3>1. sig \in ActiveCalls
      BY <2>3, <2>4, <3>0, SightType
    <3>. HIDE DEF sig
    <3>3. CallTypes /\ armed' \in BOOLEAN
      BY <3>1, <3>2, GuardTypes
    <3>6. MayStart(c) /\ livePos' = Cached
      BY <2>6, Zenon DEF StartWithCache
    <3>4. livePos' \in Int /\ calls' \in Nat /\ env' \in Nat
      BY <2>4, <3>6 DEF MayStart, TypeOK
    <3>5. UNCHANGED <<ordersToday, lossHit, cooling, cacheAge, conn, contract,
                      sync, brokerVars>>
      BY <2>6, Zenon DEF StartWithCache
    <3>. QED  BY <3>3, <3>4, <3>5 DEF CallTypes, TypeOK, brokerVars
  <2>. QED  BY <2>1, <2>2, <2>5, <2>6
<1>2. ASSUME NEW c \in Callers, Advance(c) PROVE TypeOK'
  <2>0. call[c].pc # "idle" => call[c] \in ActiveCalls
    BY DEF TypeOK, Idle
  <2>1. CASE PositionsReply(c)
    <3>1. call[c] \in ActiveCalls
      BY <2>0, <2>1 DEF PositionsReply
    <3>2. CallTypes /\ armed' \in BOOLEAN
      BY <2>1, <3>1, GuardTypes DEF PositionsReply
    <3>. QED
      BY <2>1, <3>2 DEF PositionsReply, CallTypes, TypeOK, brokerVars
  <2>2. CASE PositionsFail(c)
    BY <2>2 DEF PositionsFail, Return, TypeOK, adapterVars, brokerVars
  <2>3. ASSUME Flattened(c), call[c] \in ActiveCalls
        PROVE  CallTypes /\ livePos' \in Int /\ cacheAge' = "stale"
    <3>1. [call[c] EXCEPT !.flattened = TRUE] \in ActiveCalls
      BY <2>3 DEF ActiveCalls
    <3>. QED  BY <2>3, <3>1, PastDirectionTypes DEF Flattened
  <2>4. CASE FlattenListReply(c)
    <3>1. call[c] \in ActiveCalls
      BY <2>0, <2>4 DEF FlattenListReply
    <3>2. CASE pos = 0
      BY <2>3, <2>4, <3>1, <3>2
      DEF FlattenListReply, CallTypes, TypeOK, brokerVars
    <3>3. CASE pos # 0
      <4>1. [call[c] EXCEPT !.pc = "flattenOrder", !.liq = pos] \in ActiveCalls
        BY <3>1 DEF ActiveCalls, Stages, TypeOK
      <4>. QED
        BY <2>4, <3>3, <4>1 DEF FlattenListReply, TypeOK, brokerVars
    <3>. QED  BY <3>2, <3>3
  <2>5. CASE FlattenListFail(c)
    BY <2>5 DEF FlattenListFail, Return, TypeOK, adapterVars, brokerVars
  <2>6. ASSUME NEW accepted \in BOOLEAN, FlattenOrder(c, accepted)
        PROVE  TypeOK'
    <3>1. call[c] \in ActiveCalls
      BY <2>0, <2>6 DEF FlattenOrder
    <3>2. Abs(call[c].liq) \in Nat
      BY <3>1 DEF ActiveCalls, Abs
    <3>3. working' \in [Directions -> Nat]
      BY <2>6, <3>2 DEF FlattenOrder, TypeOK, Directions
    <3>. QED
      BY <2>3, <2>6, <3>1, <3>3 DEF FlattenOrder, CallTypes, TypeOK
  <2>7. CASE ResolveReply(c)
    <3>1. call[c] \in ActiveCalls
      BY <2>0, <2>7 DEF ResolveReply
    <3>2. CallTypes
      BY <2>7, <3>1, SendTypes DEF ResolveReply
    <3>. QED
      BY <2>7, <3>2 DEF ResolveReply, CallTypes, TypeOK, brokerVars
  <2>8. CASE ResolveFail(c)
    BY <2>8 DEF ResolveFail, Return, TypeOK, adapterVars, brokerVars
  <2>9. CASE OsoPlaced(c)
    <3>1. call[c].type \in Types
      BY <2>0, <2>9 DEF OsoPlaced, ActiveCalls
    <3>2. pending' \in Nat
      BY <2>9 DEF OsoPlaced, ReleasePending, TypeOK
    <3>. QED
      BY <2>9, <3>1, <3>2 DEF OsoPlaced, Return, TypeOK, brokerVars
  <2>10. CASE OsoRejected(c)
    <3>1. pending' \in Nat
      BY <2>10 DEF OsoRejected, ReleasePending, TypeOK
    <3>. QED
      BY <2>10, <3>1 DEF OsoRejected, Return, TypeOK, brokerVars
  <2>11. CASE OsoAbandoned(c)
    <3>1. pending' \in Nat
      BY <2>11 DEF OsoAbandoned, ReleasePending, TypeOK
    <3>2. call[c].dir \in Directions
      BY <2>0, <2>11 DEF OsoAbandoned, OsoStages, ActiveCalls
    <3>3. wire' \in [Directions -> Nat]
      BY <2>11, <3>2 DEF OsoAbandoned, TypeOK
    <3>. QED
      BY <2>11, <3>1, <3>3 DEF OsoAbandoned, Return, TypeOK
  <2>. QED
    BY <1>2, <2>1, <2>2, <2>4, <2>5, <2>6, <2>7, <2>8, <2>9, <2>10, <2>11
    DEF Advance
<1>3. CASE Broker
  <2>1. ASSUME NEW c \in Callers, BrokerAccepts(c) PROVE TypeOK'
    <3>1. call[c] \in ActiveCalls
      BY <2>1 DEF BrokerAccepts, TypeOK, Idle
    <3>2. [call[c] EXCEPT !.pc = "osoAccepted"] \in ActiveCalls
      BY <3>1, StageType DEF Stages
    <3>3. working' \in [Directions -> Nat]
      BY <2>1, <3>1 DEF BrokerAccepts, TypeOK, ActiveCalls
    <3>. QED
      BY <2>1, <3>2, <3>3 DEF BrokerAccepts, TypeOK, adapterVars
  <2>2. ASSUME NEW c \in Callers, BrokerRefuses(c) PROVE TypeOK'
    <3>1. call[c] \in ActiveCalls
      BY <2>2 DEF BrokerRefuses, TypeOK, Idle
    <3>2. [call[c] EXCEPT !.pc = "osoRefused"] \in ActiveCalls
      BY <3>1, StageType DEF Stages
    <3>. QED
      BY <2>2, <3>2 DEF BrokerRefuses, TypeOK, adapterVars, brokerVars
  <2>3. ASSUME NEW d \in Directions, NEW accepted \in BOOLEAN,
               WireArrives(d, accepted)
        PROVE  TypeOK'
    <3>1. wire' \in [Directions -> Nat] /\ working' \in [Directions -> Nat]
      BY <2>3 DEF WireArrives, TypeOK
    <3>. QED  BY <2>3, <3>1 DEF WireArrives, TypeOK, adapterVars
  <2>4. ASSUME NEW d \in Directions, Fill(d) PROVE TypeOK'
    <3>1. working' \in [Directions -> Nat]
      BY <2>4 DEF Fill, TypeOK
    <3>2. pos + Sign(d) \in Int
      BY DEF TypeOK, Sign
    <3>. QED
      BY <2>4, <3>1, <3>2 DEF Fill, PositionBecomes, TypeOK, adapterVars
  <2>5. CASE BracketExit
    BY <2>5 DEF BracketExit, PositionBecomes, TypeOK, adapterVars
  <2>6. ASSUME NEW c \in Callers, BrokerReads(c) PROVE TypeOK'
    <3>1. call[c] \in ActiveCalls
      BY <2>6 DEF BrokerReads, TypeOK, Idle
    <3>2. [call[c] EXCEPT !.pc = "positionsRead", !.view = pos, !.seen = TRUE]
            \in ActiveCalls
      BY <3>1 DEF ActiveCalls, Stages, TypeOK
    <3>. QED
      BY <2>6, <3>2 DEF BrokerReads, TypeOK, adapterVars, brokerVars
  <2>. QED  BY <1>3, <2>1, <2>2, <2>3, <2>4, <2>5, <2>6 DEF Broker
<1>4. CASE Background
  <2>1. CASE WsDeliver
    BY <2>1 DEF WsDeliver, TypeOK
  <2>2. CASE CacheAges
    BY <2>2 DEF CacheAges, TypeOK, brokerVars
  <2>3. ASSUME NEW sid \in SignalIds, DedupExpires(sid) PROVE TypeOK'
    BY <2>3 DEF DedupExpires, TypeOK, brokerVars
  <2>4. ASSUME NEW type \in Types, CooldownExpires(type) PROVE TypeOK'
    BY <2>4 DEF CooldownExpires, TypeOK, brokerVars
  <2>5. CASE SyncRequest
    BY <2>5 DEF SyncRequest, TypeOK, brokerVars
  <2>6. CASE SyncReply
    <3>1. Head(sync) \in Int /\ <<>> \in Seq(Int)
      BY <2>6 DEF SyncReply, TypeOK
    <3>. QED  BY <2>6, <3>1 DEF SyncReply, TypeOK, brokerVars
  <2>7. CASE SyncFail
    <3>1. <<>> \in Seq(Int)
      OBVIOUS
    <3>. QED  BY <2>7, <3>1 DEF SyncFail, TypeOK, brokerVars
  <2>. QED
    BY <1>4, <2>1, <2>2, <2>3, <2>4, <2>5, <2>6, <2>7 DEF Background
<1>5. CASE Environment
  <2>1. CASE Arm
    BY <2>1 DEF Arm, Event, TypeOK, brokerVars
  <2>2. CASE Disarm
    <3>1. armed' \in BOOLEAN
      BY <2>2 DEF Disarm
    <3>. QED  BY <2>2, <3>1 DEF Disarm, Event, TypeOK, brokerVars
  <2>3. CASE DayReset
    <3>1. lossHit' \in BOOLEAN
      BY <2>3 DEF DayReset
    <3>. QED  BY <2>3, <3>1 DEF DayReset, Event, TypeOK, brokerVars
  <2>4. CASE DailyPnl
    BY <2>4 DEF DailyPnl, Event, TypeOK, brokerVars
  <2>5. CASE Connection
    BY <2>5 DEF Connection, Event, TypeOK, brokerVars
  <2>6. CASE WsDrop
    BY <2>6 DEF WsDrop, Event, TypeOK, adapterVars
  <2>. QED  BY <1>5, <2>1, <2>2, <2>3, <2>4, <2>5, <2>6 DEF Environment
<1>6. CASE UNCHANGED vars
  BY <1>6 DEF vars, TypeOK
<1>. QED  BY <1>1, <1>2, <1>3, <1>4, <1>5, <1>6 DEF Next

(* Every variable keeps its type: the counters stay natural numbers (the   *)
(* max(0, ..) of the finally clause), and a call is a call or idle.        *)
THEOREM TypeCorrect == Spec => []TypeOK
BY InitType, NextType, PTL DEF Spec

-------------------------------------------------------------------------------
(* Calls past their preconditions that have not sent their order yet.      *)
WaitingStages == {"positions", "positionsRead", "flattenList", "flattenOrder",
                  "resolve"}
Waiting == {c \in Callers : call[c].pc \in WaitingStages}

(* The inductive strengthening of PendingIsInFlight, DailyLimit and        *)
(* StraysBounded.  A call is admitted below the daily limit and takes part *)
(* in the sum until it returns; a disarmed adapter admits no call, so its  *)
(* stray orders come from the calls that were waiting.                     *)
CountInv ==
  /\ PendingIsInFlight
  /\ ordersToday + Cardinality(Active)
       <= MaxOrdersPerDay - 1 + Cardinality(Callers)
  /\ armed => strays = 0
  /\ strays + Cardinality(Waiting) <= Cardinality(Callers)

(* The inductive strengthening of SentOnSeenRoom: what a call in a stage   *)
(* knows of the broker.                                                    *)
HasRoom(x) ==
  /\ x.seen
  /\ Abs(x.view) < MaxPositions
  /\ IsOpposite(x.view, x.dir) => x.flattened

Knows(x) ==
  /\ x.pc \in {"positionsRead", "flattenList", "flattenOrder"} => x.seen
  /\ x.pc \in OsoStages \cup {"resolve"} => HasRoom(x)

RoomInv == \A c \in Callers : Knows(call[c])

-------------------------------------------------------------------------------
(* SentOnSeenRoom: fail closed, and never beyond what was seen.            *)

LEMMA RoomStep ==
  ASSUME TypeOK, RoomInv, NEW c \in Callers, NEW x,
         call' = [call EXCEPT ![c] = x], Knows(x)
  PROVE  RoomInv'
<1>. SUFFICES ASSUME NEW d \in Callers PROVE Knows(call'[d])
  BY DEF RoomInv, Knows, HasRoom
<1>1. CASE d = c
  <2>. call'[d] = x
    BY <1>1 DEF TypeOK
  <2>. QED  OBVIOUS
<1>2. CASE d # c
  <2>. call'[d] = call[d]
    BY <1>2 DEF TypeOK
  <2>. QED  BY DEF RoomInv
<1>. QED  BY <1>1, <1>2

(* A return leaves a call that knows nothing and needs to know nothing.    *)
LEMMA IdleKnows == Knows(Idle)
BY DEF Knows, Idle, OsoStages

(* Moving to a stage where the same is asked keeps what the call knows.    *)
LEMMA StageKnows ==
  ASSUME NEW sig \in ActiveCalls, NEW st \in Stages, HasRoom(sig)
  PROVE  Knows([sig EXCEPT !.pc = st])
BY DEF Knows, HasRoom, ActiveCalls

LEMMA SendRoom ==
  ASSUME TypeOK, RoomInv, NEW c \in Callers, NEW sig \in ActiveCalls,
         Send(c, sig), HasRoom(sig)
  PROVE  RoomInv'
<1>1. CASE sig.tight
  BY <1>1, RoomStep, IdleKnows DEF Send, Return
<1>2. CASE ~sig.tight
  <2>1. Knows([sig EXCEPT !.pc = "oso"])
    BY StageKnows DEF Stages
  <2>2. call' = [call EXCEPT ![c] = [sig EXCEPT !.pc = "oso"]]
    BY <1>2 DEF Send
  <2>. QED  BY <2>1, <2>2, RoomStep
<1>. QED  BY <1>1, <1>2

LEMMA PastDirectionRoom ==
  ASSUME TypeOK, RoomInv, NEW c \in Callers, NEW sig \in ActiveCalls,
         PastDirection(c, sig), conn => sig.seen,
         IsOpposite(sig.view, sig.dir) => sig.flattened
  PROVE  RoomInv'
<1>1. CASE Refusal(sig.view) # "none"
  BY <1>1, RoomStep, IdleKnows DEF PastDirection, Return
<1>2. CASE Refusal(sig.view) = "none"
  <2>1. conn /\ ~(Abs(sig.view) >= MaxPositions)
    BY <1>2 DEF Refusal
  <2>2. Abs(sig.view) < MaxPositions
    BY <2>1, LimitsAssumption DEF ActiveCalls, Abs
  <2>3. HasRoom(sig)
    BY <2>1, <2>2 DEF HasRoom
  <2>4. CASE Send(c, sig)
    BY <2>3, <2>4, SendRoom
  <2>5. CASE call' = [call EXCEPT ![c] = [sig EXCEPT !.pc = "resolve"]]
    <3>1. Knows([sig EXCEPT !.pc = "resolve"])
      BY <2>3, StageKnows DEF Stages
    <3>. QED  BY <2>5, <3>1, RoomStep
  <2>. QED  BY <1>2, <2>4, <2>5 DEF PastDirection
<1>. QED  BY <1>1, <1>2

LEMMA GuardRoom ==
  ASSUME TypeOK, RoomInv, NEW c \in Callers, NEW sig \in ActiveCalls,
         Guard(c, sig), conn => sig.seen, sig.view # 0 => sig.seen
  PROVE  RoomInv'
<1>1. CASE IsOpposite(sig.view, sig.dir) /\ ~AllowReversal
  BY <1>1, RoomStep, IdleKnows DEF Guard, Return
<1>2. CASE IsOpposite(sig.view, sig.dir) /\ AllowReversal
  <2>1. sig.seen
    BY <1>2 DEF IsOpposite, ActiveCalls
  <2>2. Knows([sig EXCEPT !.pc = "flattenList"])
    BY <2>1 DEF Knows, ActiveCalls, OsoStages
  <2>3. call' = [call EXCEPT ![c] = IF conn
                                      THEN [sig EXCEPT !.pc = "flattenList"]
                                      ELSE Idle]
    BY <1>2 DEF Guard
  <2>. QED  BY <2>2, <2>3, RoomStep, IdleKnows
<1>3. CASE ~IsOpposite(sig.view, sig.dir)
  BY <1>3, PastDirectionRoom DEF Guard
<1>. QED  BY <1>1, <1>2, <1>3

(* The steps that end a call, or leave every call alone.                   *)
LEMMA ReturnRoom ==
  ASSUME TypeOK, RoomInv, NEW c \in Callers,
         call' = [call EXCEPT ![c] = Idle]
  PROVE  RoomInv'
BY RoomStep, IdleKnows

LEMMA StutterRoom ==
  ASSUME RoomInv, UNCHANGED call
  PROVE  RoomInv'
BY DEF RoomInv, Knows, HasRoom

LEMMA StartRoom ==
  ASSUME TypeOK, RoomInv, NEW c \in Callers, Start(c)
  PROVE  RoomInv'
<1>. PICK sid \in SignalIds, type \in Types :
       \/ StartDuplicate(c, sid)
       \/ StartRefused(c, sid, type)
       \/ \E dir \in Directions, tight \in BOOLEAN :
            \/ StartWithRest(c, sid, type, dir, tight)
            \/ StartWithCache(c, sid, type, dir, tight)
  BY DEF Start
<1>1. CASE StartDuplicate(c, sid)
  BY <1>1, ReturnRoom DEF StartDuplicate, Return
<1>2. CASE StartRefused(c, sid, type)
  BY <1>2, ReturnRoom DEF StartRefused, Return
<1>3. ASSUME NEW dir \in Directions, NEW tight \in BOOLEAN,
             StartWithRest(c, sid, type, dir, tight)
      PROVE  RoomInv'
  <2>1. call' = [call EXCEPT ![c] = NewCall(sid, type, dir, tight)]
    BY <1>3 DEF StartWithRest
  <2>2. Knows(NewCall(sid, type, dir, tight))
    BY DEF Knows, NewCall, OsoStages
  <2>. QED  BY <2>1, <2>2, RoomStep
<1>4. ASSUME NEW dir \in Directions, NEW tight \in BOOLEAN,
             StartWithCache(c, sid, type, dir, tight)
      PROVE  RoomInv'
  <2>. DEFINE seen == (Cached # 0 \/ cacheAge = "fresh")
              sig == [NewCall(sid, type, dir, tight) EXCEPT
                        !.view = Cached, !.seen = seen]
  <2>1. Guard(c, sig) /\ ~NeedsRest
    BY <1>4 DEF StartWithCache
  <2>2. seen \in BOOLEAN /\ (conn => seen) /\ (Cached # 0 => seen)
    BY <2>1 DEF NeedsRest
  <2>. HIDE DEF seen
  <2>3. Cached \in Int
    BY DEF Cached, TypeOK
  <2>6. NewCall(sid, type, dir, tight) \in ActiveCalls
    BY DEF NewCall, ActiveCalls, Stages, Settled
  <2>4. sig \in ActiveCalls
    BY <2>2, <2>3, <2>6 DEF ActiveCalls
  <2>5. sig.seen = seen /\ sig.view = Cached
    BY DEF NewCall
  <2>. HIDE DEF sig
  <2>. QED  BY <2>1, <2>2, <2>4, <2>5, GuardRoom
<1>. QED  BY <1>1, <1>2, <1>3, <1>4

LEMMA AdvanceRoom ==
  ASSUME TypeOK, RoomInv, NEW c \in Callers, Advance(c)
  PROVE  RoomInv'
<1>0. call[c].pc # "idle" => call[c] \in ActiveCalls
  BY DEF TypeOK, Idle
<1>1. CASE PositionsReply(c)
  <2>1. call[c] \in ActiveCalls /\ call[c].seen
    BY <1>0, <1>1 DEF PositionsReply, RoomInv, Knows
  <2>2. Guard(c, call[c])
    BY <1>1 DEF PositionsReply
  <2>. QED  BY <2>1, <2>2, GuardRoom
<1>2. ASSUME Flattened(c), call[c].pc \in {"flattenList", "flattenOrder"}
      PROVE  RoomInv'
  <2>. DEFINE sig == [call[c] EXCEPT !.flattened = TRUE]
  <2>1. call[c] \in ActiveCalls /\ call[c].seen
    BY <1>0, <1>2 DEF RoomInv, Knows
  <2>2. sig \in ActiveCalls /\ sig.seen /\ sig.flattened
    BY <2>1 DEF ActiveCalls
  <2>3. PastDirection(c, sig)
    BY <1>2 DEF Flattened
  <2>. HIDE DEF sig
  <2>. QED  BY <2>2, <2>3, PastDirectionRoom
<1>3. CASE FlattenListReply(c)
  <2>1. CASE pos = 0
    BY <1>2, <1>3, <2>1 DEF FlattenListReply
  <2>2. CASE pos # 0
    <3>. DEFINE sig == [call[c] EXCEPT !.pc = "flattenOrder", !.liq = pos]
    <3>1. call[c] \in ActiveCalls /\ call[c].seen
      BY <1>0, <1>3 DEF FlattenListReply, RoomInv, Knows
    <3>2. Knows(sig)
      BY <3>1 DEF Knows, ActiveCalls, OsoStages
    <3>3. call' = [call EXCEPT ![c] = sig]
      BY <1>3, <2>2 DEF FlattenListReply
    <3>. HIDE DEF sig
    <3>. QED  BY <3>2, <3>3, RoomStep
  <2>. QED  BY <2>1, <2>2
<1>4. ASSUME NEW accepted \in BOOLEAN, FlattenOrder(c, accepted)
      PROVE  RoomInv'
  BY <1>2, <1>4 DEF FlattenOrder
<1>5. CASE ResolveReply(c)
  <2>1. call[c] \in ActiveCalls /\ HasRoom(call[c])
    BY <1>0, <1>5 DEF ResolveReply, RoomInv, Knows
  <2>. QED  BY <1>5, <2>1, SendRoom DEF ResolveReply
<1>6. CASE \/ PositionsFail(c) \/ FlattenListFail(c) \/ ResolveFail(c)
           \/ OsoPlaced(c) \/ OsoRejected(c) \/ OsoAbandoned(c)
  BY <1>6, ReturnRoom
  DEF PositionsFail, FlattenListFail, ResolveFail, OsoPlaced, OsoRejected,
      OsoAbandoned, Return
<1>. QED  BY <1>1, <1>3, <1>4, <1>5, <1>6 DEF Advance

LEMMA BrokerRoom ==
  ASSUME TypeOK, RoomInv, Broker
  PROVE  RoomInv'
<1>1. ASSUME NEW c \in Callers, NEW st \in {"osoAccepted", "osoRefused"},
             call[c].pc = "oso", call' = [call EXCEPT ![c].pc = st]
      PROVE  RoomInv'
  <2>1. call[c] \in ActiveCalls /\ HasRoom(call[c])
    BY <1>1 DEF TypeOK, Idle, RoomInv, Knows, OsoStages
  <2>2. Knows([call[c] EXCEPT !.pc = st])
    BY <2>1, StageKnows DEF Stages
  <2>3. call' = [call EXCEPT ![c] = [call[c] EXCEPT !.pc = st]]
    BY <1>1
  <2>. QED  BY <2>2, <2>3, RoomStep
<1>2. ASSUME NEW c \in Callers, BrokerAccepts(c) \/ BrokerRefuses(c)
      PROVE  RoomInv'
  BY <1>1, <1>2 DEF BrokerAccepts, BrokerRefuses
<1>3. CASE \/ \E d \in Directions, accepted \in BOOLEAN : WireArrives(d, accepted)
           \/ \E d \in Directions : Fill(d)
           \/ BracketExit
  BY <1>3, StutterRoom DEF WireArrives, Fill, BracketExit
<1>4. ASSUME NEW c \in Callers, BrokerReads(c) PROVE RoomInv'
  <2>. DEFINE x == [call[c] EXCEPT !.pc = "positionsRead", !.view = pos,
                                   !.seen = TRUE]
  <2>1. call[c] \in ActiveCalls
    BY <1>4 DEF BrokerReads, TypeOK, Idle
  <2>2. x.pc = "positionsRead" /\ x.seen
    BY <2>1 DEF ActiveCalls
  <2>3. call' = [call EXCEPT ![c] = x]
    BY <1>4 DEF BrokerReads
  <2>. HIDE DEF x
  <2>4. Knows(x)
    BY <2>2 DEF Knows, OsoStages
  <2>. QED  BY <2>3, <2>4, RoomStep
<1>. QED  BY <1>2, <1>3, <1>4 DEF Broker

LEMMA RoomInductive == TypeOK /\ RoomInv /\ [Next]_vars => RoomInv'
<1>. SUFFICES ASSUME TypeOK, RoomInv, [Next]_vars PROVE RoomInv'
  OBVIOUS
<1>1. CASE Background
  BY <1>1, StutterRoom
  DEF Background, WsDeliver, CacheAges, DedupExpires, CooldownExpires,
      SyncRequest, SyncReply, SyncFail
<1>2. CASE Environment
  BY <1>2, StutterRoom
  DEF Environment, Arm, Disarm, DayReset, DailyPnl, Connection, WsDrop
<1>3. CASE UNCHANGED vars
  BY <1>3, StutterRoom DEF vars
<1>. QED
  BY <1>1, <1>2, <1>3, StartRoom, AdvanceRoom, BrokerRoom DEF Next

(* An order goes out only on a broker position that was seen, below        *)
(* max_positions and not opposite to the order unless flattened first.     *)
THEOREM SeenRoom == Spec => []SentOnSeenRoom
<1>1. Init => RoomInv
  BY IdleKnows DEF Init, RoomInv
<1>2. RoomInv => SentOnSeenRoom
  BY DEF RoomInv, Knows, HasRoom, SentOnSeenRoom, InFlight
<1>. QED
  BY <1>1, <1>2, RoomInductive, TypeCorrect, PTL DEF Spec

-------------------------------------------------------------------------------
(* The counters: PendingIsInFlight, DailyLimit and StraysBounded.          *)

Bit(b) == IF b THEN 1 ELSE 0

(* How the size of a set changes when one element's membership does.       *)
LEMMA MemberStep ==
  ASSUME NEW S, NEW T, NEW e, IsFiniteSet(S),
         \A x : x # e => (x \in T <=> x \in S)
  PROVE  Cardinality(T) = Cardinality(S) + Bit(e \in T) - Bit(e \in S)
<1>0. Cardinality(S) \in Nat
  BY FS_CardinalityType
<1>1. CASE e \in T /\ e \notin S
  <2>. T = S \cup {e}
    BY <1>1
  <2>. QED  BY <1>0, <1>1, FS_AddElement DEF Bit
<1>2. CASE e \notin T /\ e \in S
  <2>. T = S \ {e}
    BY <1>2
  <2>. QED  BY <1>0, <1>2, FS_RemoveElement DEF Bit
<1>3. CASE (e \in T) <=> (e \in S)
  <2>. T = S
    BY <1>3
  <2>. QED  BY <1>0, <1>3 DEF Bit
<1>. QED  BY <1>1, <1>2, <1>3

(* A set of callers is finite and no larger than Callers.                  *)
LEMMA CallersBound ==
  ASSUME NEW S \in SUBSET Callers
  PROVE  /\ IsFiniteSet(S)
         /\ Cardinality(S) \in Nat
         /\ Cardinality(Callers) \in Nat
         /\ Cardinality(S) <= Cardinality(Callers)
BY CallersAssumption, FS_Subset, FS_CardinalityType

(* The three sets of callers, before and after a call changes stage.       *)
LEMMA CallSets ==
  ASSUME TypeOK, NEW c \in Callers, NEW x, call' = [call EXCEPT ![c] = x]
  PROVE  /\ Cardinality(InFlight') = Cardinality(InFlight)
              + Bit(x.pc \in OsoStages) - Bit(call[c].pc \in OsoStages)
         /\ Cardinality(Active') = Cardinality(Active)
              + Bit(x.pc # "idle") - Bit(call[c].pc # "idle")
         /\ Cardinality(Waiting') = Cardinality(Waiting)
              + Bit(x.pc \in WaitingStages) - Bit(call[c].pc \in WaitingStages)
<1>1. call'[c] = x /\ \A d \in Callers : d # c => call'[d] = call[d]
  BY DEF TypeOK
<1>2. /\ InFlight \in SUBSET Callers
      /\ Active \in SUBSET Callers
      /\ Waiting \in SUBSET Callers
  BY DEF InFlight, Active, Waiting
<1>3. /\ \A y : y # c => (y \in InFlight' <=> y \in InFlight)
      /\ c \in InFlight' <=> x.pc \in OsoStages
      /\ c \in InFlight <=> call[c].pc \in OsoStages
  BY <1>1 DEF InFlight, OsoStages
<1>4. /\ \A y : y # c => (y \in Active' <=> y \in Active)
      /\ c \in Active' <=> x.pc # "idle"
      /\ c \in Active <=> call[c].pc # "idle"
  BY <1>1 DEF Active
<1>5. /\ \A y : y # c => (y \in Waiting' <=> y \in Waiting)
      /\ c \in Waiting' <=> x.pc \in WaitingStages
      /\ c \in Waiting <=> call[c].pc \in WaitingStages
  BY <1>1 DEF Waiting, WaitingStages
<1>6. Cardinality(InFlight') = Cardinality(InFlight)
        + Bit(c \in InFlight') - Bit(c \in InFlight)
  BY <1>2, <1>3, CallersBound, MemberStep
<1>7. Cardinality(Active') = Cardinality(Active)
        + Bit(c \in Active') - Bit(c \in Active)
  BY <1>2, <1>4, CallersBound, MemberStep
<1>8. Cardinality(Waiting') = Cardinality(Waiting)
        + Bit(c \in Waiting') - Bit(c \in Waiting)
  BY <1>2, <1>5, CallersBound, MemberStep
<1>. QED  BY <1>3, <1>4, <1>5, <1>6, <1>7, <1>8 DEF Bit

(* The sizes are natural numbers, at most the number of callers.           *)
LEMMA Sizes ==
  /\ Cardinality(Callers) \in Nat
  /\ Cardinality(InFlight) \in Nat
  /\ Cardinality(Active) \in Nat /\ Cardinality(Active) <= Cardinality(Callers)
  /\ Cardinality(Waiting) \in Nat /\ Cardinality(Waiting) <= Cardinality(Callers)
<1>. /\ InFlight \in SUBSET Callers
     /\ Active \in SUBSET Callers
     /\ Waiting \in SUBSET Callers
  BY DEF InFlight, Active, Waiting
<1>. QED  BY CallersBound

(* CountInv only speaks of naturals, so each step is a sum of at most three*)
(* bits; a call that was admitted is one that waits or that now starts.    *)
Admitted(c) ==
  \/ call[c].pc = "idle" /\ armed /\ ordersToday < MaxOrdersPerDay
  \/ call[c].pc \in WaitingStages

LEMMA PrimedSizes ==
  /\ Cardinality(InFlight') \in Nat
  /\ Cardinality(Active') \in Nat /\ Cardinality(Active') <= Cardinality(Callers)
  /\ Cardinality(Waiting') \in Nat /\ Cardinality(Waiting') <= Cardinality(Callers)
<1>. /\ InFlight' \in SUBSET Callers
     /\ Active' \in SUBSET Callers
     /\ Waiting' \in SUBSET Callers
  BY DEF InFlight, Active, Waiting
<1>. QED  BY CallersBound

LEMMA StageClasses ==
  ASSUME NEW st \in Stages
  PROVE  /\ st \in OsoStages => st \notin WaitingStages /\ st # "idle"
         /\ st \in WaitingStages => st \notin OsoStages /\ st # "idle"
         /\ st = "idle" => st \notin OsoStages /\ st \notin WaitingStages
BY DEF Stages, OsoStages, WaitingStages

LEMMA CountReturn ==
  ASSUME TypeOK, CountInv, NEW c \in Callers, call[c].pc \notin OsoStages,
         call' = [call EXCEPT ![c] = Idle], armed' => armed,
         UNCHANGED <<pending, ordersToday, strays>>
  PROVE  CountInv'
<1>1. /\ Cardinality(InFlight') = Cardinality(InFlight)
      /\ Cardinality(Active') <= Cardinality(Active)
      /\ Cardinality(Waiting') <= Cardinality(Waiting)
  <2>. Idle.pc \notin OsoStages /\ Idle.pc \notin WaitingStages /\ Idle.pc = "idle"
    BY DEF Idle, OsoStages, WaitingStages
  <2>5. /\ Cardinality(InFlight') = Cardinality(InFlight)
             + Bit(Idle.pc \in OsoStages) - Bit(call[c].pc \in OsoStages)
        /\ Cardinality(Active') = Cardinality(Active)
             + Bit(Idle.pc # "idle") - Bit(call[c].pc # "idle")
        /\ Cardinality(Waiting') = Cardinality(Waiting)
             + Bit(Idle.pc \in WaitingStages) - Bit(call[c].pc \in WaitingStages)
    BY CallSets, Zenon
  <2>. QED  BY <2>5, Sizes, PrimedSizes DEF Bit
<1>. QED
  BY <1>1, Sizes, PrimedSizes, LimitsAssumption
  DEF CountInv, PendingIsInFlight, TypeOK

LEMMA CountRelease ==
  ASSUME TypeOK, CountInv, NEW c \in Callers, call[c].pc \in OsoStages,
         call' = [call EXCEPT ![c] = Idle], ReleasePending,
         ordersToday' \in {ordersToday, ordersToday + 1},
         UNCHANGED <<armed, strays>>
  PROVE  CountInv'
<1>1. /\ Cardinality(InFlight') = Cardinality(InFlight) - 1
      /\ Cardinality(Active') = Cardinality(Active) - 1
      /\ Cardinality(Waiting') = Cardinality(Waiting)
  <2>1. Idle.pc \notin OsoStages /\ Idle.pc \notin WaitingStages /\ Idle.pc = "idle"
    BY DEF Idle, OsoStages, WaitingStages
  <2>2. call[c].pc \notin WaitingStages /\ call[c].pc # "idle"
    BY DEF OsoStages, WaitingStages
  <2>5. /\ Cardinality(InFlight') = Cardinality(InFlight)
             + Bit(Idle.pc \in OsoStages) - Bit(call[c].pc \in OsoStages)
        /\ Cardinality(Active') = Cardinality(Active)
             + Bit(Idle.pc # "idle") - Bit(call[c].pc # "idle")
        /\ Cardinality(Waiting') = Cardinality(Waiting)
             + Bit(Idle.pc \in WaitingStages) - Bit(call[c].pc \in WaitingStages)
    BY CallSets, Zenon
  <2>. QED  BY <2>1, <2>2, <2>5, Sizes, PrimedSizes DEF Bit
<1>2. pending' = Cardinality(InFlight')
  BY <1>1, Sizes, PrimedSizes DEF ReleasePending, CountInv, PendingIsInFlight
<1>3. ordersToday' + Cardinality(Active')
        <= MaxOrdersPerDay - 1 + Cardinality(Callers)
  <2>1. ordersToday \in Nat
    BY DEF TypeOK
  <2>2. ordersToday + Cardinality(Active)
          <= MaxOrdersPerDay - 1 + Cardinality(Callers)
    BY DEF CountInv
  <2>3. ordersToday' <= ordersToday + 1 /\ ordersToday' \in Nat
    BY <2>1
  <2>. QED  BY <1>1, <2>1, <2>2, <2>3, Sizes, PrimedSizes, LimitsAssumption
<1>4. armed' => strays' = 0
  BY DEF CountInv
<1>5. strays' + Cardinality(Waiting') <= Cardinality(Callers)
  BY <1>1 DEF CountInv
<1>. QED  BY <1>2, <1>3, <1>4, <1>5 DEF CountInv, PendingIsInFlight

LEMMA CountStage ==
  ASSUME TypeOK, CountInv, NEW c \in Callers, NEW x,
         call[c].pc \in OsoStages, x.pc \in OsoStages,
         call' = [call EXCEPT ![c] = x],
         UNCHANGED <<armed, pending, ordersToday, strays>>
  PROVE  CountInv'
<1>1. /\ Cardinality(InFlight') = Cardinality(InFlight)
      /\ Cardinality(Active') = Cardinality(Active)
      /\ Cardinality(Waiting') = Cardinality(Waiting)
  <2>. /\ call[c].pc \notin WaitingStages /\ call[c].pc # "idle"
       /\ x.pc \notin WaitingStages /\ x.pc # "idle"
    BY DEF OsoStages, WaitingStages
  <2>5. /\ Cardinality(InFlight') = Cardinality(InFlight)
             + Bit(x.pc \in OsoStages) - Bit(call[c].pc \in OsoStages)
        /\ Cardinality(Active') = Cardinality(Active)
             + Bit(x.pc # "idle") - Bit(call[c].pc # "idle")
        /\ Cardinality(Waiting') = Cardinality(Waiting)
             + Bit(x.pc \in WaitingStages) - Bit(call[c].pc \in WaitingStages)
    BY CallSets, Zenon
  <2>. QED  BY <2>5, Sizes, PrimedSizes DEF Bit
<1>. QED  BY <1>1 DEF CountInv, PendingIsInFlight

LEMMA CountWait ==
  ASSUME TypeOK, CountInv, NEW c \in Callers, NEW x, Admitted(c),
         x.pc \in WaitingStages, call' = [call EXCEPT ![c] = x],
         armed' => armed, UNCHANGED <<pending, ordersToday, strays>>
  PROVE  CountInv'
<1>0. x.pc \notin OsoStages /\ x.pc # "idle"
  BY DEF OsoStages, WaitingStages
<1>1. call[c].pc \notin OsoStages
  BY DEF Admitted, OsoStages, WaitingStages
<1>5. /\ Cardinality(InFlight') = Cardinality(InFlight)
             + Bit(x.pc \in OsoStages) - Bit(call[c].pc \in OsoStages)
        /\ Cardinality(Active') = Cardinality(Active)
             + Bit(x.pc # "idle") - Bit(call[c].pc # "idle")
        /\ Cardinality(Waiting') = Cardinality(Waiting)
             + Bit(x.pc \in WaitingStages) - Bit(call[c].pc \in WaitingStages)
  BY CallSets, Zenon
<1>2. Cardinality(InFlight') = Cardinality(InFlight)
  BY <1>0, <1>1, <1>5, Sizes, PrimedSizes DEF Bit
<1>3. CASE call[c].pc \in WaitingStages
  <2>1. call[c].pc # "idle"
    BY <1>3 DEF WaitingStages
  <2>2. /\ Cardinality(Active') = Cardinality(Active)
        /\ Cardinality(Waiting') = Cardinality(Waiting)
    BY <1>0, <1>3, <1>5, <2>1, Sizes, PrimedSizes DEF Bit
  <2>. QED  BY <1>2, <2>2 DEF CountInv, PendingIsInFlight
<1>4. CASE armed /\ ordersToday < MaxOrdersPerDay
  BY <1>2, <1>4, Sizes, PrimedSizes, LimitsAssumption
  DEF CountInv, PendingIsInFlight, TypeOK
<1>. QED  BY <1>3, <1>4 DEF Admitted

LEMMA CountSend ==
  ASSUME TypeOK, CountInv, NEW c \in Callers, NEW sig \in ActiveCalls,
         Admitted(c), Send(c, sig), UNCHANGED <<armed, ordersToday>>
  PROVE  CountInv'
<1>0. call[c].pc \notin OsoStages
  BY DEF Admitted, OsoStages, WaitingStages
<1>1. CASE sig.tight
  BY <1>0, <1>1, CountReturn DEF Send, Return
<1>2. CASE ~sig.tight
  <2>. DEFINE x == [sig EXCEPT !.pc = "oso"]
  <2>1. x.pc = "oso" /\ call' = [call EXCEPT ![c] = x]
    BY <1>2 DEF Send, ActiveCalls
  <2>. HIDE DEF x
  <2>2. x.pc \in OsoStages /\ x.pc \notin WaitingStages /\ x.pc # "idle"
    BY <2>1 DEF OsoStages, WaitingStages
  <2>7. /\ Cardinality(InFlight') = Cardinality(InFlight)
             + Bit(x.pc \in OsoStages) - Bit(call[c].pc \in OsoStages)
        /\ Cardinality(Active') = Cardinality(Active)
             + Bit(x.pc # "idle") - Bit(call[c].pc # "idle")
        /\ Cardinality(Waiting') = Cardinality(Waiting)
             + Bit(x.pc \in WaitingStages) - Bit(call[c].pc \in WaitingStages)
    BY <2>1, CallSets, Zenon
  <2>3. Cardinality(InFlight') = Cardinality(InFlight) + 1
    BY <1>0, <2>2, <2>7, Sizes, PrimedSizes DEF Bit
  <2>4. /\ pending' = pending + 1
        /\ strays' = IF armed THEN strays ELSE strays + 1
    BY <1>2 DEF Send
  <2>5. CASE call[c].pc \in WaitingStages
    <3>1. call[c].pc # "idle"
      BY <2>5 DEF WaitingStages
    <3>2. /\ Cardinality(Active') = Cardinality(Active)
          /\ Cardinality(Waiting') = Cardinality(Waiting) - 1
      BY <2>2, <2>5, <2>7, <3>1, Sizes, PrimedSizes DEF Bit
    <3>. QED
      BY <2>3, <2>4, <3>2, Sizes, PrimedSizes
      DEF CountInv, PendingIsInFlight, TypeOK
  <2>6. CASE armed /\ ordersToday < MaxOrdersPerDay
    BY <2>3, <2>4, <2>6, Sizes, PrimedSizes, LimitsAssumption
    DEF CountInv, PendingIsInFlight, TypeOK
  <2>. QED  BY <2>5, <2>6 DEF Admitted
<1>. QED  BY <1>1, <1>2

LEMMA CountPastDirection ==
  ASSUME TypeOK, CountInv, NEW c \in Callers, NEW sig \in ActiveCalls,
         Admitted(c), PastDirection(c, sig), UNCHANGED <<armed, ordersToday>>
  PROVE  CountInv'
<1>0. call[c].pc \notin OsoStages
  BY DEF Admitted, OsoStages, WaitingStages
<1>1. CASE Send(c, sig)
  BY <1>1, CountSend
<1>2. CASE Return(c) /\ UNCHANGED <<pending, strays>>
  BY <1>0, <1>2, CountReturn DEF Return
<1>3. CASE /\ call' = [call EXCEPT ![c] = [sig EXCEPT !.pc = "resolve"]]
           /\ UNCHANGED <<pending, strays>>
  <2>. [sig EXCEPT !.pc = "resolve"].pc \in WaitingStages
    BY DEF WaitingStages, ActiveCalls
  <2>. QED  BY <1>3, CountWait
<1>. QED  BY <1>1, <1>2, <1>3 DEF PastDirection

LEMMA CountGuard ==
  ASSUME TypeOK, CountInv, NEW c \in Callers, NEW sig \in ActiveCalls,
         Admitted(c), Guard(c, sig), UNCHANGED ordersToday
  PROVE  CountInv'
<1>0. call[c].pc \notin OsoStages
  BY DEF Admitted, OsoStages, WaitingStages
<1>1. CASE Return(c) /\ UNCHANGED <<armed, pending, strays>>
  BY <1>0, <1>1, CountReturn DEF Return
<1>2. CASE /\ call' = [call EXCEPT ![c] = [sig EXCEPT !.pc = "flattenList"]]
           /\ armed' = FALSE
           /\ UNCHANGED <<pending, strays>>
  <2>. [sig EXCEPT !.pc = "flattenList"].pc \in WaitingStages
    BY DEF WaitingStages, ActiveCalls
  <2>. QED  BY <1>2, CountWait
<1>3. CASE /\ call' = [call EXCEPT ![c] = Idle]
           /\ armed' = FALSE
           /\ UNCHANGED <<pending, strays>>
  BY <1>0, <1>3, CountReturn
<1>4. CASE UNCHANGED armed /\ PastDirection(c, sig)
  BY <1>4, CountPastDirection
<1>. QED  BY <1>1, <1>2, <1>3, <1>4 DEF Guard

(* The steps that touch neither a call nor a counter.                      *)
LEMMA CountStutter ==
  ASSUME CountInv, UNCHANGED <<call, pending, ordersToday, strays>>,
         armed' => armed
  PROVE  CountInv'
BY DEF CountInv, PendingIsInFlight, InFlight, Active, Waiting

LEMMA CountStart ==
  ASSUME TypeOK, CountInv, NEW c \in Callers, Start(c)
  PROVE  CountInv'
<1>. PICK sid \in SignalIds, type \in Types :
       \/ StartDuplicate(c, sid)
       \/ StartRefused(c, sid, type)
       \/ \E dir \in Directions, tight \in BOOLEAN :
            \/ StartWithRest(c, sid, type, dir, tight)
            \/ StartWithCache(c, sid, type, dir, tight)
  BY DEF Start
<1>0. "idle" \notin OsoStages
  BY DEF OsoStages
<1>1. CASE StartDuplicate(c, sid)
  BY <1>0, <1>1, CountReturn DEF StartDuplicate, MayStart, Return, adapterVars
<1>2. CASE StartRefused(c, sid, type)
  BY <1>0, <1>2, CountReturn DEF StartRefused, MayStart, Return
<1>3. ASSUME NEW dir \in Directions, NEW tight \in BOOLEAN,
             StartWithRest(c, sid, type, dir, tight)
      PROVE  CountInv'
  <2>1. Admitted(c)
    BY <1>3 DEF StartWithRest, MayStart, Preconditions, Admitted
  <2>2. NewCall(sid, type, dir, tight).pc \in WaitingStages
    BY DEF NewCall, WaitingStages
  <2>. QED  BY <1>3, <2>1, <2>2, CountWait DEF StartWithRest
<1>4. ASSUME NEW dir \in Directions, NEW tight \in BOOLEAN,
             StartWithCache(c, sid, type, dir, tight)
      PROVE  CountInv'
  <2>. DEFINE seen == (Cached # 0 \/ cacheAge = "fresh")
              sig == [NewCall(sid, type, dir, tight) EXCEPT
                        !.view = Cached, !.seen = seen]
  <2>1. Guard(c, sig) /\ UNCHANGED ordersToday
    BY <1>4, Zenon DEF StartWithCache
  <2>2. MayStart(c) /\ Preconditions(type)
    BY <1>4, Zenon DEF StartWithCache
  <2>3. seen \in BOOLEAN
    OBVIOUS
  <2>. HIDE DEF seen
  <2>4. Cached \in Int
    BY DEF Cached, TypeOK
  <2>5. NewCall(sid, type, dir, tight) \in ActiveCalls
    BY DEF NewCall, ActiveCalls, Stages, Settled
  <2>6. sig \in ActiveCalls
    BY <2>3, <2>4, <2>5 DEF ActiveCalls
  <2>. HIDE DEF sig
  <2>7. Admitted(c)
    BY <2>2 DEF MayStart, Preconditions, Admitted
  <2>. QED  BY <2>1, <2>6, <2>7, CountGuard
<1>. QED  BY <1>1, <1>2, <1>3, <1>4

LEMMA CountAdvance ==
  ASSUME TypeOK, CountInv, NEW c \in Callers, Advance(c)
  PROVE  CountInv'
<1>0. call[c].pc # "idle" => call[c] \in ActiveCalls
  BY DEF TypeOK, Idle
<1>1. CASE PositionsReply(c)
  <2>1. call[c] \in ActiveCalls
    BY <1>0, <1>1 DEF PositionsReply
  <2>2. Guard(c, call[c]) /\ UNCHANGED ordersToday
    BY <1>1 DEF PositionsReply
  <2>3. Admitted(c)
    BY <1>1 DEF PositionsReply, Admitted, WaitingStages
  <2>. QED  BY <2>1, <2>2, <2>3, CountGuard
<1>2. ASSUME Flattened(c), call[c].pc \in {"flattenList", "flattenOrder"},
             UNCHANGED <<armed, ordersToday>>
      PROVE  CountInv'
  <2>. DEFINE sig == [call[c] EXCEPT !.flattened = TRUE]
  <2>1. sig \in ActiveCalls
    BY <1>0, <1>2 DEF ActiveCalls
  <2>2. PastDirection(c, sig)
    BY <1>2 DEF Flattened
  <2>. HIDE DEF sig
  <2>3. Admitted(c)
    BY <1>2 DEF Admitted, WaitingStages
  <2>. QED  BY <1>2, <2>1, <2>2, <2>3, CountPastDirection
<1>3. CASE FlattenListReply(c)
  <2>1. CASE pos = 0
    BY <1>2, <1>3, <2>1 DEF FlattenListReply
  <2>2. CASE pos # 0
    <3>. DEFINE sig == [call[c] EXCEPT !.pc = "flattenOrder", !.liq = pos]
    <3>1. call[c] \in ActiveCalls /\ Admitted(c)
      BY <1>0, <1>3 DEF FlattenListReply, Admitted, WaitingStages
    <3>2. sig.pc \in WaitingStages
      BY <3>1 DEF ActiveCalls, WaitingStages
    <3>3. call' = [call EXCEPT ![c] = sig]
      BY <1>3, <2>2 DEF FlattenListReply
    <3>. HIDE DEF sig
    <3>4. UNCHANGED <<armed, pending, ordersToday, strays>>
      BY <1>3, <2>2 DEF FlattenListReply
    <3>. QED  BY <3>1, <3>2, <3>3, <3>4, CountWait
  <2>. QED  BY <2>1, <2>2
<1>4. ASSUME NEW accepted \in BOOLEAN, FlattenOrder(c, accepted)
      PROVE  CountInv'
  BY <1>2, <1>4 DEF FlattenOrder
<1>5. CASE ResolveReply(c)
  <2>1. call[c] \in ActiveCalls /\ Admitted(c)
    BY <1>0, <1>5 DEF ResolveReply, Admitted, WaitingStages
  <2>. QED  BY <1>5, <2>1, CountSend DEF ResolveReply
<1>6. CASE PositionsFail(c) \/ FlattenListFail(c) \/ ResolveFail(c)
  <2>1. call[c].pc \notin OsoStages
    BY <1>6 DEF PositionsFail, FlattenListFail, ResolveFail, OsoStages
  <2>2. /\ call' = [call EXCEPT ![c] = Idle]
        /\ UNCHANGED <<armed, pending, ordersToday, strays>>
    BY <1>6
    DEF PositionsFail, FlattenListFail, ResolveFail, Return, adapterVars
  <2>. QED  BY <2>1, <2>2, CountReturn
<1>7. CASE OsoPlaced(c) \/ OsoRejected(c) \/ OsoAbandoned(c)
  <2>1. call[c].pc \in OsoStages
    BY <1>7 DEF OsoPlaced, OsoRejected, OsoAbandoned, OsoStages
  <2>2. /\ call' = [call EXCEPT ![c] = Idle]
        /\ ReleasePending
        /\ ordersToday' \in {ordersToday, ordersToday + 1}
        /\ UNCHANGED <<armed, strays>>
    BY <1>7 DEF OsoPlaced, OsoRejected, OsoAbandoned, Return
  <2>. QED  BY <2>1, <2>2, CountRelease
<1>. QED  BY <1>1, <1>3, <1>4, <1>5, <1>6, <1>7 DEF Advance

LEMMA CountBroker ==
  ASSUME TypeOK, CountInv, Broker
  PROVE  CountInv'
<1>1. ASSUME NEW c \in Callers, NEW st \in {"osoAccepted", "osoRefused"},
             call[c].pc = "oso", call' = [call EXCEPT ![c].pc = st],
             UNCHANGED <<armed, pending, ordersToday, strays>>
      PROVE  CountInv'
  <2>. DEFINE x == [call[c] EXCEPT !.pc = st]
  <2>1. call[c] \in ActiveCalls
    BY <1>1 DEF TypeOK, Idle
  <2>2. x.pc \in OsoStages /\ call[c].pc \in OsoStages
    BY <1>1, <2>1 DEF ActiveCalls, OsoStages
  <2>3. call' = [call EXCEPT ![c] = x]
    BY <1>1
  <2>. HIDE DEF x
  <2>. QED  BY <1>1, <2>2, <2>3, CountStage
<1>2. ASSUME NEW c \in Callers, BrokerAccepts(c) \/ BrokerRefuses(c)
      PROVE  CountInv'
  BY <1>1, <1>2 DEF BrokerAccepts, BrokerRefuses, adapterVars
<1>3. CASE \/ \E d \in Directions, accepted \in BOOLEAN : WireArrives(d, accepted)
           \/ \E d \in Directions : Fill(d)
           \/ BracketExit
  BY <1>3, CountStutter DEF WireArrives, Fill, BracketExit, adapterVars
<1>4. ASSUME NEW c \in Callers, BrokerReads(c) PROVE CountInv'
  <2>. DEFINE x == [call[c] EXCEPT !.pc = "positionsRead", !.view = pos,
                                   !.seen = TRUE]
  <2>1. call[c] \in ActiveCalls /\ Admitted(c)
    BY <1>4 DEF BrokerReads, TypeOK, Idle, Admitted, WaitingStages
  <2>2. x.pc \in WaitingStages
    BY <2>1 DEF ActiveCalls, WaitingStages
  <2>3. call' = [call EXCEPT ![c] = x]
    BY <1>4 DEF BrokerReads
  <2>. HIDE DEF x
  <2>4. UNCHANGED <<armed, pending, ordersToday, strays>>
    BY <1>4 DEF BrokerReads, adapterVars
  <2>. QED  BY <2>1, <2>2, <2>3, <2>4, CountWait
<1>. QED  BY <1>2, <1>3, <1>4 DEF Broker

LEMMA CountEnvironment ==
  ASSUME TypeOK, CountInv, Environment
  PROVE  CountInv'
<1>1. CASE Arm
  <2>. InFlight' = InFlight /\ Active' = Active /\ Waiting' = Waiting
    BY <1>1 DEF Arm, InFlight, Active, Waiting
  <2>. QED
    BY <1>1, Sizes DEF Arm, CountInv, PendingIsInFlight
<1>2. CASE DayReset
  <2>. InFlight' = InFlight /\ Active' = Active /\ Waiting' = Waiting
    BY <1>2 DEF DayReset, InFlight, Active, Waiting
  <2>. QED
    BY <1>2, Sizes, LimitsAssumption DEF DayReset, CountInv, PendingIsInFlight
<1>3. CASE Disarm \/ DailyPnl \/ Connection \/ WsDrop
  BY <1>3, CountStutter DEF Disarm, DailyPnl, Connection, WsDrop, adapterVars
<1>. QED  BY <1>1, <1>2, <1>3 DEF Environment

LEMMA CountInductive == TypeOK /\ CountInv /\ [Next]_vars => CountInv'
<1>. SUFFICES ASSUME TypeOK, CountInv, [Next]_vars PROVE CountInv'
  OBVIOUS
<1>1. CASE Background
  BY <1>1, CountStutter
  DEF Background, WsDeliver, CacheAges, DedupExpires, CooldownExpires,
      SyncRequest, SyncReply, SyncFail
<1>2. CASE UNCHANGED vars
  BY <1>2, CountStutter DEF vars
<1>. QED
  BY <1>1, <1>2, CountStart, CountAdvance, CountBroker, CountEnvironment
  DEF Next

LEMMA CountInit == Init => CountInv
<1>. SUFFICES ASSUME Init PROVE CountInv
  OBVIOUS
<1>1. InFlight = {} /\ Active = {} /\ Waiting = {}
  BY DEF Init, Idle, InFlight, Active, Waiting, OsoStages, WaitingStages
<1>2. Cardinality({}) = 0
  BY FS_EmptySet
<1>. QED
  BY <1>1, <1>2, Sizes, LimitsAssumption
  DEF Init, CountInv, PendingIsInFlight

LEMMA CountAlways == Spec => []CountInv
BY CountInit, CountInductive, TypeCorrect, PTL DEF Spec

(* The in-flight counter is exactly the number of calls inside place_oso.  *)
THEOREM PendingExact == Spec => []PendingIsInFlight
<1>. CountInv => PendingIsInFlight
  BY DEF CountInv
<1>. QED  BY CountAlways, PTL

(* However many callers overlap, the daily counter exceeds the limit by    *)
(* less than their number; a single caller never exceeds it.               *)
THEOREM DailyLimitHolds == Spec => []DailyLimit
<1>. TypeOK /\ CountInv => DailyLimit
  BY Sizes, LimitsAssumption DEF CountInv, DailyLimit, TypeOK
<1>. QED  BY CountAlways, TypeCorrect, PTL

(* After a disarm, each caller sends at most one more order.               *)
THEOREM StraysAreBounded == Spec => []StraysBounded
<1>. TypeOK /\ CountInv => StraysBounded
  BY Sizes DEF CountInv, StraysBounded, TypeOK
<1>. QED  BY CountAlways, TypeCorrect, PTL

-------------------------------------------------------------------------------
(* SendsBounded, and NoDoubleSend for one caller.                          *)

(* Call x is past the dedup guard with signal s and has not sent it.       *)
Carries(x, s) == x.pc \in WaitingStages /\ x.sid = s
Carrying(s) == {c \in Callers : Carries(call[c], s)}

(* The inductive invariant: the guard remembers each signal that was sent, *)
(* and an order that was sent has taken the place of a call that carried   *)
(* its signal.                                                             *)
SendsInv ==
  \A s \in SignalIds :
    /\ s \notin executed => sends[s] = 0
    /\ sends[s] + Cardinality(Carrying(s)) <= Cardinality(Callers)

(* Caller c is past the guard with s, or passes it now.                    *)
MayCarry(c, s) ==
  \/ Carries(call[c], s)
  \/ call[c].pc = "idle" /\ s \notin executed

(* A set of callers without one of them is smaller than Callers.           *)
LEMMA OneOut ==
  ASSUME NEW S \in SUBSET Callers, NEW c \in Callers, c \notin S
  PROVE  Cardinality(S) < Cardinality(Callers)
<1>1. S \cup {c} \in SUBSET Callers
  OBVIOUS
<1>2. Cardinality(S \cup {c}) = Cardinality(S) + 1
  BY CallersBound, FS_AddElement
<1>. QED  BY <1>1, <1>2, CallersBound

LEMMA CarryStep ==
  ASSUME TypeOK, NEW c \in Callers, NEW x, call' = [call EXCEPT ![c] = x], NEW s
  PROVE  /\ Cardinality(Carrying(s)') = Cardinality(Carrying(s))
              + Bit(Carries(x, s)) - Bit(Carries(call[c], s))
         /\ Cardinality(Carrying(s)) \in Nat /\ Cardinality(Carrying(s)') \in Nat
         /\ Cardinality(Carrying(s)') <= Cardinality(Callers)
         /\ Cardinality(Callers) \in Nat
<1>1. call'[c] = x /\ \A d \in Callers : d # c => call'[d] = call[d]
  BY DEF TypeOK
<1>2. Carrying(s) \in SUBSET Callers /\ Carrying(s)' \in SUBSET Callers
  BY DEF Carrying
<1>3. /\ \A y : y # c => (y \in Carrying(s)' <=> y \in Carrying(s))
      /\ c \in Carrying(s)' <=> Carries(x, s)
      /\ c \in Carrying(s) <=> Carries(call[c], s)
  BY <1>1 DEF Carrying, Carries
<1>4. Cardinality(Carrying(s)') = Cardinality(Carrying(s))
        + Bit(c \in Carrying(s)') - Bit(c \in Carrying(s))
  BY <1>2, <1>3, CallersBound, MemberStep
<1>. QED  BY <1>2, <1>3, <1>4, CallersBound DEF Bit

(* A step that sends nothing.                                              *)
LEMMA SendsStep ==
  ASSUME TypeOK, SendsInv, NEW c \in Callers, NEW x,
         call' = [call EXCEPT ![c] = x], UNCHANGED <<executed, sends>>,
         x.pc \in WaitingStages => MayCarry(c, x.sid)
  PROVE  SendsInv'
<1>. SUFFICES ASSUME NEW s \in SignalIds
              PROVE  /\ s \notin executed' => sends'[s] = 0
                     /\ sends'[s] + Cardinality(Carrying(s)') <= Cardinality(Callers)
  BY DEF SendsInv
<1>1. /\ s \notin executed => sends[s] = 0
      /\ sends[s] + Cardinality(Carrying(s)) <= Cardinality(Callers)
      /\ sends[s] \in Nat
  BY DEF SendsInv, TypeOK
<1>0. /\ Cardinality(Carrying(s)') = Cardinality(Carrying(s))
           + Bit(Carries(x, s)) - Bit(Carries(call[c], s))
      /\ Cardinality(Carrying(s)) \in Nat /\ Cardinality(Carrying(s)') \in Nat
      /\ Cardinality(Carrying(s)') <= Cardinality(Callers)
      /\ Cardinality(Callers) \in Nat
  BY CarryStep, Zenon
<1>2. CASE Carries(x, s) => Carries(call[c], s)
  <2>. Cardinality(Carrying(s)') <= Cardinality(Carrying(s))
    BY <1>0, <1>2 DEF Bit
  <2>. QED  BY <1>0, <1>1
<1>3. CASE Carries(x, s) /\ ~Carries(call[c], s)
  <2>. s \notin executed
    BY <1>3 DEF MayCarry, Carries
  <2>. QED  BY <1>0, <1>1
<1>. QED  BY <1>2, <1>3

LEMMA SendsReturn ==
  ASSUME TypeOK, SendsInv, NEW c \in Callers,
         call' = [call EXCEPT ![c] = Idle], UNCHANGED <<executed, sends>>
  PROVE  SendsInv'
<1>. Idle.pc \notin WaitingStages
  BY DEF Idle, WaitingStages
<1>. QED  BY SendsStep

LEMMA SendsStutter ==
  ASSUME SendsInv, UNCHANGED <<call, executed, sends>>
  PROVE  SendsInv'
  BY DEF SendsInv, Carrying

LEMMA SendsSend ==
  ASSUME TypeOK, SendsInv, NEW c \in Callers, NEW sig \in ActiveCalls,
         Send(c, sig), MayCarry(c, sig.sid)
  PROVE  SendsInv'
<1>1. CASE sig.tight
  BY <1>1, SendsReturn DEF Send, Return
<1>2. CASE ~sig.tight
  <2>. DEFINE x == [sig EXCEPT !.pc = "oso"]
  <2>1. sig.sid \in SignalIds /\ sends \in [SignalIds -> Nat] /\ x.pc = "oso"
    BY DEF ActiveCalls, TypeOK
  <2>2. /\ executed' = executed \cup {sig.sid}
        /\ sends' = [sends EXCEPT ![sig.sid] = sends[sig.sid] + 1]
        /\ call' = [call EXCEPT ![c] = x]
    BY <1>2 DEF Send
  <2>. HIDE DEF x
  <2>. SUFFICES ASSUME NEW s \in SignalIds
                PROVE  /\ s \notin executed' => sends'[s] = 0
                       /\ sends'[s] + Cardinality(Carrying(s)') <= Cardinality(Callers)
    BY DEF SendsInv
  <2>3. /\ s \notin executed => sends[s] = 0
        /\ sends[s] + Cardinality(Carrying(s)) <= Cardinality(Callers)
        /\ sends[s] \in Nat
    BY <2>1 DEF SendsInv
  <2>4. ~Carries(x, s)
    BY <2>1 DEF Carries, WaitingStages
  <2>0. /\ Cardinality(Carrying(s)') = Cardinality(Carrying(s))
             + Bit(Carries(x, s)) - Bit(Carries(call[c], s))
        /\ Cardinality(Carrying(s)) \in Nat /\ Cardinality(Carrying(s)') \in Nat
        /\ Cardinality(Carrying(s)') <= Cardinality(Callers)
        /\ Cardinality(Callers) \in Nat
    BY <2>2, CarryStep, Zenon
  <2>5. CASE s # sig.sid
    <3>1. sends'[s] = sends[s]
      BY <2>1, <2>2, <2>5
    <3>2. Cardinality(Carrying(s)') <= Cardinality(Carrying(s))
      BY <2>0, <2>4 DEF Bit
    <3>. QED  BY <2>0, <2>2, <2>3, <2>5, <3>1, <3>2
  <2>6. CASE s = sig.sid
    <3>1. sends'[s] = sends[s] + 1 /\ s \in executed'
      BY <2>1, <2>2, <2>6
    <3>2. CASE Carries(call[c], s)
      <4>1. Cardinality(Carrying(s)') = Cardinality(Carrying(s)) - 1
        BY <2>0, <2>4, <3>2 DEF Bit
      <4>. QED  BY <2>0, <2>3, <3>1, <4>1
    <3>3. CASE call[c].pc = "idle" /\ s \notin executed
      <4>1. c \notin Carrying(s)' /\ Carrying(s)' \in SUBSET Callers
        BY <2>2, <2>4 DEF Carrying, TypeOK
      <4>2. Cardinality(Carrying(s)') < Cardinality(Callers)
        BY <4>1, OneOut
      <4>. QED  BY <2>0, <2>3, <3>1, <3>3, <4>2
    <3>. QED  BY <2>6, <3>2, <3>3 DEF MayCarry
  <2>. QED  BY <2>5, <2>6
<1>. QED  BY <1>1, <1>2

LEMMA SendsPastDirection ==
  ASSUME TypeOK, SendsInv, NEW c \in Callers, NEW sig \in ActiveCalls,
         PastDirection(c, sig), MayCarry(c, sig.sid)
  PROVE  SendsInv'
<1>1. CASE Send(c, sig)
  BY <1>1, SendsSend
<1>2. CASE Return(c) /\ UNCHANGED <<executed, sends>>
  BY <1>2, SendsReturn DEF Return
<1>3. CASE /\ call' = [call EXCEPT ![c] = [sig EXCEPT !.pc = "resolve"]]
           /\ UNCHANGED <<executed, sends>>
  <2>. [sig EXCEPT !.pc = "resolve"].sid = sig.sid
    BY DEF ActiveCalls
  <2>. QED  BY <1>3, SendsStep
<1>. QED  BY <1>1, <1>2, <1>3 DEF PastDirection

LEMMA SendsGuard ==
  ASSUME TypeOK, SendsInv, NEW c \in Callers, NEW sig \in ActiveCalls,
         Guard(c, sig), MayCarry(c, sig.sid)
  PROVE  SendsInv'
<1>1. CASE PastDirection(c, sig)
  BY <1>1, SendsPastDirection
<1>2. CASE call' = [call EXCEPT ![c] = Idle] /\ UNCHANGED <<executed, sends>>
  BY <1>2, SendsReturn
<1>3. CASE /\ call' = [call EXCEPT ![c] = [sig EXCEPT !.pc = "flattenList"]]
           /\ UNCHANGED <<executed, sends>>
  <2>. [sig EXCEPT !.pc = "flattenList"].sid = sig.sid
    BY DEF ActiveCalls
  <2>. QED  BY <1>3, SendsStep
<1>. QED  BY <1>1, <1>2, <1>3 DEF Guard, Return

LEMMA SendsStart ==
  ASSUME TypeOK, SendsInv, NEW c \in Callers, Start(c)
  PROVE  SendsInv'
<1>. PICK sid \in SignalIds, type \in Types :
       \/ StartDuplicate(c, sid)
       \/ StartRefused(c, sid, type)
       \/ \E dir \in Directions, tight \in BOOLEAN :
            \/ StartWithRest(c, sid, type, dir, tight)
            \/ StartWithCache(c, sid, type, dir, tight)
  BY DEF Start
<1>0. call[c].pc = "idle"
  BY DEF StartDuplicate, StartRefused, StartWithRest, StartWithCache, MayStart
<1>1. CASE StartDuplicate(c, sid) \/ StartRefused(c, sid, type)
  BY <1>1, SendsReturn DEF StartDuplicate, StartRefused, Return, adapterVars
<1>2. ASSUME NEW dir \in Directions, NEW tight \in BOOLEAN,
             StartWithRest(c, sid, type, dir, tight)
      PROVE  SendsInv'
  <2>1. NewCall(sid, type, dir, tight).sid = sid
    BY DEF NewCall
  <2>2. /\ call' = [call EXCEPT ![c] = NewCall(sid, type, dir, tight)]
        /\ sid \notin executed /\ UNCHANGED <<executed, sends>>
    BY <1>2 DEF StartWithRest
  <2>. QED  BY <1>0, <2>1, <2>2, SendsStep DEF MayCarry
<1>3. ASSUME NEW dir \in Directions, NEW tight \in BOOLEAN,
             StartWithCache(c, sid, type, dir, tight)
      PROVE  SendsInv'
  <2>. DEFINE seen == (Cached # 0 \/ cacheAge = "fresh")
              sig == [NewCall(sid, type, dir, tight) EXCEPT
                        !.view = Cached, !.seen = seen]
  <2>1. Guard(c, sig) /\ sid \notin executed
    BY <1>3, Zenon DEF StartWithCache
  <2>2. seen \in BOOLEAN
    OBVIOUS
  <2>. HIDE DEF seen
  <2>3. Cached \in Int
    BY DEF Cached, TypeOK
  <2>4. NewCall(sid, type, dir, tight) \in ActiveCalls
    BY DEF NewCall, ActiveCalls, Stages, Settled
  <2>5. sig \in ActiveCalls /\ sig.sid = sid
    BY <2>2, <2>3, <2>4 DEF ActiveCalls, NewCall
  <2>. HIDE DEF sig
  <2>. QED  BY <1>0, <2>1, <2>5, SendsGuard DEF MayCarry
<1>. QED  BY <1>1, <1>2, <1>3

LEMMA SendsAdvance ==
  ASSUME TypeOK, SendsInv, NEW c \in Callers, Advance(c)
  PROVE  SendsInv'
<1>0. call[c].pc \in WaitingStages =>
        call[c] \in ActiveCalls /\ MayCarry(c, call[c].sid)
  BY DEF TypeOK, Idle, WaitingStages, MayCarry, Carries
<1>1. CASE PositionsReply(c)
  <2>1. call[c].pc \in WaitingStages /\ Guard(c, call[c])
    BY <1>1 DEF PositionsReply, WaitingStages
  <2>. QED  BY <1>0, <2>1, SendsGuard
<1>2. ASSUME Flattened(c), call[c].pc \in {"flattenList", "flattenOrder"}
      PROVE  SendsInv'
  <2>. DEFINE sig == [call[c] EXCEPT !.flattened = TRUE]
  <2>1. call[c] \in ActiveCalls /\ MayCarry(c, call[c].sid)
    BY <1>0, <1>2 DEF WaitingStages
  <2>2. sig \in ActiveCalls /\ sig.sid = call[c].sid
    BY <2>1 DEF ActiveCalls
  <2>3. PastDirection(c, sig)
    BY <1>2 DEF Flattened
  <2>. HIDE DEF sig
  <2>. QED  BY <2>1, <2>2, <2>3, SendsPastDirection
<1>3. CASE FlattenListReply(c)
  <2>1. CASE pos = 0
    BY <1>2, <1>3, <2>1 DEF FlattenListReply
  <2>2. CASE pos # 0
    <3>. DEFINE sig == [call[c] EXCEPT !.pc = "flattenOrder", !.liq = pos]
    <3>1. call[c] \in ActiveCalls /\ MayCarry(c, call[c].sid)
      BY <1>0, <1>3 DEF FlattenListReply, WaitingStages
    <3>2. sig.sid = call[c].sid
      BY <3>1 DEF ActiveCalls
    <3>3. call' = [call EXCEPT ![c] = sig] /\ UNCHANGED <<executed, sends>>
      BY <1>3, <2>2 DEF FlattenListReply
    <3>. HIDE DEF sig
    <3>. QED  BY <3>1, <3>2, <3>3, SendsStep
  <2>. QED  BY <2>1, <2>2
<1>4. ASSUME NEW accepted \in BOOLEAN, FlattenOrder(c, accepted)
      PROVE  SendsInv'
  BY <1>2, <1>4 DEF FlattenOrder
<1>5. CASE ResolveReply(c)
  <2>1. call[c].pc \in WaitingStages /\ Send(c, call[c])
    BY <1>5 DEF ResolveReply, WaitingStages
  <2>. QED  BY <1>0, <2>1, SendsSend
<1>6. CASE \/ PositionsFail(c) \/ FlattenListFail(c) \/ ResolveFail(c)
           \/ OsoPlaced(c) \/ OsoRejected(c) \/ OsoAbandoned(c)
  BY <1>6, SendsReturn
  DEF PositionsFail, FlattenListFail, ResolveFail, OsoPlaced, OsoRejected,
      OsoAbandoned, Return, adapterVars
<1>. QED  BY <1>1, <1>3, <1>4, <1>5, <1>6 DEF Advance

LEMMA SendsBroker ==
  ASSUME TypeOK, SendsInv, Broker
  PROVE  SendsInv'
<1>1. ASSUME NEW c \in Callers, NEW st \in {"osoAccepted", "osoRefused"},
             call[c].pc = "oso", call' = [call EXCEPT ![c].pc = st],
             UNCHANGED <<executed, sends>>
      PROVE  SendsInv'
  <2>. DEFINE x == [call[c] EXCEPT !.pc = st]
  <2>1. call[c] \in ActiveCalls
    BY <1>1 DEF TypeOK, Idle
  <2>2. x.pc \notin WaitingStages
    BY <2>1 DEF ActiveCalls, WaitingStages
  <2>3. call' = [call EXCEPT ![c] = x]
    BY <1>1
  <2>. HIDE DEF x
  <2>. QED  BY <1>1, <2>2, <2>3, SendsStep
<1>2. ASSUME NEW c \in Callers, BrokerAccepts(c) \/ BrokerRefuses(c)
      PROVE  SendsInv'
  BY <1>1, <1>2 DEF BrokerAccepts, BrokerRefuses, adapterVars
<1>3. CASE \/ \E d \in Directions, accepted \in BOOLEAN : WireArrives(d, accepted)
           \/ \E d \in Directions : Fill(d)
           \/ BracketExit
  BY <1>3, SendsStutter DEF WireArrives, Fill, BracketExit, adapterVars
<1>4. ASSUME NEW c \in Callers, BrokerReads(c) PROVE SendsInv'
  <2>. DEFINE x == [call[c] EXCEPT !.pc = "positionsRead", !.view = pos,
                                   !.seen = TRUE]
  <2>1. call[c] \in ActiveCalls /\ MayCarry(c, call[c].sid)
    BY <1>4 DEF BrokerReads, TypeOK, Idle, WaitingStages, MayCarry, Carries
  <2>2. x.sid = call[c].sid
    BY <2>1 DEF ActiveCalls
  <2>3. call' = [call EXCEPT ![c] = x] /\ UNCHANGED <<executed, sends>>
    BY <1>4 DEF BrokerReads, adapterVars
  <2>. HIDE DEF x
  <2>. QED  BY <2>1, <2>2, <2>3, SendsStep
<1>. QED  BY <1>2, <1>3, <1>4 DEF Broker

LEMMA SendsExpire ==
  ASSUME TypeOK, SendsInv, NEW sid \in SignalIds, DedupExpires(sid)
  PROVE  SendsInv'
<1>. SUFFICES ASSUME NEW s \in SignalIds
              PROVE  /\ s \notin executed' => sends'[s] = 0
                     /\ sends'[s] + Cardinality(Carrying(s)') <= Cardinality(Callers)
  BY DEF SendsInv
<1>1. /\ executed' = executed \ {sid} /\ sends' = [sends EXCEPT ![sid] = 0]
      /\ \A c \in Callers : call[c].sid # sid
      /\ Carrying(s)' = Carrying(s)
  BY DEF DedupExpires, Carrying
<1>2. /\ s \notin executed => sends[s] = 0
      /\ sends[s] + Cardinality(Carrying(s)) <= Cardinality(Callers)
      /\ sends \in [SignalIds -> Nat]
  BY DEF SendsInv, TypeOK
<1>3. CASE s = sid
  <2>1. sends'[s] = 0 /\ Carrying(s) \in SUBSET Callers
    BY <1>1, <1>2, <1>3 DEF Carrying
  <2>. QED  BY <1>1, <2>1, CallersBound
<1>4. CASE s # sid
  BY <1>1, <1>2, <1>4
<1>. QED  BY <1>3, <1>4

LEMMA SendsInductive == TypeOK /\ SendsInv /\ [Next]_vars => SendsInv'
<1>. SUFFICES ASSUME TypeOK, SendsInv, [Next]_vars PROVE SendsInv'
  OBVIOUS
<1>2. CASE \/ WsDeliver \/ CacheAges \/ SyncRequest \/ SyncReply \/ SyncFail
           \/ \E type \in Types : CooldownExpires(type)
  BY <1>2, SendsStutter
  DEF WsDeliver, CacheAges, CooldownExpires, SyncRequest, SyncReply, SyncFail
<1>3. CASE Environment
  BY <1>3, SendsStutter
  DEF Environment, Arm, Disarm, DayReset, DailyPnl, Connection, WsDrop, adapterVars
<1>4. CASE UNCHANGED vars
  BY <1>4, SendsStutter DEF vars
<1>. QED
  BY <1>2, <1>3, <1>4, SendsExpire, SendsStart, SendsAdvance, SendsBroker
  DEF Next, Background

(* The guard bounds the orders of one signal within its TTL by the number  *)
(* of calls that overlap, whatever became of the first.                    *)
THEOREM SendsAreBounded == Spec => []SendsBounded
<1>1. Init => SendsInv
  <2>. SUFFICES ASSUME Init, NEW s \in SignalIds
                PROVE  sends[s] = 0 /\ 0 + Cardinality(Carrying(s)) <= Cardinality(Callers)
    BY DEF Init, SendsInv
  <2>1. sends[s] = 0 /\ Carrying(s) \in SUBSET Callers
    BY DEF Init, Carrying
  <2>. QED  BY <2>1, CallersBound
<1>2. TypeOK /\ SendsInv => SendsBounded
  <2>. SUFFICES ASSUME TypeOK, SendsInv, NEW s \in SignalIds
                PROVE  sends[s] <= Cardinality(Callers)
    BY DEF SendsBounded
  <2>1. Carrying(s) \in SUBSET Callers /\ sends[s] \in Nat
    BY DEF Carrying, TypeOK
  <2>2. sends[s] + Cardinality(Carrying(s)) <= Cardinality(Callers)
    BY DEF SendsInv
  <2>. QED  BY <2>1, <2>2, CallersBound
<1>. QED  BY <1>1, <1>2, SendsInductive, TypeCorrect, PTL DEF Spec

(* The service's loop awaits one signal before it takes the next.          *)
Lone == \A c, d \in Callers : c = d

(* One signal, one order: the guard refuses a second within its TTL, when  *)
(* calls do not overlap.                                                   *)
THEOREM OneOrderPerSignal == ASSUME Lone PROVE Spec => []NoDoubleSend
<1>1. PICK c \in Callers : Callers = {c}
  BY CallersAssumption DEF Lone
<1>2. Cardinality(Callers) = 1
  BY <1>1, FS_Singleton
<1>3. SendsBounded => NoDoubleSend
  BY <1>2 DEF SendsBounded, NoDoubleSend
<1>. QED  BY <1>3, SendsAreBounded, PTL

-------------------------------------------------------------------------------
(* SettledOrderFits, for one caller.                                       *)

(* What a call x that started settled and does not reverse may rely on, of *)
(* a position p, working orders wk and abandoned requests wr: until its    *)
(* request arrives the broker has no order of this adapter, so that the    *)
(* position can only shrink below what the call saw.                       *)
FitsAt(x, p, wk, wr) ==
  (x.settled /\ ~x.flattened) =>
    /\ x.pc \in {"positions", "positionsRead", "resolve", "oso"} =>
         \A d \in Directions : wk[d] = 0
    /\ x.pc \in {"positions", "positionsRead", "resolve"} \cup OsoStages =>
         \A d \in Directions : wr[d] = 0
    /\ x.pc = "positionsRead" => Abs(p) <= Abs(x.view)
    /\ x.pc \in {"resolve", "oso"} => Abs(p) < MaxPositions
    /\ x.pc \in {"osoAccepted", "osoRefused"} =>
         Abs(p) + wk["long"] + wk["short"] <= MaxPositions

FitInv == \A c \in Callers : FitsAt(call[c], pos, working, wire)

LEMMA FitStep ==
  ASSUME TypeOK, Lone, NEW c \in Callers, NEW x,
         call' = [call EXCEPT ![c] = x], FitsAt(x, pos', working', wire')
  PROVE  FitInv'
<1>. SUFFICES ASSUME NEW d \in Callers
              PROVE  FitsAt(call'[d], pos', working', wire')
  BY DEF FitInv, FitsAt
<1>1. d = c /\ call'[d] = x
  BY DEF Lone, TypeOK
<1>. QED  BY <1>1

LEMMA IdleFits == \A p, wk, wr : FitsAt(Idle, p, wk, wr)
  BY DEF FitsAt, Idle

LEMMA FitReturn ==
  ASSUME TypeOK, Lone, NEW c \in Callers, call' = [call EXCEPT ![c] = Idle]
  PROVE  FitInv'
  BY FitStep, IdleFits

LEMMA FitSend ==
  ASSUME TypeOK, Lone, NEW c \in Callers, NEW sig \in ActiveCalls, Send(c, sig),
         (sig.settled /\ ~sig.flattened) =>
           /\ Abs(pos') < MaxPositions
           /\ \A d \in Directions : working'[d] = 0 /\ wire'[d] = 0
  PROVE  FitInv'
<1>1. CASE sig.tight
  BY <1>1, FitReturn DEF Send, Return
<1>2. CASE ~sig.tight
  <2>. DEFINE x == [sig EXCEPT !.pc = "oso"]
  <2>1. call' = [call EXCEPT ![c] = x]
    BY <1>2 DEF Send
  <2>2. x.pc = "oso" /\ x.settled = sig.settled /\ x.flattened = sig.flattened
    BY DEF ActiveCalls
  <2>. HIDE DEF x
  <2>3. FitsAt(x, pos', working', wire')
    BY <2>2 DEF FitsAt, OsoStages
  <2>. QED  BY <2>1, <2>3, FitStep
<1>. QED  BY <1>1, <1>2

LEMMA FitPastDirection ==
  ASSUME TypeOK, Lone, NEW c \in Callers, NEW sig \in ActiveCalls,
         PastDirection(c, sig),
         (sig.settled /\ ~sig.flattened /\ conn) =>
           /\ Abs(pos') <= Abs(sig.view)
           /\ \A d \in Directions : working'[d] = 0 /\ wire'[d] = 0,
         pos' \in Int
  PROVE  FitInv'
<1>1. CASE Refusal(sig.view) # "none"
  BY <1>1, FitReturn DEF PastDirection, Return
<1>2. CASE Refusal(sig.view) = "none"
  <2>1. conn /\ ~(Abs(sig.view) >= MaxPositions)
    BY <1>2 DEF Refusal
  <2>2. (sig.settled /\ ~sig.flattened) =>
           /\ Abs(pos') < MaxPositions
           /\ \A d \in Directions : working'[d] = 0 /\ wire'[d] = 0
    <3>1. Abs(sig.view) \in Int /\ Abs(pos') \in Int
      BY DEF Abs, ActiveCalls
    <3>2. Abs(pos') <= Abs(sig.view) => Abs(pos') < MaxPositions
      BY <2>1, <3>1, LimitsAssumption
    <3>. QED  BY <2>1, <3>2
  <2>3. CASE Send(c, sig)
    BY <2>2, <2>3, FitSend
  <2>4. CASE call' = [call EXCEPT ![c] = [sig EXCEPT !.pc = "resolve"]]
    <3>. DEFINE x == [sig EXCEPT !.pc = "resolve"]
    <3>1. x.pc = "resolve" /\ x.settled = sig.settled /\ x.flattened = sig.flattened
      BY DEF ActiveCalls
    <3>2. call' = [call EXCEPT ![c] = x]
      BY <2>4
    <3>. HIDE DEF x
    <3>3. FitsAt(x, pos', working', wire')
      BY <2>2, <3>1 DEF FitsAt
    <3>. QED  BY <3>2, <3>3, FitStep
  <2>. QED  BY <1>2, <2>3, <2>4 DEF PastDirection
<1>. QED  BY <1>1, <1>2

LEMMA FitGuard ==
  ASSUME TypeOK, Lone, NEW c \in Callers, NEW sig \in ActiveCalls,
         Guard(c, sig),
         (sig.settled /\ ~sig.flattened /\ conn) =>
           /\ Abs(pos') <= Abs(sig.view)
           /\ \A d \in Directions : working'[d] = 0 /\ wire'[d] = 0,
         pos' \in Int
  PROVE  FitInv'
<1>1. CASE PastDirection(c, sig)
  BY <1>1, FitPastDirection
<1>2. CASE call' = [call EXCEPT ![c] = Idle]
  BY <1>2, FitReturn
<1>3. CASE call' = [call EXCEPT ![c] = [sig EXCEPT !.pc = "flattenList"]]
  <2>. DEFINE x == [sig EXCEPT !.pc = "flattenList"]
  <2>1. x.pc = "flattenList"
    BY DEF ActiveCalls
  <2>2. call' = [call EXCEPT ![c] = x]
    BY <1>3
  <2>. HIDE DEF x
  <2>3. FitsAt(x, pos', working', wire')
    BY <2>1 DEF FitsAt, OsoStages
  <2>. QED  BY <2>2, <2>3, FitStep
<1>. QED  BY <1>1, <1>2, <1>3 DEF Guard, Return

(* A settled call finds the cache past its TTL: it asks the broker, or is  *)
(* refused for want of a connection.                                       *)
LEMMA FitStart ==
  ASSUME TypeOK, Lone, NEW c \in Callers, Start(c)
  PROVE  FitInv'
<1>. PICK sid \in SignalIds, type \in Types :
       \/ StartDuplicate(c, sid)
       \/ StartRefused(c, sid, type)
       \/ \E dir \in Directions, tight \in BOOLEAN :
            \/ StartWithRest(c, sid, type, dir, tight)
            \/ StartWithCache(c, sid, type, dir, tight)
  BY DEF Start
<1>1. CASE StartDuplicate(c, sid) \/ StartRefused(c, sid, type)
  BY <1>1, FitReturn DEF StartDuplicate, StartRefused, Return
<1>2. ASSUME NEW dir \in Directions, NEW tight \in BOOLEAN,
             StartWithRest(c, sid, type, dir, tight)
      PROVE  FitInv'
  <2>. DEFINE x == NewCall(sid, type, dir, tight)
  <2>1. x.pc = "positions" /\ x.settled = Settled
    BY DEF NewCall
  <2>2. call' = [call EXCEPT ![c] = x] /\ UNCHANGED <<pos, working, wire>>
    BY <1>2 DEF StartWithRest, brokerVars
  <2>. HIDE DEF x
  <2>3. FitsAt(x, pos', working', wire')
    BY <2>1, <2>2 DEF FitsAt, Settled
  <2>. QED  BY <2>2, <2>3, FitStep
<1>3. ASSUME NEW dir \in Directions, NEW tight \in BOOLEAN,
             StartWithCache(c, sid, type, dir, tight)
      PROVE  FitInv'
  <2>. DEFINE seen == (Cached # 0 \/ cacheAge = "fresh")
              sig == [NewCall(sid, type, dir, tight) EXCEPT
                        !.view = Cached, !.seen = seen]
  <2>1. Guard(c, sig) /\ ~NeedsRest /\ UNCHANGED <<pos, working, wire>>
    BY <1>3, Zenon DEF StartWithCache, brokerVars
  <2>2. seen \in BOOLEAN
    OBVIOUS
  <2>. HIDE DEF seen
  <2>3. Cached \in Int
    BY DEF Cached, TypeOK
  <2>4. NewCall(sid, type, dir, tight) \in ActiveCalls
    BY DEF NewCall, ActiveCalls, Stages, Settled
  <2>5. sig \in ActiveCalls /\ sig.settled = Settled
    BY <2>2, <2>3, <2>4 DEF ActiveCalls, NewCall
  <2>6. Settled => ~conn
    BY <2>1 DEF Settled, NeedsRest, Cached
  <2>7. pos' \in Int
    BY <2>1 DEF TypeOK
  <2>. HIDE DEF sig
  <2>. QED  BY <2>1, <2>5, <2>6, <2>7, FitGuard
<1>. QED  BY <1>1, <1>2, <1>3

LEMMA FitAdvance ==
  ASSUME TypeOK, Lone, FitInv, NEW c \in Callers, Advance(c)
  PROVE  FitInv'
<1>0. call[c].pc # "idle" => call[c] \in ActiveCalls
  BY DEF TypeOK, Idle
<1>1. CASE PositionsReply(c)
  <2>1. call[c] \in ActiveCalls /\ Guard(c, call[c])
    BY <1>0, <1>1 DEF PositionsReply
  <2>2. UNCHANGED <<pos, working, wire>> /\ pos' \in Int
    BY <1>1 DEF PositionsReply, brokerVars, TypeOK
  <2>3. (call[c].settled /\ ~call[c].flattened) =>
           /\ Abs(pos') <= Abs(call[c].view)
           /\ \A d \in Directions : working'[d] = 0 /\ wire'[d] = 0
    BY <1>1, <2>2 DEF PositionsReply, FitInv, FitsAt
  <2>. QED  BY <2>1, <2>2, <2>3, FitGuard
<1>2. ASSUME Flattened(c), call[c].pc \in {"flattenList", "flattenOrder"},
             UNCHANGED pos
      PROVE  FitInv'
  <2>. DEFINE sig == [call[c] EXCEPT !.flattened = TRUE]
  <2>1. sig \in ActiveCalls /\ sig.flattened /\ pos' \in Int
    BY <1>0, <1>2 DEF ActiveCalls, TypeOK
  <2>2. PastDirection(c, sig)
    BY <1>2 DEF Flattened
  <2>. HIDE DEF sig
  <2>. QED  BY <2>1, <2>2, FitPastDirection
<1>3. CASE FlattenListReply(c)
  <2>1. CASE pos = 0
    BY <1>2, <1>3, <2>1 DEF FlattenListReply, brokerVars
  <2>2. CASE pos # 0
    <3>. DEFINE x == [call[c] EXCEPT !.pc = "flattenOrder", !.liq = pos]
    <3>1. x.pc = "flattenOrder"
      BY <1>0, <1>3 DEF FlattenListReply, ActiveCalls
    <3>2. call' = [call EXCEPT ![c] = x]
      BY <1>3, <2>2 DEF FlattenListReply
    <3>. HIDE DEF x
    <3>3. FitsAt(x, pos', working', wire')
      BY <3>1 DEF FitsAt, OsoStages
    <3>. QED  BY <3>2, <3>3, FitStep
  <2>. QED  BY <2>1, <2>2
<1>4. ASSUME NEW accepted \in BOOLEAN, FlattenOrder(c, accepted)
      PROVE  FitInv'
  BY <1>2, <1>4 DEF FlattenOrder
<1>5. CASE ResolveReply(c)
  <2>1. call[c] \in ActiveCalls /\ Send(c, call[c])
    BY <1>0, <1>5 DEF ResolveReply
  <2>2. UNCHANGED <<pos, working, wire>>
    BY <1>5 DEF ResolveReply, brokerVars
  <2>3. (call[c].settled /\ ~call[c].flattened) =>
           /\ Abs(pos') < MaxPositions
           /\ \A d \in Directions : working'[d] = 0 /\ wire'[d] = 0
    BY <1>5, <2>2 DEF ResolveReply, FitInv, FitsAt
  <2>. QED  BY <2>1, <2>3, FitSend
<1>6. CASE \/ PositionsFail(c) \/ FlattenListFail(c) \/ ResolveFail(c)
           \/ OsoPlaced(c) \/ OsoRejected(c) \/ OsoAbandoned(c)
  BY <1>6, FitReturn
  DEF PositionsFail, FlattenListFail, ResolveFail, OsoPlaced, OsoRejected,
      OsoAbandoned, Return
<1>. QED  BY <1>1, <1>3, <1>4, <1>5, <1>6 DEF Advance

LEMMA FitStutter ==
  ASSUME FitInv, UNCHANGED <<call, pos, working, wire>>
  PROVE  FitInv'
  BY DEF FitInv, FitsAt

LEMMA FitBroker ==
  ASSUME TypeOK, Lone, FitInv, Broker
  PROVE  FitInv'
<1>0. pos \in Int /\ \A d \in Directions : working[d] \in Nat /\ wire[d] \in Nat
  BY DEF TypeOK
<1>1. ASSUME NEW c \in Callers, BrokerReads(c) PROVE FitInv'
  <2>. DEFINE x == [call[c] EXCEPT !.pc = "positionsRead", !.view = pos,
                                   !.seen = TRUE]
  <2>1. call[c] \in ActiveCalls
    BY <1>1 DEF BrokerReads, TypeOK, Idle
  <2>2. /\ x.pc = "positionsRead" /\ x.view = pos
        /\ x.settled = call[c].settled /\ x.flattened = call[c].flattened
    BY <2>1 DEF ActiveCalls
  <2>3. call' = [call EXCEPT ![c] = x] /\ UNCHANGED <<pos, working, wire>>
    BY <1>1 DEF BrokerReads, brokerVars
  <2>. HIDE DEF x
  <2>4. FitsAt(x, pos', working', wire')
    <3>1. (call[c].settled /\ ~call[c].flattened) =>
            \A d \in Directions : working[d] = 0 /\ wire[d] = 0
      BY <1>1 DEF BrokerReads, FitInv, FitsAt
    <3>2. pos' = x.view /\ Abs(pos) <= Abs(pos)
      BY <1>0, <2>2, <2>3 DEF Abs
    <3>. QED  BY <2>2, <2>3, <3>1, <3>2 DEF FitsAt
  <2>. QED  BY <2>3, <2>4, FitStep
<1>2. ASSUME NEW c \in Callers, NEW st \in {"osoAccepted", "osoRefused"},
             call[c].pc = "oso", call' = [call EXCEPT ![c].pc = st],
             UNCHANGED <<pos, wire>>,
             working' \in {working, [working EXCEPT ![call[c].dir] = @ + 1]}
      PROVE  FitInv'
  <2>. DEFINE x == [call[c] EXCEPT !.pc = st]
  <2>1. call[c] \in ActiveCalls
    BY <1>2 DEF TypeOK, Idle
  <2>2. /\ x.pc = st /\ call[c].dir \in Directions
        /\ x.settled = call[c].settled /\ x.flattened = call[c].flattened
    BY <2>1 DEF ActiveCalls
  <2>3. call' = [call EXCEPT ![c] = x]
    BY <1>2
  <2>. HIDE DEF x
  <2>4. ASSUME x.settled, ~x.flattened
        PROVE  /\ \A d \in Directions : wire'[d] = 0
               /\ Abs(pos') + working'["long"] + working'["short"] <= MaxPositions
    <3>1. /\ \A d \in Directions : working[d] = 0 /\ wire[d] = 0
          /\ Abs(pos) < MaxPositions
      BY <1>2, <2>2, <2>4 DEF FitInv, FitsAt, OsoStages
    <3>2. working \in [Directions -> Nat]
      BY DEF TypeOK
    <3>3. working'["long"] + working'["short"] \in {0, 1}
      BY <1>2, <2>2, <3>1, <3>2 DEF Directions
    <3>4. Abs(pos) \in Nat /\ working'["long"] \in Nat /\ working'["short"] \in Nat
      BY <1>0, <1>2, <2>2, <3>1, <3>2 DEF Abs, Directions
    <3>. QED  BY <1>2, <3>1, <3>3, <3>4, LimitsAssumption
  <2>5. FitsAt(x, pos', working', wire')
    BY <1>2, <2>2, <2>4 DEF FitsAt, OsoStages
  <2>. QED  BY <2>3, <2>5, FitStep
<1>3. ASSUME NEW c \in Callers, BrokerAccepts(c) \/ BrokerRefuses(c)
      PROVE  FitInv'
  BY <1>2, <1>3 DEF BrokerAccepts, BrokerRefuses, brokerVars
<1>4. ASSUME NEW d \in Directions, NEW accepted \in BOOLEAN, WireArrives(d, accepted)
      PROVE  FitInv'
  <2>. SUFFICES ASSUME NEW c \in Callers
                PROVE  FitsAt(call'[c], pos', working', wire')
    BY DEF FitInv, FitsAt
  <2>1. UNCHANGED call /\ wire[d] # 0
    BY <1>0, <1>4 DEF WireArrives
  <2>2. (call[c].settled /\ ~call[c].flattened) =>
           call[c].pc \notin {"positions", "positionsRead", "resolve"} \cup OsoStages
    BY <2>1 DEF FitInv, FitsAt
  <2>. QED  BY <2>1, <2>2 DEF FitsAt, OsoStages
<1>5. ASSUME NEW d \in Directions, Fill(d) PROVE FitInv'
  <2>. SUFFICES ASSUME NEW c \in Callers, call[c].settled, ~call[c].flattened
                PROVE  FitsAt(call'[c], pos', working', wire')
    BY <1>5 DEF FitInv, FitsAt, Fill
  <2>1. /\ UNCHANGED <<call, wire>> /\ working[d] > 0 /\ pos' = pos + Sign(d)
        /\ working' = [working EXCEPT ![d] = @ - 1]
    BY <1>5 DEF Fill, PositionBecomes
  <2>2. call[c].pc \notin {"positions", "positionsRead", "resolve", "oso"}
    BY <1>0, <2>1 DEF FitInv, FitsAt
  <2>3. Abs(pos') <= Abs(pos) + 1 /\ Abs(pos) \in Nat /\ Abs(pos') \in Nat
    BY <1>0, <2>1 DEF Abs, Sign
  <2>4. working'["long"] + working'["short"] = working["long"] + working["short"] - 1
    BY <1>0, <2>1 DEF TypeOK, Directions
  <2>5. /\ working'["long"] \in Int /\ working'["short"] \in Int
    BY <1>0, <2>1 DEF TypeOK, Directions
  <2>6. call[c].pc \in {"osoAccepted", "osoRefused"} =>
          Abs(pos') + working'["long"] + working'["short"] <= MaxPositions
    BY <1>0, <2>3, <2>4, <2>5, LimitsAssumption DEF FitInv, FitsAt, Directions
  <2>. QED  BY <2>1, <2>2, <2>6 DEF FitInv, FitsAt
<1>6. CASE BracketExit
  <2>. SUFFICES ASSUME NEW c \in Callers
                PROVE  FitsAt(call'[c], pos', working', wire')
    BY DEF FitInv, FitsAt
  <2>1. UNCHANGED <<call, working, wire>>
    BY <1>6 DEF BracketExit
  <2>2. Abs(pos') <= Abs(pos) /\ Abs(pos) \in Nat /\ Abs(pos') \in Nat
    BY <1>0, <1>6 DEF BracketExit, PositionBecomes, Abs
  <2>3. call[c].pc = "positionsRead" => Abs(call[c].view) \in Nat
    BY DEF TypeOK, ActiveCalls, Idle, Abs
  <2>. QED  BY <1>0, <2>1, <2>2, <2>3, LimitsAssumption DEF FitInv, FitsAt, Directions
<1>. QED  BY <1>1, <1>3, <1>4, <1>5, <1>6 DEF Broker

LEMMA FitInductive ==
  ASSUME Lone PROVE TypeOK /\ FitInv /\ [Next]_vars => FitInv'
<1>. SUFFICES ASSUME TypeOK, FitInv, [Next]_vars PROVE FitInv'
  OBVIOUS
<1>1. CASE Background
  BY <1>1, FitStutter
  DEF Background, WsDeliver, CacheAges, DedupExpires, CooldownExpires,
      SyncRequest, SyncReply, SyncFail, brokerVars
<1>2. CASE Environment
  BY <1>2, FitStutter
  DEF Environment, Arm, Disarm, DayReset, DailyPnl, Connection, WsDrop, brokerVars
<1>3. CASE UNCHANGED vars
  BY <1>3, FitStutter DEF vars
<1>. QED
  BY <1>1, <1>2, <1>3, FitStart, FitAdvance, FitBroker DEF Next

(* A lone call that started settled keeps the account within max_positions *)
(* whatever fills, exits and late events come in between.                  *)
THEOREM SettledFits == ASSUME Lone PROVE Spec => []SettledOrderFits
<1>1. Init => FitInv
  BY IdleFits DEF Init, FitInv
<1>2. TypeOK /\ FitInv => SettledOrderFits
  <2>. SUFFICES ASSUME TypeOK, FitInv, NEW c \in InFlight,
                       call[c].settled, ~call[c].flattened
                PROVE  Abs(pos) + working["long"] + working["short"]
                         + (IF call[c].pc = "oso" THEN 1 ELSE 0) <= MaxPositions
    BY DEF SettledOrderFits
  <2>1. Abs(pos) \in Nat /\ working["long"] \in Nat /\ working["short"] \in Nat
    BY DEF TypeOK, Abs, Directions
  <2>2. c \in Callers /\ call[c].pc \in OsoStages
    BY DEF InFlight
  <2>3. CASE call[c].pc = "oso"
    <3>1. working["long"] = 0 /\ working["short"] = 0 /\ Abs(pos) < MaxPositions
      BY <2>2, <2>3 DEF FitInv, FitsAt, Directions
    <3>. QED  BY <2>1, <2>3, <3>1, LimitsAssumption
  <2>4. CASE call[c].pc # "oso"
    <3>1. Abs(pos) + working["long"] + working["short"] <= MaxPositions
      BY <2>2, <2>4 DEF FitInv, FitsAt, OsoStages
    <3>. QED  BY <2>1, <2>4, <3>1, LimitsAssumption
  <2>. QED  BY <2>3, <2>4
<1>3. TypeOK /\ FitInv /\ [Next]_vars => FitInv'
  BY FitInductive
<1>. QED  BY <1>1, <1>2, <1>3, TypeCorrect, PTL DEF Spec

-------------------------------------------------------------------------------
(* OrderDesk, for one caller: each step of the code is one of the desk's.  *)

(* What the desk asks of a request, for a call that has not sent it yet.   *)
Admits(x) ==
  /\ x.sid \notin executed
  /\ ordersToday < MaxOrdersPerDay
  /\ ~lossHit
  /\ x.type \notin cooling

(* The inductive invariant: what a call's first step tested is still true  *)
(* at each of its later steps, up to its request.                          *)
GateInv == \A c \in Callers : call[c].pc \in WaitingStages => Admits(call[c])

Request(x) == [sid |-> x.sid, type |-> x.type]

(* What is shown of every step.                                            *)
DeskStep == (Desk!Next \/ UNCHANGED Desk!deskVars) /\ GateInv'

LEMMA RequestsNow ==
  ASSUME Lone, NEW c \in Callers
  PROVE  Requests = IF call[c].pc \in OsoStages THEN {Request(call[c])} ELSE {}
  BY DEF Lone, Requests, InFlight, Request

LEMMA RequestsNext ==
  ASSUME TypeOK, Lone, NEW c \in Callers, NEW x,
         call' = [call EXCEPT ![c] = x]
  PROVE  Requests' = IF x.pc \in OsoStages THEN {Request(x)} ELSE {}
<1>1. call'[c] = x /\ \A d \in Callers : d = c
  BY DEF TypeOK, Lone
<1>. QED  BY <1>1 DEF Requests, InFlight, Request

LEMMA GateNext ==
  ASSUME TypeOK, Lone, NEW c \in Callers, NEW x,
         call' = [call EXCEPT ![c] = x],
         x.pc \in WaitingStages =>
           /\ x.sid \notin executed'
           /\ ordersToday' < MaxOrdersPerDay
           /\ ~lossHit'
           /\ x.type \notin cooling'
  PROVE  GateInv'
<1>1. call'[c] = x /\ \A d \in Callers : d = c
  BY DEF TypeOK, Lone
<1>. QED  BY <1>1 DEF GateInv, Admits

(* A step inside the call, which the desk does not see.                    *)
LEMMA DeskQuiet ==
  ASSUME TypeOK, Lone, NEW c \in Callers, NEW x,
         call' = [call EXCEPT ![c] = x],
         UNCHANGED <<executed, ordersToday, lossHit, cooling>>,
         x.pc \in OsoStages <=> call[c].pc \in OsoStages,
         x.pc \in OsoStages => Request(x) = Request(call[c]),
         x.pc \in WaitingStages => Admits(x)
  PROVE  DeskStep
<1>1. Requests' = Requests
  BY RequestsNow, RequestsNext
<1>2. GateInv'
  BY GateNext DEF Admits
<1>. QED  BY <1>1, <1>2 DEF DeskStep, Desk!deskVars

(* A return before the request.                                            *)
LEMMA DeskReturn ==
  ASSUME TypeOK, Lone, NEW c \in Callers,
         call' = [call EXCEPT ![c] = Idle], call[c].pc \notin OsoStages,
         UNCHANGED <<executed, ordersToday, lossHit, cooling>>
  PROVE  DeskStep
<1>. Idle.pc \notin OsoStages /\ Idle.pc \notin WaitingStages
  BY DEF Idle, OsoStages, WaitingStages
<1>. QED  BY DeskQuiet

(* A step of another task, which the desk does not see either.             *)
LEMMA DeskStutter ==
  ASSUME GateInv, UNCHANGED <<call, executed, ordersToday, lossHit, cooling>>
  PROVE  DeskStep
  BY DEF GateInv, Admits, DeskStep, Desk!deskVars, Requests, InFlight

(* The request itself: Send, when the distances do not refuse it.          *)
LEMMA DeskSend ==
  ASSUME TypeOK, Lone, NEW c \in Callers, NEW sig \in ActiveCalls,
         Send(c, sig), call[c].pc \notin OsoStages, Admits(sig),
         UNCHANGED <<ordersToday, lossHit, cooling>>
  PROVE  DeskStep
<1>1. CASE sig.tight
  BY <1>1, DeskReturn DEF Send, Return
<1>2. CASE ~sig.tight
  <2>. DEFINE x == [sig EXCEPT !.pc = "oso"]
  <2>1. x.pc = "oso" /\ x.sid = sig.sid /\ x.type = sig.type
    BY DEF ActiveCalls
  <2>2. call' = [call EXCEPT ![c] = x] /\ executed' = executed \cup {sig.sid}
    BY <1>2 DEF Send
  <2>. HIDE DEF x
  <2>3. GateInv'
    BY <2>1, <2>2, GateNext DEF WaitingStages
  <2>4. Requests = {} /\ Requests' = {[sid |-> sig.sid, type |-> sig.type]}
    BY <2>1, <2>2, RequestsNow, RequestsNext DEF OsoStages, Request
  <2>5. sig.sid \in SignalIds /\ sig.type \in Types
    BY DEF ActiveCalls
  <2>6. Desk!Request(sig.sid, sig.type)
    BY <2>2, <2>4 DEF Desk!Request, Admits
  <2>. QED  BY <2>3, <2>5, <2>6 DEF DeskStep, Desk!Next
<1>. QED  BY <1>1, <1>2

LEMMA DeskPastDirection ==
  ASSUME TypeOK, Lone, NEW c \in Callers, NEW sig \in ActiveCalls,
         PastDirection(c, sig), call[c].pc \notin OsoStages, Admits(sig),
         UNCHANGED <<ordersToday, lossHit, cooling>>
  PROVE  DeskStep
<1>1. CASE Send(c, sig)
  BY <1>1, DeskSend
<1>2. CASE Return(c) /\ UNCHANGED executed
  BY <1>2, DeskReturn DEF Return
<1>3. CASE /\ call' = [call EXCEPT ![c] = [sig EXCEPT !.pc = "resolve"]]
           /\ UNCHANGED executed
  <2>. DEFINE x == [sig EXCEPT !.pc = "resolve"]
  <2>1. x.pc = "resolve" /\ x.sid = sig.sid /\ x.type = sig.type
    BY DEF ActiveCalls
  <2>2. call' = [call EXCEPT ![c] = x]
    BY <1>3
  <2>. HIDE DEF x
  <2>3. Admits(x)
    BY <2>1 DEF Admits
  <2>. QED  BY <1>3, <2>1, <2>2, <2>3, DeskQuiet DEF OsoStages
<1>. QED  BY <1>1, <1>2, <1>3 DEF PastDirection

LEMMA DeskGuard ==
  ASSUME TypeOK, Lone, NEW c \in Callers, NEW sig \in ActiveCalls,
         Guard(c, sig), call[c].pc \notin OsoStages, Admits(sig),
         UNCHANGED <<ordersToday, lossHit, cooling>>
  PROVE  DeskStep
<1>1. CASE PastDirection(c, sig)
  BY <1>1, DeskPastDirection
<1>2. CASE call' = [call EXCEPT ![c] = Idle] /\ UNCHANGED executed
  BY <1>2, DeskReturn
<1>3. CASE /\ call' = [call EXCEPT ![c] = [sig EXCEPT !.pc = "flattenList"]]
           /\ UNCHANGED executed
  <2>. DEFINE x == [sig EXCEPT !.pc = "flattenList"]
  <2>1. x.pc = "flattenList" /\ x.sid = sig.sid /\ x.type = sig.type
    BY DEF ActiveCalls
  <2>2. call' = [call EXCEPT ![c] = x]
    BY <1>3
  <2>. HIDE DEF x
  <2>3. Admits(x)
    BY <2>1 DEF Admits
  <2>. QED  BY <1>3, <2>1, <2>2, <2>3, DeskQuiet DEF OsoStages
<1>. QED  BY <1>1, <1>2, <1>3 DEF Guard, Return

(* The first step of a call tests what the desk will ask.                  *)
LEMMA DeskStart ==
  ASSUME TypeOK, Lone, NEW c \in Callers, Start(c)
  PROVE  DeskStep
<1>. PICK sid \in SignalIds, type \in Types :
       \/ StartDuplicate(c, sid)
       \/ StartRefused(c, sid, type)
       \/ \E dir \in Directions, tight \in BOOLEAN :
            \/ StartWithRest(c, sid, type, dir, tight)
            \/ StartWithCache(c, sid, type, dir, tight)
  BY DEF Start
<1>0. call[c].pc = "idle" /\ call[c].pc \notin OsoStages
  BY DEF StartDuplicate, StartRefused, StartWithRest, StartWithCache, MayStart,
         OsoStages
<1>1. CASE StartDuplicate(c, sid) \/ StartRefused(c, sid, type)
  BY <1>0, <1>1, DeskReturn DEF StartDuplicate, StartRefused, Return, adapterVars
<1>2. ASSUME NEW dir \in Directions, NEW tight \in BOOLEAN,
             StartWithRest(c, sid, type, dir, tight)
      PROVE  DeskStep
  <2>. DEFINE x == NewCall(sid, type, dir, tight)
  <2>1. x.pc = "positions" /\ x.sid = sid /\ x.type = type
    BY DEF NewCall
  <2>. HIDE DEF x
  <2>2. /\ call' = [call EXCEPT ![c] = x]
        /\ UNCHANGED <<executed, ordersToday, lossHit, cooling>>
    BY <1>2 DEF StartWithRest, x
  <2>3. Admits(x)
    BY <1>2, <2>1 DEF StartWithRest, Preconditions, Admits
  <2>. QED  BY <1>0, <2>1, <2>2, <2>3, DeskQuiet DEF OsoStages
<1>3. ASSUME NEW dir \in Directions, NEW tight \in BOOLEAN,
             StartWithCache(c, sid, type, dir, tight)
      PROVE  DeskStep
  <2>. DEFINE seen == (Cached # 0 \/ cacheAge = "fresh")
              sig == [NewCall(sid, type, dir, tight) EXCEPT
                        !.view = Cached, !.seen = seen]
  <2>1. /\ Guard(c, sig) /\ sid \notin executed /\ Preconditions(type)
        /\ UNCHANGED <<ordersToday, lossHit, cooling>>
    BY <1>3, Zenon DEF StartWithCache
  <2>2. seen \in BOOLEAN
    OBVIOUS
  <2>. HIDE DEF seen
  <2>3. Cached \in Int
    BY DEF Cached, TypeOK
  <2>4. NewCall(sid, type, dir, tight) \in ActiveCalls
    BY DEF NewCall, ActiveCalls, Stages, Settled
  <2>5. sig \in ActiveCalls /\ sig.sid = sid /\ sig.type = type
    BY <2>2, <2>3, <2>4 DEF ActiveCalls, NewCall
  <2>. HIDE DEF sig
  <2>6. Admits(sig)
    BY <2>1, <2>5 DEF Admits, Preconditions
  <2>. QED  BY <1>0, <2>1, <2>5, <2>6, DeskGuard
<1>. QED  BY <1>1, <1>2, <1>3

(* The later steps of a call.                                              *)
LEMMA DeskAdvance ==
  ASSUME TypeOK, Lone, GateInv, NEW c \in Callers, Advance(c)
  PROVE  DeskStep
<1>0. call[c].pc \in WaitingStages =>
        /\ call[c] \in ActiveCalls
        /\ Admits(call[c])
        /\ call[c].pc \notin OsoStages
  BY DEF TypeOK, Idle, GateInv, WaitingStages, OsoStages
<1>1. CASE PositionsReply(c)
  <2>1. /\ call[c].pc \in WaitingStages /\ Guard(c, call[c])
        /\ UNCHANGED <<ordersToday, lossHit, cooling>>
    BY <1>1 DEF PositionsReply, WaitingStages
  <2>. QED  BY <1>0, <2>1, DeskGuard
<1>2. ASSUME Flattened(c), call[c].pc \in {"flattenList", "flattenOrder"},
             UNCHANGED <<ordersToday, lossHit, cooling>>
      PROVE  DeskStep
  <2>. DEFINE sig == [call[c] EXCEPT !.flattened = TRUE]
  <2>1. call[c] \in ActiveCalls /\ Admits(call[c]) /\ call[c].pc \notin OsoStages
    BY <1>0, <1>2 DEF WaitingStages
  <2>2. sig \in ActiveCalls /\ sig.sid = call[c].sid /\ sig.type = call[c].type
    BY <2>1 DEF ActiveCalls
  <2>3. PastDirection(c, sig)
    BY <1>2 DEF Flattened
  <2>. HIDE DEF sig
  <2>4. Admits(sig)
    BY <2>1, <2>2 DEF Admits
  <2>. QED  BY <1>2, <2>1, <2>2, <2>3, <2>4, DeskPastDirection
<1>3. CASE FlattenListReply(c)
  <2>1. CASE pos = 0
    BY <1>2, <1>3, <2>1 DEF FlattenListReply
  <2>2. CASE pos # 0
    <3>. DEFINE sig == [call[c] EXCEPT !.pc = "flattenOrder", !.liq = pos]
    <3>1. call[c] \in ActiveCalls /\ Admits(call[c]) /\ call[c].pc \notin OsoStages
      BY <1>0, <1>3 DEF FlattenListReply, WaitingStages
    <3>2. sig.pc = "flattenOrder" /\ sig.sid = call[c].sid /\ sig.type = call[c].type
      BY <3>1 DEF ActiveCalls
    <3>3. /\ call' = [call EXCEPT ![c] = sig]
          /\ UNCHANGED <<executed, ordersToday, lossHit, cooling>>
      BY <1>3, <2>2 DEF FlattenListReply
    <3>. HIDE DEF sig
    <3>4. Admits(sig)
      BY <3>1, <3>2 DEF Admits
    <3>. QED  BY <3>1, <3>2, <3>3, <3>4, DeskQuiet DEF OsoStages
  <2>. QED  BY <2>1, <2>2
<1>4. ASSUME NEW accepted \in BOOLEAN, FlattenOrder(c, accepted)
      PROVE  DeskStep
  BY <1>2, <1>4 DEF FlattenOrder
<1>5. CASE ResolveReply(c)
  <2>1. /\ call[c].pc \in WaitingStages /\ Send(c, call[c])
        /\ UNCHANGED <<ordersToday, lossHit, cooling>>
    BY <1>5 DEF ResolveReply, WaitingStages
  <2>. QED  BY <1>0, <2>1, DeskSend
<1>6. CASE PositionsFail(c) \/ FlattenListFail(c) \/ ResolveFail(c)
  BY <1>6, DeskReturn
  DEF PositionsFail, FlattenListFail, ResolveFail, Return, adapterVars, OsoStages
<1>7. CASE OsoPlaced(c)
  <2>. call[c].pc \in OsoStages /\ call' = [call EXCEPT ![c] = Idle]
    BY <1>7 DEF OsoPlaced, Return, OsoStages
  <2>. Idle.pc \notin OsoStages /\ Idle.pc \notin WaitingStages
    BY DEF Idle, OsoStages, WaitingStages
  <2>1. Requests = {Request(call[c])} /\ Requests' = {}
    BY RequestsNow, RequestsNext
  <2>2. Desk!Placed(Request(call[c]))
    BY <1>7, <2>1 DEF OsoPlaced, Desk!Placed, Request
  <2>3. GateInv'
    BY GateNext
  <2>. QED  BY <2>1, <2>2, <2>3 DEF DeskStep, Desk!Next
<1>8. CASE OsoRejected(c) \/ OsoAbandoned(c)
  <2>1. /\ call[c].pc \in OsoStages /\ call' = [call EXCEPT ![c] = Idle]
        /\ UNCHANGED <<executed, ordersToday, lossHit, cooling>>
    BY <1>8 DEF OsoRejected, OsoAbandoned, Return, OsoStages
  <2>. Idle.pc \notin OsoStages /\ Idle.pc \notin WaitingStages
    BY DEF Idle, OsoStages, WaitingStages
  <2>2. Requests = {Request(call[c])} /\ Requests' = {}
    BY <2>1, RequestsNow, RequestsNext
  <2>3. Desk!NotPlaced(Request(call[c]))
    BY <2>1, <2>2 DEF Desk!NotPlaced
  <2>4. GateInv'
    BY <2>1, GateNext
  <2>. QED  BY <2>2, <2>3, <2>4 DEF DeskStep, Desk!Next
<1>. QED  BY <1>1, <1>3, <1>4, <1>5, <1>6, <1>7, <1>8 DEF Advance

(* What the broker does is no step of the desk: its answer waits for the   *)
(* caller to read it.                                                      *)
LEMMA DeskBroker ==
  ASSUME TypeOK, Lone, GateInv, Broker
  PROVE  DeskStep
<1>1. ASSUME NEW c \in Callers, NEW st \in {"osoAccepted", "osoRefused"},
             call[c].pc = "oso", call' = [call EXCEPT ![c].pc = st],
             UNCHANGED <<executed, ordersToday, lossHit, cooling>>
      PROVE  DeskStep
  <2>. DEFINE x == [call[c] EXCEPT !.pc = st]
  <2>1. call[c] \in ActiveCalls
    BY <1>1 DEF TypeOK, Idle
  <2>2. x.pc = st /\ x.sid = call[c].sid /\ x.type = call[c].type
    BY <2>1 DEF ActiveCalls
  <2>3. call' = [call EXCEPT ![c] = x]
    BY <1>1
  <2>. HIDE DEF x
  <2>4. x.pc \in OsoStages /\ x.pc \notin WaitingStages /\ call[c].pc \in OsoStages
    BY <1>1, <2>2 DEF OsoStages, WaitingStages
  <2>5. Request(x) = Request(call[c])
    BY <2>2 DEF Request
  <2>. QED  BY <1>1, <2>3, <2>4, <2>5, DeskQuiet
<1>2. ASSUME NEW c \in Callers, BrokerAccepts(c) \/ BrokerRefuses(c)
      PROVE  DeskStep
  BY <1>1, <1>2 DEF BrokerAccepts, BrokerRefuses, adapterVars
<1>3. CASE \/ \E d \in Directions, accepted \in BOOLEAN : WireArrives(d, accepted)
           \/ \E d \in Directions : Fill(d)
           \/ BracketExit
  BY <1>3, DeskStutter DEF WireArrives, Fill, BracketExit, adapterVars
<1>4. ASSUME NEW c \in Callers, BrokerReads(c) PROVE DeskStep
  <2>. DEFINE x == [call[c] EXCEPT !.pc = "positionsRead", !.view = pos,
                                   !.seen = TRUE]
  <2>1. /\ call[c] \in ActiveCalls /\ call[c].pc \notin OsoStages
        /\ Admits(call[c])
    BY <1>4 DEF BrokerReads, TypeOK, Idle, GateInv, WaitingStages, OsoStages
  <2>2. x.pc = "positionsRead" /\ x.sid = call[c].sid /\ x.type = call[c].type
    BY <2>1 DEF ActiveCalls
  <2>3. /\ call' = [call EXCEPT ![c] = x]
        /\ UNCHANGED <<executed, ordersToday, lossHit, cooling>>
    BY <1>4 DEF BrokerReads, adapterVars
  <2>. HIDE DEF x
  <2>4. Admits(x)
    BY <2>1, <2>2 DEF Admits
  <2>. QED  BY <2>1, <2>2, <2>3, <2>4, DeskQuiet DEF OsoStages
<1>. QED  BY <1>2, <1>3, <1>4 DEF Broker

(* Time and the service's loop: the desk forgets, cools off, starts a day. *)
LEMMA DeskClock ==
  ASSUME TypeOK, GateInv,
         \/ \E sid \in SignalIds : DedupExpires(sid)
         \/ \E type \in Types : CooldownExpires(type)
         \/ DayReset
         \/ DailyPnl
  PROVE  DeskStep
<1>0. UNCHANGED call => Requests' = Requests
  BY DEF Requests, InFlight
<1>1. ASSUME NEW sid \in SignalIds, DedupExpires(sid) PROVE DeskStep
  <2>1. \A r \in Requests : r.sid # sid
    BY <1>1 DEF DedupExpires, Requests, InFlight
  <2>2. Desk!Forget(sid)
    BY <1>0, <1>1, <2>1 DEF DedupExpires, Desk!Forget
  <2>3. GateInv'
    BY <1>1 DEF DedupExpires, GateInv, Admits
  <2>. QED  BY <2>2, <2>3 DEF DeskStep, Desk!Next
<1>2. ASSUME NEW type \in Types, CooldownExpires(type) PROVE DeskStep
  <2>1. Desk!CoolOff(type)
    BY <1>0, <1>2 DEF CooldownExpires, Desk!CoolOff
  <2>2. GateInv'
    BY <1>2 DEF CooldownExpires, GateInv, Admits
  <2>. QED  BY <2>1, <2>2 DEF DeskStep, Desk!Next
<1>3. ASSUME Active = {}, UNCHANGED call PROVE Requests = {} /\ GateInv'
  <2>1. \A c \in Callers : call[c].pc = "idle"
    BY <1>3 DEF Active
  <2>. QED  BY <1>3, <2>1 DEF Requests, InFlight, OsoStages, GateInv, WaitingStages
<1>4. CASE DayReset
  <2>1. Desk!NewDay
    BY <1>0, <1>3, <1>4 DEF DayReset, Desk!NewDay
  <2>. QED  BY <1>3, <1>4, <2>1 DEF DeskStep, Desk!Next, DayReset
<1>5. CASE DailyPnl
  <2>1. Desk!LossTurns
    BY <1>0, <1>3, <1>5 DEF DailyPnl, Desk!LossTurns
  <2>. QED  BY <1>3, <1>5, <2>1 DEF DeskStep, Desk!Next, DailyPnl
<1>. QED  BY <1>1, <1>2, <1>4, <1>5

LEMMA DeskSimulates ==
  ASSUME Lone PROVE TypeOK /\ GateInv /\ [Next]_vars => DeskStep
<1>. SUFFICES ASSUME TypeOK, GateInv, [Next]_vars PROVE DeskStep
  OBVIOUS
<1>1. CASE WsDeliver \/ CacheAges \/ SyncRequest \/ SyncReply \/ SyncFail
  BY <1>1, DeskStutter DEF WsDeliver, CacheAges, SyncRequest, SyncReply, SyncFail
<1>2. CASE Arm \/ Disarm \/ Connection \/ WsDrop
  BY <1>2, DeskStutter DEF Arm, Disarm, Connection, WsDrop, adapterVars
<1>3. CASE UNCHANGED vars
  BY <1>3, DeskStutter DEF vars
<1>. QED
  BY <1>1, <1>2, <1>3, DeskStart, DeskAdvance, DeskBroker, DeskClock
  DEF Next, Background, Environment

(* When calls do not overlap, place_bracket is atomic to its caller: what  *)
(* its first step tested holds at the request, however many awaits,        *)
(* reversals and events of other tasks lie between the two.                *)
THEOREM ImplementsDesk == ASSUME Lone PROVE Spec => DeskSpec
<1>1. Init => Desk!Init /\ GateInv
  BY DEF Init, Desk!Init, Requests, InFlight, GateInv, Idle, OsoStages, WaitingStages
<1>2. TypeOK /\ GateInv /\ [Next]_vars => GateInv' /\ [Desk!Next]_(Desk!deskVars)
  BY DeskSimulates DEF DeskStep
<1>. QED  BY <1>1, <1>2, TypeCorrect, PTL DEF Spec, DeskSpec, Desk!Spec
===============================================================================
