------------------------- MODULE TrailingStop_proofs -------------------------
(***************************************************************************)
(* Theorems about TrailingStop, for every set of prices, brackets and ATRs *)
(* and every bound: its variables keep their types, and a working stop is  *)
(* only moved towards the market while the registration is sound.          *)
(*                                                                         *)
(* The second rests on two relations that hold between the awaits: what is *)
(* about to be sent is what the manager holds (MoveInv), and no working    *)
(* stop of the position is closer to the market than what the manager      *)
(* holds (HeldInv).                                                        *)
(***************************************************************************)
EXTENDS TrailingStop, TLAPS

Locals == [dir : Sides, entry : Int, price : Int, atr : Nat, next : {"tp", "exit"}]

(* What the runner has asked for in its phase, or will ask for next.       *)
Level(r) == IF r.phase = "tight_trail" THEN r.best - Sgn(r.dir) * r.atr ELSE BreakEven(r)

(* A state of a manager and a later one of the same registration.          *)
TrailAdvance(old, new) ==
  /\ old = None <=> new = None
  /\ old # None => new.dir = old.dir /\ ~Tighter(old.dir, old.stop, new.stop)
RunnerAdvance(old, new) ==
  /\ old = None <=> new = None
  /\ old # None => new.dir = old.dir /\ ~Tighter(old.dir, Level(old), Level(new))

MoveOf(tr, rn, m) ==
  /\ ~runnerMode => tr # None /\ m = tr.stop
  /\ runnerMode => rn # None /\ m = Level(rn)

MoveInv == pc \in {"find", "modify", "place"} => MoveOf(trail, runner, move)

(* Order ids tell stops apart, and the order to modify is on cur's side.   *)
IdInv ==
  /\ \A s \in stops : s.id <= orders
  /\ \A s, t \in stops : s.id = t.id => s = t
  /\ pc = "modify" => \A s \in stops : s.id = oid => s.side = Closing(cur.dir)
  /\ pc = "modify" => oid <= orders

(* The state st of a manager covers the working stops of the position.     *)
CoversT(st) ==
  st # None => /\ st.dir = Dir(net)
               /\ \A s \in StopsOf(Dir(net)) : ~Tighter(Dir(net), s.price, st.stop)
CoversR(r) ==
  r # None => /\ r.dir = Dir(net)
              /\ \A s \in StopsOf(Dir(net)) : ~Tighter(Dir(net), s.price, Level(r))
Covers(tr, rn) ==
  /\ net # 0
  /\ ~runnerMode => CoversT(tr)
  /\ runnerMode => CoversR(rn)
HeldInv == basis => Covers(trail, runner)

IInv == TypeOK /\ IdInv /\ MoveInv /\ HeldInv

LEMMA DivInt == ASSUME NEW x \in Int PROVE x \div 8 \in Int
  OBVIOUS

(* check_and_update keeps the registration and moves its stop towards the  *)
(* market, whatever the price, the ATR and the override.                   *)
LEMMA CheckFacts ==
  ASSUME NEW st \in TrailStates, NEW price \in Int, NEW atr \in Nat,
         NEW eff \in OverrideStates \cup {None}
  PROVE  LET n == CheckAndUpdate(st, price, atr, eff) IN
         n \in TrailStates /\ n # None /\ TrailAdvance(st, n)
PROOF
<1> DEFINE ov == IF eff = None THEN Defaults ELSE eff
           st1 == [st EXCEPT !.best = Best(st.dir, st.best, price)]
           fav == Sgn(st.dir) * (st1.best - st.entry)
           reached == Reached(fav, atr, ov)
           p == CHOOSE q \in reached : \A r \in reached : Activation[r] <= Activation[q]
           stop == Candidate(st1, p, atr, ov)
           min == IF ov.min = None THEN MinMove ELSE ov.min
           n == CheckAndUpdate(st, price, atr, eff)
<1>1. st1 \in TrailStates /\ st1.dir = st.dir /\ st1.stop = st.stop
  BY DEF TrailStates, Best
<1>2. n = IF fav > 0 /\ reached # {} /\ MayMove(st, stop, min)
          THEN [st1 EXCEPT !.stop = stop, !.phase = p] ELSE st1
  BY DEF CheckAndUpdate
<1>3. ASSUME reached # {} PROVE p \in Phases /\ stop \in Int
  <2>1. reached \subseteq Phases
    BY DEF Reached
  <2>2. \E q \in reached : \A r \in reached : Activation[r] <= Activation[q]
    <3>1. CASE "tight_trail" \in reached
      BY <3>1, <2>1 DEF Phases, Activation
    <3>2. CASE "tight_trail" \notin reached /\ "lock_profit" \in reached
      BY <3>2, <2>1 DEF Phases, Activation
    <3>3. CASE "tight_trail" \notin reached /\ "lock_profit" \notin reached
      BY <3>3, <2>1, <1>3 DEF Phases, Activation
    <3> QED BY <3>1, <3>2, <3>3
  <2>3. p \in reached
    BY <2>2
  <2>4. ov.trail \in Int
    BY DEF Defaults, Scaled, OverrideStates
  <2>5. TrailAtr[p] \in Int
    BY <2>1, <2>3 DEF Phases, TrailAtr
  <2>6. TrailAtr[p] * ov.trail * atr \in Int
    BY <2>4, <2>5
  <2>7. (TrailAtr[p] * ov.trail * atr) \div 8 \in Int
    BY <2>6, DivInt
  <2>8. Sgn(st1.dir) \in {1, -1}
    BY DEF Sgn
  <2> HIDE DEF st1, p, ov
  <2>9. stop \in Int
    BY <2>7, <2>8, <1>1 DEF Candidate, TrailStates
  <2> QED BY <2>1, <2>3, <2>9
<1> HIDE DEF st1, fav, reached, p, stop, min, n
<1>4. CASE fav > 0 /\ reached # {} /\ MayMove(st, stop, min)
  <2>1. n = [st1 EXCEPT !.stop = stop, !.phase = p]
    BY <1>4, <1>2
  <2>2. n \in TrailStates /\ n.dir = st.dir /\ n.stop = stop
    BY <2>1, <1>1, <1>3, <1>4 DEF TrailStates
  <2>3. ~Tighter(st.dir, st.stop, n.stop)
    BY <2>2, <1>3, <1>4 DEF MayMove, Tighter, TrailStates, Sgn
  <2> QED BY <2>2, <2>3, NoneAssumption DEF TrailAdvance, n
<1>5. CASE ~(fav > 0 /\ reached # {} /\ MayMove(st, stop, min))
  <2>1. n = st1
    BY <1>5, <1>2
  <2>2. ~Tighter(st.dir, st.stop, n.stop)
    BY <2>1, <1>1 DEF Tighter, TrailStates, Sgn
  <2> QED BY <2>1, <2>2, <1>1, NoneAssumption DEF TrailAdvance, n
<1> QED BY <1>4, <1>5

(* The runner's update does the same with what it asks for.                *)
LEMMA RunnerFacts ==
  ASSUME NEW r \in RunnerStates, NEW price \in Int
  PROVE  LET n == RunnerUpdate(r, price) IN
         /\ n \in RunnerStates /\ n # None
         /\ RunnerAdvance(r, n)
         /\ RunnerStop(r, n) = None \/ RunnerStop(r, n) = Level(n)
PROOF
<1> DEFINE r1 == [r EXCEPT !.best = Best(r.dir, r.best, price)]
           n == RunnerUpdate(r, price)
<1>1. r1 \in RunnerStates /\ r1.dir = r.dir /\ r1.entry = r.entry /\ r1.atr = r.atr
      /\ r1.phase = r.phase /\ ~Tighter(r.dir, r.best, r1.best)
  BY DEF RunnerStates, Best, Tighter, Sgn
<1>2. n = [r1 EXCEPT !.phase = RunnerPhase(r1)]
  BY DEF RunnerUpdate
<1>3. RunnerPhase(r1) \in {"initial", "breakeven", "tight_trail"}
  BY DEF RunnerPhase
<1> HIDE DEF r1, n
<1>4. n \in RunnerStates /\ n.dir = r.dir /\ n.entry = r.entry /\ n.atr = r.atr
      /\ n.best = r1.best /\ n.phase = RunnerPhase(r1)
  BY <1>1, <1>2, <1>3 DEF RunnerStates
<1>5. ~Tighter(r.dir, Level(r), Level(n))
  <2>1. CASE n.phase # "tight_trail"
    <3>1. r.phase # "tight_trail"
      BY <2>1, <1>1, <1>4 DEF RunnerPhase
    <3> QED BY <3>1, <2>1, <1>4 DEF Level, BreakEven, Tighter, Sgn, RunnerStates
  <2>2. CASE n.phase = "tight_trail" /\ r.phase = "tight_trail"
    BY <2>2, <1>1, <1>4 DEF Level, Tighter, Sgn, RunnerStates
  <2>3. CASE n.phase = "tight_trail" /\ r.phase # "tight_trail"
    <3>1. 2 * RunnerFav(r1) >= 5 * r1.atr
      <4>1. RunnerFav(r1) \in Int /\ r1.atr \in Nat \ {0}
        BY <1>1 DEF RunnerFav, RunnerStates, Sgn
      <4> QED BY <4>1, <2>3, <1>1, <1>4 DEF RunnerPhase
    <3> QED BY <3>1, <2>3, <1>1, <1>4 DEF Level, BreakEven, RunnerFav, Tighter, Sgn, RunnerStates
  <2> QED BY <2>1, <2>2, <2>3
<1>6. RunnerStop(r, n) = None \/ RunnerStop(r, n) = Level(n)
  BY DEF RunnerStop, Level
<1> QED BY <1>4, <1>5, <1>6, NoneAssumption DEF RunnerAdvance, n

(* The effective override has the type of one.                             *)
LEMMA OverrideFacts ==
  ASSUME TypeOK, NEW ov \in WithRegime(Ingested)
  PROVE  ov \in OverrideStates \cup {None} /\ Effective(ov) \in OverrideStates \cup {None}
PROOF
<1>1. Ingested \in OverrideStates \cup {None}
  BY DEF TypeOK, Ingested, OverrideStates, OverrideRequests
<1>2. \A m \in RegimeTrail : Scaled(m, "regime") \in OverrideStates
  BY ParametersAssumption DEF Scaled, OverrideStates
<1>3. ov \in OverrideStates \cup {None}
  BY <1>1, <1>2 DEF WithRegime
<1> QED BY <1>3 DEF Effective

CycleOK == /\ pc' \in Points /\ cur' \in Locals /\ move' \in Int \cup {None} /\ oid' \in Nat

(* For the prover that does not know it by itself.                         *)
LEMMA FalseIsBoolean == basis' = FALSE => basis' \in BOOLEAN
  BY Zenon

(* Steps that end the part about stops leave nothing to send.              *)
LEMMA LeaveFacts ==
  /\ Idle => CycleOK /\ pc' = "idle"
  /\ Leave => CycleOK /\ pc' \in {"idle", "exit"}
  /\ \A c \in Locals : AfterMove(c) => CycleOK /\ pc' \in {"idle", "exit", "tp"}
  BY DEF Idle, Leave, AfterMove, CycleOK, NoCur, Locals, Points, Sides

(* From the managers' states tr and rn to the next await.                  *)
LEMMA TrackFacts ==
  ASSUME TypeOK, NEW c \in Locals, NEW tr \in TrailStates \cup {None}, NEW rn \in RunnerStates \cup {None},
         Track(c, tr, rn), runnerMode' = runnerMode
  PROVE  /\ trail' \in TrailStates \cup {None} /\ runner' \in RunnerStates \cup {None}
         /\ override' \in OverrideStates \cup {None}
         /\ overrideFile' \in OverrideRequests \cup {None} /\ clearFlag' \in BOOLEAN
         /\ CycleOK
         /\ TrailAdvance(tr, trail') /\ RunnerAdvance(rn, runner')
         /\ pc' # "modify" /\ MoveInv'
PROOF
<1> USE DEF TypeOK
<1>0. TrailAdvance(tr, tr) /\ RunnerAdvance(rn, rn)
  <2>1. TrailAdvance(tr, tr)
    BY DEF TrailAdvance, TrailStates, Tighter, Sgn
  <2>2. RunnerAdvance(rn, rn)
    BY DEF RunnerAdvance, RunnerStates, Tighter, Sgn, Level, BreakEven
  <2> QED BY <2>1, <2>2
<1>1. CASE runnerMode
  <2>1. TrackRunner(c, rn) /\ trail' = tr /\ UNCHANGED <<files, override>>
    BY <1>1 DEF Track
  <2>2. CASE rn = None
    <3>1. runner' = rn /\ Leave
      BY <2>1, <2>2 DEF TrackRunner
    <3> QED BY <3>1, <2>1, <1>0, LeaveFacts DEF MoveInv, files
  <2>3. CASE rn # None
    <3> DEFINE r == rn
               n == RunnerUpdate(r, c.price)
    <3>1. c.price \in Int /\ r \in RunnerStates
      BY <2>3 DEF Locals
    <3>2. n \in RunnerStates /\ n # None /\ RunnerAdvance(r, n)
          /\ (RunnerStop(r, n) = None \/ RunnerStop(r, n) = Level(n))
      BY <3>1, RunnerFacts
    <3>3. runner' = n
      BY <2>1, <2>3 DEF TrackRunner
    <3>4. \/ Leave
          \/ /\ RunnerStop(r, n) # None /\ pc' = "find"
             /\ cur' = Rest(c, IF r.phase = "initial" THEN "tp" ELSE "exit") /\ move' = RunnerStop(r, n) /\ oid' = 0
      BY <2>1, <2>3 DEF TrackRunner
    <3> HIDE DEF n
    <3>5. runner' \in RunnerStates /\ RunnerAdvance(rn, runner')
      BY <3>2, <3>3
    <3>6. CASE Leave
      BY <3>5, <3>6, <2>1, <1>0, LeaveFacts DEF MoveInv, files
    <3>7. CASE ~Leave
      <4>1. pc' = "find" /\ cur' = Rest(c, IF r.phase = "initial" THEN "tp" ELSE "exit") /\ move' = Level(n) /\ oid' = 0
        BY <3>7, <3>4, <3>2
      <4>2. cur' \in Locals
        BY <4>1 DEF Rest, Locals
      <4>3. Level(n) \in Int
        BY <3>2 DEF Level, BreakEven, RunnerStates, Sgn
      <4>4. CycleOK
        BY <4>1, <4>2, <4>3 DEF CycleOK, Points
      <4>5. MoveInv'
        BY <4>1, <3>2, <3>3, <1>1 DEF MoveInv, MoveOf
      <4> QED BY <4>1, <4>4, <4>5, <3>5, <2>1, <1>0 DEF files
    <3> QED BY <3>6, <3>7
  <2> QED BY <2>2, <2>3
<1>2. CASE ~runnerMode
  <2>1. TrackTrailing(c, tr) /\ runner' = rn
    BY <1>2 DEF Track
  <2>2. CASE c.atr = 0
    <3>1. trail' = tr /\ Leave /\ UNCHANGED <<files, override>>
      BY <2>1, <2>2 DEF TrackTrailing
    <3> QED BY <3>1, <2>1, <1>0, LeaveFacts DEF MoveInv, files
  <2>3. CASE c.atr # 0
    <3>1. PICK ov \in WithRegime(Ingested) :
            /\ overrideFile' = None /\ clearFlag' = FALSE
            /\ LET st == tr IN
               IF st = None
               THEN override' = ov /\ trail' = tr /\ Leave
               ELSE LET n == CheckAndUpdate(st, c.price, c.atr, Effective(ov)) IN
                    /\ override' = Effective(ov)
                    /\ trail' = n
                    /\ IF n.stop # st.stop \/ OutOfSync(n)
                       THEN pc' = "find" /\ cur' = Rest(c, "exit") /\ move' = n.stop /\ oid' = 0
                       ELSE Leave
      BY <2>1, <2>3 DEF TrackTrailing
    <3>2. ov \in OverrideStates \cup {None} /\ Effective(ov) \in OverrideStates \cup {None}
      BY OverrideFacts
    <3>3. CASE tr = None
      BY <3>1, <3>2, <3>3, <2>1, <1>0, LeaveFacts DEF MoveInv
    <3>4. CASE tr # None
      <4> DEFINE st == tr
                 n == CheckAndUpdate(st, c.price, c.atr, Effective(ov))
      <4>1. c.price \in Int /\ c.atr \in Nat /\ st \in TrailStates
        BY <3>4 DEF Locals
      <4>2. n \in TrailStates /\ n # None /\ TrailAdvance(st, n)
        BY <4>1, <3>2, CheckFacts
      <4>3. override' = Effective(ov) /\ trail' = n
            /\ overrideFile' = None /\ clearFlag' = FALSE
        BY <3>1, <3>4
      <4>4. \/ Leave
            \/ pc' = "find" /\ cur' = Rest(c, "exit") /\ move' = n.stop /\ oid' = 0
        BY <3>1, <3>4
      <4> HIDE DEF n
      <4>5. trail' \in TrailStates /\ TrailAdvance(tr, trail')
        BY <4>2, <4>3
      <4>6. CASE Leave
        BY <4>5, <4>6, <4>3, <3>2, <2>1, <1>0, LeaveFacts DEF MoveInv
      <4>7. CASE ~Leave
        <5>1. pc' = "find" /\ cur' = Rest(c, "exit") /\ move' = n.stop /\ oid' = 0
          BY <4>7, <4>4
        <5>2. cur' \in Locals
          BY <5>1 DEF Rest, Locals
        <5>3. CycleOK
          BY <5>1, <5>2, <4>2 DEF CycleOK, Points, TrailStates
        <5>4. MoveInv'
          BY <5>1, <4>2, <4>3, <1>2 DEF MoveInv, MoveOf
        <5> QED BY <5>1, <5>3, <5>4, <4>3, <4>5, <3>2, <2>1, <1>0
      <4> QED BY <4>6, <4>7
    <3> QED BY <3>3, <3>4
  <2> QED BY <2>2, <2>3
<1> QED BY <1>1, <1>2

(* What covers the stops still does after the managers have advanced.      *)
LEMMA AdvanceCovers ==
  ASSUME TypeOK, NEW tr \in TrailStates \cup {None}, NEW rn \in RunnerStates \cup {None},
         trail' \in TrailStates \cup {None}, runner' \in RunnerStates \cup {None},
         TrailAdvance(tr, trail'), RunnerAdvance(rn, runner'),
         Covers(tr, rn), UNCHANGED <<net, stops, runnerMode>>
  PROVE  net' # 0 /\ Covers(trail, runner)'
PROOF
<1>1. \A s \in stops : s.price \in Int
  BY DEF TypeOK, StopOrders
<1>2. CASE runnerMode
  <2>1. CASE rn = None
    BY <1>2, <2>1 DEF Covers, CoversR, CoversT, RunnerAdvance
  <2>2. CASE rn # None
    <3>1. rn \in RunnerStates /\ runner' \in RunnerStates
      BY <2>2 DEF RunnerAdvance
    <3>2. Level(rn) \in Int /\ Level(runner') \in Int
      BY <3>1 DEF Level, BreakEven, RunnerStates, Sgn
    <3>3. CoversR(rn) /\ RunnerAdvance(rn, runner')
      BY <1>2 DEF Covers
    <3> HIDE DEF Level
    <3>4. /\ runner'.dir = Dir(net)
          /\ \A s \in StopsOf(Dir(net)) : ~Tighter(Dir(net), s.price, Level(runner'))
      BY <2>2, <3>2, <3>3, <1>1 DEF CoversR, RunnerAdvance, Tighter, Sgn, StopsOf
    <3> QED BY <3>4, <1>2 DEF Covers, CoversR, CoversT, StopsOf
  <2> QED BY <2>1, <2>2
<1>3. CASE ~runnerMode
  <2>1. CASE tr = None
    BY <1>3, <2>1 DEF Covers, CoversR, CoversT, TrailAdvance
  <2>2. CASE tr # None
    <3>1. tr.stop \in Int /\ trail'.stop \in Int
      BY <2>2 DEF TrailAdvance, TrailStates
    <3>2. CoversT(tr)
      BY <1>3 DEF Covers
    <3>3. /\ trail'.dir = Dir(net)
          /\ \A s \in StopsOf(Dir(net)) : ~Tighter(Dir(net), s.price, trail'.stop)
      BY <2>2, <3>1, <3>2, <1>1 DEF CoversT, TrailAdvance, Tighter, Sgn, StopsOf
    <3> QED BY <3>3, <1>3 DEF Covers, CoversR, CoversT, StopsOf
  <2> QED BY <2>1, <2>2
<1> QED BY <1>2, <1>3

(* A cycle that gets past the position cache.                              *)
LEMMA LookFacts ==
  ASSUME IInv, NEW l \in [net : Int, avg : Int], Look(l) \/ LookWithoutPrice(l),
         UNCHANGED <<broker, runnerMode, restarts, events>>
  PROVE  IInv' /\ stops' = stops
PROOF
<1> USE DEF IInv, broker
<1>1. CASE LookWithoutPrice(l)
  <2>1. CycleOK /\ pc' = "idle"
    BY <1>1, LeaveFacts DEF LookWithoutPrice
  <2>2. UNCHANGED <<service, files, basis>> /\ live' = l
    BY <1>1 DEF LookWithoutPrice
  <2>3. TypeOK'
    BY <2>1, <2>2 DEF TypeOK, CycleOK, Locals, service, files
  <2>4. IdInv' /\ MoveInv'
    BY <2>1 DEF IdInv, MoveInv
  <2>5. HeldInv'
    BY <2>2 DEF HeldInv, service, Covers, CoversT, CoversR, StopsOf
  <2> QED BY <2>3, <2>4, <2>5
<1>2. CASE Look(l) /\ Position(l) = None
  <2>1. CleanUp /\ live' = l
    BY <1>2 DEF Look
  <2>2. CycleOK /\ pc' = "idle"
    BY <2>1, LeaveFacts DEF CleanUp
  <2>3. TypeOK'
    BY <2>1, <2>2, FalseIsBoolean DEF TypeOK, CycleOK, Locals, CleanUp, files
  <2>4. IdInv' /\ MoveInv'
    BY <2>2 DEF IdInv, MoveInv
  <2>5. HeldInv'
    BY <2>1 DEF HeldInv, CleanUp
  <2> QED BY <2>3, <2>4, <2>5
<1>3. CASE Look(l) /\ Position(l) # None
  <2> DEFINE p == Position(l)
  <2>1. PICK price \in Prices, atr \in Atrs :
          LET c == [dir |-> p.dir, entry |-> p.entry,
                    price |-> price, atr |-> atr, next |-> "exit"]
          IN IF mon # p.entry
             THEN /\ mon' = p.entry
                  /\ pc' = "register" /\ cur' = c /\ move' = None /\ oid' = 0
                  /\ UNCHANGED <<trail, runner, override, sent, misses, files, basis>>
             ELSE Track(c, trail, runner) /\ UNCHANGED <<mon, sent, misses, basis>>
    BY <1>3 DEF Look
  <2>2. live' = l
    BY <1>3 DEF Look
  <2> DEFINE c == [dir |-> p.dir, entry |-> p.entry,
                   price |-> price, atr |-> atr, next |-> "exit"]
  <2>3. p.dir \in Sides /\ p.entry \in Int
    BY <1>3 DEF Position, Sides, Dir, TypeOK
  <2>4. c \in Locals
    BY <2>3, ParametersAssumption DEF Locals
  <2> HIDE DEF p, c
  <2>5. CASE mon # p.entry
    <3>1. /\ mon' = p.entry
          /\ pc' = "register" /\ cur' = c /\ move' = None /\ oid' = 0
          /\ UNCHANGED <<trail, runner, override, sent, misses, files, basis>>
      BY <2>1, <2>5 DEF p, c
    <3>2. TypeOK'
      BY <3>1, <2>2, <2>3, <2>4 DEF TypeOK, Locals, files, Points
    <3>3. IdInv' /\ MoveInv'
      BY <3>1 DEF IdInv, MoveInv
    <3>4. HeldInv'
      BY <3>1 DEF HeldInv, Covers, CoversT, CoversR, StopsOf
    <3> QED BY <3>2, <3>3, <3>4
  <2>6. CASE mon = p.entry
    <3>1. Track(c, trail, runner) /\ UNCHANGED <<mon, sent, misses, basis>>
      BY <2>1, <2>6 DEF p, c
    <3>2. trail \in TrailStates \cup {None} /\ runner \in RunnerStates \cup {None}
      BY DEF TypeOK
    <3>3. /\ trail' \in TrailStates \cup {None} /\ runner' \in RunnerStates \cup {None}
          /\ override' \in OverrideStates \cup {None}
          /\ overrideFile' \in OverrideRequests \cup {None} /\ clearFlag' \in BOOLEAN
          /\ CycleOK
          /\ TrailAdvance(trail, trail') /\ RunnerAdvance(runner, runner')
          /\ pc' # "modify" /\ MoveInv'
      BY <3>1, <3>2, <2>4, TrackFacts
    <3>4. TypeOK'
      BY <3>1, <3>3, <2>2 DEF TypeOK, CycleOK, Locals
    <3>5. IdInv'
      BY <3>3 DEF IdInv
    <3>6. HeldInv'
      <4>1. CASE ~basis
        BY <4>1, <3>1 DEF HeldInv
      <4>2. CASE basis
        <5>1. Covers(trail, runner)
          BY <4>2 DEF HeldInv
        <5> QED BY <5>1, <3>2, <3>3, AdvanceCovers DEF HeldInv
      <4> QED BY <4>1, <4>2
    <3> QED BY <3>3, <3>4, <3>5, <3>6
  <2> QED BY <2>5, <2>6
<1> QED BY <1>1, <1>2, <1>3

(* A registration, and the update that follows it.                         *)
LEMMA RegisterFacts ==
  ASSUME IInv, NEW px \in Int, Register(px)
  PROVE  IInv' /\ stops' = stops
PROOF
<1> DEFINE tr == Registered(cur, px)
           new == [entry |-> cur.entry, dir |-> cur.dir, best |-> cur.entry, atr |-> cur.atr,
                   phase |-> "initial"]
           rn == IF runnerMode /\ cur.atr > 0 THEN new ELSE runner
<1> USE DEF IInv, broker
<1>1. /\ Track(cur, tr, rn)
      /\ basis' = Basis(cur, px)
      /\ UNCHANGED <<broker, live, runnerMode, mon, sent, misses, restarts, events>>
  BY DEF RunnerReady, Register
<1>2. cur \in Locals
  BY DEF TypeOK, Locals
<1>3. Registered(cur, px) \in TrailStates /\ Registered(cur, px) # None
  BY <1>2, NoneAssumption DEF Registered, TrailStates, Locals
<1>4. tr \in TrailStates /\ tr = Registered(cur, px)
  BY <1>3
<1>5. cur.atr > 0 => new \in RunnerStates /\ new # None
  BY <1>2, NoneAssumption DEF RunnerStates, Locals
<1>6. rn \in RunnerStates \cup {None} /\ (runnerMode /\ cur.atr > 0 => rn = new)
  <2>1. CASE runnerMode /\ cur.atr > 0
    BY <2>1, <1>2, <1>5 DEF TypeOK, Locals
  <2>2. CASE ~(runnerMode /\ cur.atr > 0)
    BY <2>2 DEF TypeOK
  <2> QED BY <2>1, <2>2
<1> HIDE DEF tr, rn
<1>7. /\ trail' \in TrailStates \cup {None} /\ runner' \in RunnerStates \cup {None}
      /\ override' \in OverrideStates \cup {None}
      /\ overrideFile' \in OverrideRequests \cup {None} /\ clearFlag' \in BOOLEAN
      /\ CycleOK
      /\ TrailAdvance(tr, trail') /\ RunnerAdvance(rn, runner')
      /\ pc' # "modify" /\ MoveInv'
  BY <1>1, <1>2, <1>4, <1>6, TrackFacts
<1>8. basis' \in BOOLEAN
  BY <1>1, <1>2 DEF Basis, Locals
<1>9. TypeOK'
  BY <1>1, <1>7, <1>8 DEF TypeOK, CycleOK, Locals
<1>10. IdInv'
  BY <1>1, <1>7 DEF IdInv
<1>11. HeldInv'
  <2>1. CASE ~basis'
    BY <2>1 DEF HeldInv
  <2>2. CASE basis'
    <3>1. /\ net # 0 /\ Dir(net) = cur.dir
          /\ runnerMode => cur.atr > 0
          /\ \A s \in StopsOf(cur.dir) :
               ~Tighter(cur.dir, s.price, IF runnerMode THEN BreakEven(cur) ELSE px)
      BY <2>2, <1>1 DEF Basis
    <3>2. Covers(tr, rn)
      <4>1. CASE runnerMode
        <5>1. rn.dir = cur.dir /\ Level(rn) = BreakEven(cur)
          BY <4>1, <3>1, <1>6 DEF Level, BreakEven
        <5> QED BY <5>1, <4>1, <3>1 DEF Covers, CoversR
      <4>2. CASE ~runnerMode
        <5>1. tr.dir = cur.dir /\ tr.stop = px
          BY <1>4 DEF Registered
        <5> QED BY <5>1, <4>2, <3>1 DEF Covers, CoversT
      <4> QED BY <4>1, <4>2
    <3>3. UNCHANGED <<net, stops, runnerMode>>
      BY <1>1
    <3>4. Covers(trail, runner)'
      BY <3>2, <3>3, <1>4, <1>6, <1>7, AdvanceCovers
    <3> QED BY <3>4 DEF HeldInv
  <2> QED BY <2>1, <2>2
<1> QED BY <1>1, <1>7, <1>9, <1>10, <1>11

(* What modify_stop_order leaves of a stop.                                *)
LEMMA ModifiedFacts ==
  ASSUME TypeOK, move \in Int, NEW t \in Modified
  PROVE  \E u \in stops : /\ t.id = u.id /\ t.side = u.side /\ t \in StopOrders
                          /\ t.price = IF u.id = oid THEN move ELSE u.price
PROOF
<1>1. PICK u \in stops : t = [u EXCEPT !.price = IF u.id = oid THEN move ELSE u.price]
  BY DEF Modified
<1>2. u \in StopOrders
  BY DEF TypeOK
<1> QED BY <1>1, <1>2 DEF StopOrders

LEMMA MoveIsInt ==
  ASSUME TypeOK, MoveInv, pc \in {"find", "modify", "place"}
  PROVE  move \in Int
PROOF
<1>1. CASE runnerMode
  <2>1. runner \in RunnerStates /\ move = Level(runner)
    BY <1>1 DEF MoveInv, MoveOf, TypeOK
  <2> QED BY <2>1 DEF Level, BreakEven, RunnerStates, Sgn
<1>2. CASE ~runnerMode
  <2>1. trail \in TrailStates /\ move = trail.stop
    BY <1>2 DEF MoveInv, MoveOf, TypeOK
  <2> QED BY <2>1 DEF TrailStates
<1> QED BY <1>1, <1>2

(* While the registration is sound, no stop of the position is closer to   *)
(* the market than what is about to be sent.                               *)
LEMMA MoveCovers ==
  ASSUME IInv, pc \in {"find", "modify", "place"}, basis
  PROVE  \A s \in StopsOf(Dir(net)) : ~Tighter(Dir(net), s.price, move)
  BY DEF IInv, HeldInv, Covers, CoversT, CoversR, MoveInv, MoveOf

(* A step that keeps the managers' states and whose stops are covered by   *)
(* the old ones or by what is sent.                                        *)
LEMMA SentCovers ==
  ASSUME IInv, pc \in {"modify", "place"},
         UNCHANGED <<net, trail, runner, runnerMode, basis>>,
         \A t \in stops' : \/ t.price = move
                           \/ \E u \in stops : u.side = t.side /\ u.price = t.price
  PROVE  HeldInv'
PROOF
<1>1. CASE ~basis
  BY <1>1 DEF HeldInv
<1>2. CASE basis
  <2>1. Covers(trail, runner)
    BY <1>2 DEF IInv, HeldInv
  <2>2. move \in Int
    BY MoveIsInt DEF IInv
  <2>3. MoveOf(trail, runner, move)
    BY DEF IInv, MoveInv
  <2>4. \A d \in Sides : ~Tighter(d, move, move)
    BY <2>2 DEF Tighter, Sgn
  <2>5. Dir(net) \in Sides
    BY DEF Dir, Sides
  <2>6. \A t \in stops' : t.side = Closing(Dir(net)) =>
          \/ t.price = move
          \/ \E u \in StopsOf(Dir(net)) : u.price = t.price
    BY DEF StopsOf
  <2>7. CASE runnerMode
    BY <2>1, <2>3, <2>4, <2>5, <2>6, <2>7 DEF HeldInv, Covers, CoversR, CoversT, MoveOf, StopsOf
  <2>8. CASE ~runnerMode
    BY <2>1, <2>3, <2>4, <2>5, <2>6, <2>8 DEF HeldInv, Covers, CoversR, CoversT, MoveOf, StopsOf
  <2> QED BY <2>7, <2>8
<1> QED BY <1>1, <1>2

(* Steps that leave the stops, the managers and the awaits' locals alone.  *)
LEMMA QuietHeld ==
  ASSUME IInv, UNCHANGED <<net, stops, orders, runnerMode, trail, runner, cycle, basis>>
  PROVE  IdInv' /\ MoveInv' /\ HeldInv'
  BY DEF IInv, IdInv, MoveInv, MoveOf, HeldInv, Covers, CoversT, CoversR, StopsOf, cycle

(* Steps after which nothing is left to send or to modify.                 *)
LEMMA DoneHeld ==
  ASSUME IInv, UNCHANGED <<net, stops, orders, runnerMode, trail, runner, basis>>,
         pc' \notin {"find", "modify", "place"}
  PROVE  IdInv' /\ MoveInv' /\ HeldInv'
  BY DEF IInv, IdInv, MoveInv, MoveOf, HeldInv, Covers, CoversT, CoversR, StopsOf

(* Orders that go: what is left is still covered.                          *)
LEMMA FewerHeld ==
  ASSUME IInv, UNCHANGED <<orders, runnerMode, trail, runner, cycle>>, stops' \subseteq stops,
         basis' = FALSE \/ UNCHANGED <<net, basis>>
  PROVE  IdInv' /\ MoveInv' /\ HeldInv'
PROOF
<1>1. IdInv' /\ MoveInv'
  BY DEF IInv, IdInv, MoveInv, MoveOf, cycle
<1>2. CASE basis' = FALSE
  BY <1>1, <1>2 DEF HeldInv
<1>3. CASE UNCHANGED <<net, basis>>
  <2>1. \A d \in Sides : StopsOf(d)' \subseteq StopsOf(d)
    BY DEF StopsOf
  <2>2. Dir(net) \in Sides /\ Dir(net)' = Dir(net)
    BY <1>3 DEF Dir, Sides
  <2>3. StopsOf(Dir(net))' \subseteq StopsOf(Dir(net))
    BY <2>1, <2>2 DEF StopsOf
  <2> HIDE DEF IInv
  <2>4. HeldInv => HeldInv'
    BY <1>3, <2>2, <2>3 DEF HeldInv, Covers, CoversT, CoversR
  <2> QED BY <1>1, <2>4 DEF IInv
<1> QED BY <1>2, <1>3

LEMMA CycleInv ==
  ASSUME IInv, Cycle
  PROVE  IInv'
PROOF
<1> USE DEF IInv, broker, service, cycle, files
<1>1. CASE StartCycle \/ StartSync
  <2>1. TypeOK'
    BY <1>1 DEF StartCycle, StartSync, TypeOK, Points
  <2> QED BY <2>1, <1>1, DoneHeld DEF StartCycle, StartSync
<1>2. CASE FetchReply \/ FetchWithoutPrice \/ SyncFail
  <2>1. live \in [net : Int, avg : Int]
    BY DEF TypeOK
  <2> QED BY <2>1, <1>2, LookFacts DEF FetchReply, FetchWithoutPrice, SyncFail
<1>3. CASE SyncReply
  <2>1. [net |-> net, avg |-> avg] \in [net : Int, avg : Int]
    BY DEF TypeOK
  <2> QED BY <2>1, <1>3, LookFacts DEF SyncReply
<1>4. CASE RegisterReply
  BY <1>4, RegisterFacts DEF RegisterReply, TypeOK, StopsOf, StopOrders
<1>5. CASE RegisterFail
  <2>1. DefaultStop(cur) \in Int
    <3>1. cur.entry \in Int /\ cur.atr \in Nat
      BY DEF TypeOK
    <3>2. cur.entry \div 50 \in Int
      BY <3>1
    <3> QED BY <3>1, <3>2 DEF DefaultStop, Sgn
  <2> QED BY <2>1, <1>5, RegisterFacts DEF RegisterFail
<1>6. CASE FindReply
  <2>1. PICK s \in StopsOf(cur.dir) : oid' = s.id
    BY <1>6 DEF FindReply
  <2>2. s \in stops /\ s \in StopOrders /\ s.side = Closing(cur.dir)
    BY <2>1 DEF StopsOf, TypeOK
  <2>3. TypeOK'
    BY <1>6, <2>1, <2>2 DEF FindReply, TypeOK, Points, StopOrders
  <2>4. IdInv'
    BY <1>6, <2>1, <2>2 DEF FindReply, IdInv
  <2>5. MoveInv' /\ HeldInv'
    BY <1>6 DEF FindReply, MoveInv, MoveOf, HeldInv, Covers, CoversT, CoversR, StopsOf
  <2> QED BY <2>3, <2>4, <2>5
<1>7. CASE FindMiss
  <2>1. cur \in Locals
    BY DEF TypeOK, Locals
  <2>2. /\ UNCHANGED <<broker, live, files, runnerMode, mon, runner, override, sent,
                       basis, restarts, events>>
        /\ misses' \in Nat /\ CycleOK /\ pc' # "modify" /\ pc' # "find"
        /\ trail' \in {trail, None}
        /\ pc' = "place" => UNCHANGED <<trail, cur, move>> /\ ~runnerMode
    <3>1. CASE runnerMode /\ AfterMove(cur) /\ UNCHANGED <<misses, trail>>
      BY <1>7, <2>1, <3>1, LeaveFacts DEF FindMiss, TypeOK
    <3>2. CASE /\ ~runnerMode /\ misses + 1 = 3
               /\ misses' = 3 /\ pc' = "place" /\ UNCHANGED <<trail, cur, move, oid>>
      BY <1>7, <3>2 DEF FindMiss, TypeOK, CycleOK, Points, Locals
    <3>3. CASE /\ ~runnerMode /\ misses + 1 \notin {3, 6}
               /\ misses' = misses + 1 /\ AfterMove(cur) /\ UNCHANGED trail
      BY <1>7, <2>1, <3>3, LeaveFacts DEF FindMiss, TypeOK
    <3>4. CASE /\ ~runnerMode /\ misses + 1 = 6
               /\ misses' = 0 /\ trail' = None /\ AfterMove(cur)
      BY <1>7, <2>1, <3>4, LeaveFacts DEF FindMiss, TypeOK
    <3> QED BY <1>7, <3>1, <3>2, <3>3, <3>4 DEF FindMiss
  <2>3. TypeOK'
    BY <2>2 DEF TypeOK, CycleOK, Locals
  <2>4. IdInv'
    BY <2>2 DEF IdInv
  <2>5. MoveInv'
    BY <1>7, <2>2 DEF FindMiss, MoveInv, MoveOf
  <2>6. HeldInv'
    BY <2>2 DEF HeldInv, Covers, CoversT, CoversR, StopsOf
  <2> QED BY <2>3, <2>4, <2>5, <2>6
<1>8. CASE ModifyReply \/ ModifyFail
  <2>1. /\ pc = "modify" /\ stops' \in {stops, Modified}
        /\ AfterMove(cur)
        /\ UNCHANGED <<net, avg, targets, opens, orders, live, files, runnerMode, mon,
                       trail, runner, override, basis, restarts, events>>
    BY <1>8 DEF ModifyReply, ModifyFail
  <2>2. sent' \in {move, sent} /\ misses' \in {0, misses}
    BY <1>8 DEF ModifyReply, ModifyFail
  <2>3. move \in Int
    BY <2>1, MoveIsInt
  <2>4. cur \in Locals
    BY DEF TypeOK, Locals
  <2>5. CycleOK /\ pc' \in {"idle", "exit", "tp"}
    BY <2>1, <2>4, LeaveFacts
  <2>6. \A t \in stops' : \E u \in stops : /\ t.id = u.id /\ t.side = u.side /\ t \in StopOrders
                                           /\ t.price = move \/ t.price = u.price
    BY <2>1, <2>3, ModifiedFacts DEF TypeOK
  <2>7. TypeOK'
    BY <2>1, <2>2, <2>3, <2>5, <2>6 DEF TypeOK, CycleOK, Locals
  <2>8. IdInv'
    <3>1. \A s, t \in stops' : s.id = t.id => s = t
      <4>1. CASE stops' = stops
        BY <4>1 DEF IdInv
      <4>2. CASE stops' = Modified
        <5>1. ASSUME NEW s \in Modified, NEW t \in Modified, s.id = t.id PROVE s = t
          <6>1. PICK u \in stops : s = [u EXCEPT !.price = IF u.id = oid THEN move ELSE u.price]
            BY DEF Modified
          <6>2. PICK v \in stops : t = [v EXCEPT !.price = IF v.id = oid THEN move ELSE v.price]
            BY DEF Modified
          <6>3. s.id = u.id /\ t.id = v.id
            BY <6>1, <6>2 DEF TypeOK, StopOrders
          <6>4. u = v
            BY <6>3, <5>1 DEF IdInv
          <6> QED BY <6>1, <6>2, <6>4
        <5> QED BY <5>1, <4>2
      <4> QED BY <2>1, <4>1, <4>2
    <3>2. \A s \in stops' : s.id <= orders'
      BY <2>1, <2>6 DEF IdInv
    <3> QED BY <2>5, <3>1, <3>2 DEF IdInv
  <2>9. MoveInv'
    BY <2>5 DEF MoveInv
  <2>10. HeldInv'
    BY <2>1, <2>6, SentCovers
  <2> QED BY <2>7, <2>8, <2>9, <2>10
<1>9. CASE PlaceReply \/ PlaceFail
  <2> DEFINE new == [id |-> orders + 1, side |-> Closing(cur.dir), price |-> move, link |-> 0]
  <2>1. /\ pc = "place" /\ AfterMove(cur)
        /\ \/ UNCHANGED <<stops, orders>>
           \/ stops' = stops \cup {new} /\ orders' = orders + 1
        /\ UNCHANGED <<net, avg, targets, opens, live, files, runnerMode, mon, trail,
                       runner, override, basis, restarts, events>>
    BY <1>9 DEF PlaceReply, PlaceFail, Placed
  <2>2. sent' \in {move, sent} /\ misses' \in {0, misses}
    BY <1>9 DEF PlaceReply, PlaceFail
  <2>3. move \in Int
    BY <2>1, MoveIsInt
  <2>4. cur \in Locals
    BY DEF TypeOK, Locals
  <2>5. CycleOK /\ pc' \in {"idle", "exit", "tp"}
    BY <2>1, <2>4, LeaveFacts
  <2>6. new \in StopOrders /\ new.id = orders + 1 /\ new.price = move
    BY <2>3 DEF TypeOK, StopOrders, Closing
  <2> HIDE DEF new
  <2>7. TypeOK'
    BY <2>1, <2>2, <2>3, <2>5, <2>6 DEF TypeOK, CycleOK, Locals
  <2>8. IdInv'
    BY <2>1, <2>5, <2>6 DEF IdInv, TypeOK, StopOrders
  <2>9. MoveInv'
    BY <2>5 DEF MoveInv
  <2>10. HeldInv'
    BY <2>1, <2>6, SentCovers
  <2> QED BY <2>7, <2>8, <2>9, <2>10
<1>10. CASE CancelTarget
  <2>1. CycleOK /\ pc' \in {"idle", "exit"}
    BY <1>10, LeaveFacts DEF CancelTarget
  <2>2. targets' \subseteq targets
    BY <1>10 DEF CancelTarget
  <2>3. TypeOK'
    BY <1>10, <2>1, <2>2 DEF CancelTarget, TypeOK, CycleOK, Locals
  <2> QED BY <1>10, <2>1, <2>3, DoneHeld DEF CancelTarget
<1>11. CASE ExitReply
  <2>1. CycleOK /\ pc' = "idle"
    BY <1>11, LeaveFacts DEF ExitReply
  <2>2. TypeOK'
    BY <1>11, <2>1, FalseIsBoolean DEF ExitReply, TypeOK, CycleOK, Locals
  <2>3. CASE basis' = FALSE
    BY <1>11, <2>1, <2>2, <2>3 DEF ExitReply, IdInv, MoveInv, HeldInv
  <2>4. CASE UNCHANGED <<net, avg, basis>>
    BY <1>11, <2>1, <2>2, <2>4, DoneHeld DEF ExitReply
  <2> QED BY <1>11, <2>3, <2>4 DEF ExitReply
<1> QED
  BY <1>1, <1>2, <1>3, <1>4, <1>5, <1>6, <1>7, <1>8, <1>9, <1>10, <1>11 DEF Cycle

LEMMA EnvironmentInv ==
  ASSUME IInv, Environment
  PROVE  IInv'
PROOF
<1> USE DEF IInv
<1>1. CASE OpenBracket
  <2>1. PICK b \in Brackets, slip \in Slips :
          /\ net' = Sgn(b.dir) /\ avg' = b.entry + slip
          /\ stops' = stops \cup {[id |-> orders + 1, side |-> Closing(b.dir),
                                   price |-> b.stop, link |-> opens + 1]}
          /\ targets' = targets \cup {[link |-> opens + 1, side |-> Closing(b.dir)]}
    BY <1>1 DEF OpenBracket
  <2> DEFINE new == [id |-> orders + 1, side |-> Closing(b.dir),
                     price |-> b.stop, link |-> opens + 1]
             target == [link |-> opens + 1, side |-> Closing(b.dir)]
  <2>2. /\ opens' = opens + 1 /\ orders' = orders + 1 /\ basis' = FALSE
        /\ UNCHANGED <<live, files, runnerMode, service, cycle, restarts, events>>
        /\ stops' = stops \cup {new} /\ targets' = targets \cup {target}
    BY <1>1, <2>1 DEF OpenBracket
  <2>3. b.dir \in Sides /\ b.entry \in Int /\ b.stop \in Int /\ slip \in Int
    BY ParametersAssumption
  <2>4. /\ new \in StopOrders /\ new.id = orders + 1
        /\ target \in [link : Nat, side : {"Sell", "Buy"}]
        /\ net' \in Int /\ avg' \in Int
    BY <2>1, <2>3 DEF TypeOK, StopOrders, Closing, Sgn
  <2> HIDE DEF new, target
  <2>5. TypeOK'
    BY <2>2, <2>4, FalseIsBoolean DEF TypeOK, service, cycle, files
  <2>6. IdInv'
    BY <2>2, <2>4 DEF IdInv, TypeOK, StopOrders, cycle
  <2>7. MoveInv' /\ HeldInv'
    BY <2>2 DEF MoveInv, MoveOf, HeldInv, service, cycle
  <2> QED BY <2>5, <2>6, <2>7
<1>2. CASE Deliver \/ PartialFill
  <2>1. /\ UNCHANGED <<net, stops, targets, opens, orders, files, runnerMode, service, cycle,
                       basis, restarts>>
        /\ events' \in {events, events + 1} /\ avg' \in {avg, avg + 1}
    BY <1>2 DEF Deliver, PartialFill, broker
  <2>2. live' \in [net : Int, avg : Int]
    BY <1>2 DEF Deliver, PartialFill, TypeOK
  <2>3. TypeOK'
    BY <2>1, <2>2 DEF TypeOK, files, service, cycle
  <2> QED BY <2>1, <2>3, QuietHeld DEF service
<1>3. CASE PostOverride \/ DeleteOverride \/ OverrideExpires
  <2>1. /\ UNCHANGED <<broker, live, runnerMode, mon, trail, runner, sent, misses,
                       cycle, basis, restarts>>
        /\ events' \in {events, events + 1}
        /\ overrideFile' \in {overrideFile, None} \cup Overrides
    BY <1>3 DEF PostOverride, DeleteOverride, OverrideExpires, service, files
  <2>2. override' \in OverrideStates \cup {None}
    <3>1. CASE OverrideExpires
      <4>1. override \in OverrideStates
        BY <3>1 DEF OverrideExpires, TypeOK
      <4>2. [override EXCEPT !.ttl = "over"] \in OverrideStates
        BY <4>1 DEF OverrideStates
      <4> QED BY <3>1, <4>2 DEF OverrideExpires
    <3>2. CASE PostOverride \/ DeleteOverride
      BY <3>2 DEF PostOverride, DeleteOverride, service, TypeOK
    <3> QED BY <1>3, <3>1, <3>2
  <2>3. TypeOK'
    <3>1. overrideFile' \in OverrideRequests \cup {None} /\ events' \in Nat
      BY <2>1, ParametersAssumption DEF TypeOK
    <3>3. clearFlag' \in BOOLEAN
      <4>1. clearFlag \in BOOLEAN
        BY DEF TypeOK
      <4> QED BY <1>3, <4>1, Zenon DEF PostOverride, DeleteOverride, OverrideExpires, files
    <3>2. UNCHANGED <<net, avg, stops, targets, opens, orders, live, runnerMode, mon,
                      trail, runner, sent, misses, pc, cur, move, oid, basis, restarts>>
      BY <2>1 DEF broker, cycle
    <3> QED BY <2>2, <3>1, <3>2, <3>3 DEF TypeOK
  <2> QED BY <2>1, <2>3, QuietHeld DEF broker
<1>4. CASE StopFires \/ TargetFills
  <2>1. PICK side \in {"Sell", "Buy"}, price \in Int, link \in Nat, rest \in SUBSET stops :
          Execute(side, price, link, rest)
    BY <1>4, ParametersAssumption DEF StopFires, TargetFills, TypeOK, StopOrders
  <2>2. /\ net' = net + Delta(side) /\ avg' \in {0, price, avg}
        /\ stops' \subseteq stops /\ targets' \subseteq targets /\ basis' = FALSE
        /\ UNCHANGED <<opens, orders, live, files, runnerMode, service, cycle,
                       restarts, events>>
    BY <2>1 DEF Execute
  <2>3. TypeOK'
    BY <2>2, FalseIsBoolean DEF TypeOK, Delta, files, service, cycle
  <2> QED BY <2>2, <2>3, FewerHeld DEF service
<1>5. CASE StopLost
  <2>1. stops' \subseteq stops
    BY <1>5 DEF StopLost
  <2>2. TypeOK'
    BY <1>5, <2>1 DEF StopLost, TypeOK, files, service, cycle
  <2> QED BY <1>5, <2>1, <2>2, FewerHeld DEF StopLost, service
<1>6. CASE Restart
  <2>1. CycleOK /\ pc' = "idle"
    BY <1>6, LeaveFacts DEF Restart
  <2>2. trail' \in TrailStates \cup {None} /\ runner' \in RunnerStates \cup {None}
    BY <1>6 DEF Restart
  <2>3. live' \in [net : Int, avg : Int]
    BY <1>6 DEF Restart, Flat
  <2>4. TypeOK'
    BY <1>6, <2>1, <2>2, <2>3, FalseIsBoolean DEF Restart, TypeOK, CycleOK, Locals, broker, files
  <2>5. /\ UNCHANGED <<stops, orders>> /\ basis' = FALSE
        /\ pc' \notin {"find", "modify", "place"}
    BY <1>6, <2>1 DEF Restart, broker
  <2> QED BY <2>4, <2>5 DEF IdInv, MoveInv, HeldInv
<1> QED
  BY <1>1, <1>2, <1>3, <1>4, <1>5, <1>6 DEF Environment

LEMMA InitInv == Init => IInv
PROOF
<1> SUFFICES ASSUME Init PROVE IInv
  OBVIOUS
<1>1. NoCur \in Locals /\ Flat \in [net : Int, avg : Int]
  BY DEF NoCur, Flat, Locals, Sides
<1>2. trail \in TrailStates \cup {None} /\ runner \in RunnerStates \cup {None}
  BY DEF Init
<1>3. TypeOK
  <2>1. clearFlag \in BOOLEAN /\ runnerMode \in BOOLEAN /\ basis \in BOOLEAN
    BY ParametersAssumption, Zenon DEF Init
  <2> QED BY <1>1, <1>2, <2>1 DEF Init, TypeOK, Locals, Points
<1> QED BY <1>3 DEF Init, IInv, IdInv, MoveInv, HeldInv

LEMMA StepInv == IInv /\ [Next]_vars => IInv'
PROOF
<1> SUFFICES ASSUME IInv, [Next]_vars PROVE IInv'
  OBVIOUS
<1>1. CASE Next
  BY <1>1, CycleInv, EnvironmentInv DEF Next
<1>2. CASE UNCHANGED vars
  <2>1. TypeOK'
    BY <1>2 DEF IInv, TypeOK, vars, broker, files, service, cycle
  <2> QED BY <1>2, <2>1, QuietHeld DEF IInv, vars, broker, files, service, cycle
<1> QED BY <1>1, <1>2

(* The managers, the cycle and the broker only ever hold what the code can *)
(* hold: in particular a stop that is sent is always a number, with or     *)
(* without an ATR, an override or an answer of the broker                  *)
(* (position_monitor, service._find_initial_stop_from_broker).             *)
THEOREM TypeCorrect == Spec => []TypeOK
PROOF
<1>1. IInv => TypeOK
  BY DEF IInv
<1> QED BY <1>1, InitInv, StepInv, PTL DEF Spec

(* Only a modification changes the price of a working stop.                *)
LEMMA OthersKeepPrices ==
  ASSUME IInv, [Next]_vars, ~ModifyReply, ~ModifyFail
  PROVE  ~Loosens
PROOF
<1>1. ASSUME NEW s \in stops, NEW t \in stops', s.id = t.id
      PROVE  s.price = t.price
  <2>1. CASE stops' \subseteq stops
    BY <1>1, <2>1 DEF IInv, IdInv
  <2>2. CASE \E new \in StopOrders : new.id = orders + 1 /\ stops' \subseteq stops \cup {new}
    BY <1>1, <2>2 DEF IInv, IdInv, TypeOK, StopOrders
  <2>3. CASE UNCHANGED vars
    BY <2>1, <2>3 DEF vars, broker
  <2>4. CASE Next
    <3>1. CASE OpenBracket
      <4>1. PICK b \in Brackets :
              stops' = stops \cup {[id |-> orders + 1, side |-> Closing(b.dir),
                                    price |-> b.stop, link |-> opens + 1]}
        BY <3>1 DEF OpenBracket
      <4>2. [id |-> orders + 1, side |-> Closing(b.dir), price |-> b.stop, link |-> opens + 1]
              \in StopOrders
        BY ParametersAssumption DEF IInv, TypeOK, StopOrders, Closing
      <4> QED BY <4>1, <4>2, <2>2
    <3>2. CASE PlaceReply \/ PlaceFail
      <4>1. move \in Int
        BY <3>2, MoveIsInt DEF IInv, PlaceReply, PlaceFail
      <4>2. [id |-> orders + 1, side |-> Closing(cur.dir), price |-> move, link |-> 0]
              \in StopOrders
        BY <4>1 DEF IInv, TypeOK, StopOrders, Closing
      <4>3. stops' = stops \/ stops' = Placed
        BY <3>2 DEF PlaceReply, PlaceFail
      <4> QED BY <4>2, <4>3, <2>1, <2>2 DEF Placed
    <3>3. CASE StopFires \/ TargetFills \/ StopLost
      BY <3>3, <2>1 DEF StopFires, TargetFills, StopLost, Execute
    <3>4. CASE ~(OpenBracket \/ PlaceReply \/ PlaceFail \/ StopFires \/ TargetFills \/ StopLost)
      <4>1. stops' = stops
        BY <3>4, <2>4 DEF Next, Cycle, Environment, StartCycle, FetchReply, FetchWithoutPrice,
             StartSync, SyncReply, SyncFail, RegisterReply, RegisterFail, Register, FindReply,
             FindMiss, CancelTarget, ExitReply, PartialFill, Deliver,
             PostOverride, DeleteOverride, OverrideExpires, Restart, broker
      <4> QED BY <4>1, <2>1
    <3> QED BY <3>1, <3>2, <3>3, <3>4
  <2> QED BY <2>3, <2>4
<1>2. \A s \in stops : s.price \in Int
  BY DEF IInv, TypeOK, StopOrders
<1> QED BY <1>1, <1>2 DEF Loosens, StopsOf, Tighter, Sgn

(* What a modification sends is not behind any stop of the position while  *)
(* the registration is sound.                                              *)
LEMMA ModifyRatchets ==
  ASSUME IInv, ModifyReply \/ ModifyFail, Loosens
  PROVE  ~basis
PROOF
<1> SUFFICES ASSUME basis PROVE FALSE
  OBVIOUS
<1>1. PICK s \in StopsOf(Dir(net)), t \in stops' :
        s.id = t.id /\ Tighter(Dir(net), s.price, t.price)
  BY DEF Loosens
<1>2. pc = "modify" /\ stops' \in {stops, Modified}
  BY DEF ModifyReply, ModifyFail
<1>3. move \in Int
  BY <1>2, MoveIsInt DEF IInv
<1>4. \E u \in stops : t.id = u.id /\ (t.price = move \/ t.price = u.price)
  BY <1>1, <1>2, <1>3, ModifiedFacts DEF IInv
<1>5. t.price = move \/ t.price = s.price
  BY <1>1, <1>4 DEF IInv, IdInv, StopsOf
<1>6. s.price \in Int
  BY <1>1 DEF IInv, TypeOK, StopOrders, StopsOf
<1>7. ~Tighter(Dir(net), s.price, move)
  BY <1>1, <1>2, MoveCovers
<1> QED BY <1>1, <1>5, <1>6, <1>7 DEF Tighter, Sgn

(* The ratchet of the broker's stop: between a registration that saw the   *)
(* working stop and the next change of the position, whatever the prices,  *)
(* the overrides, the failures and the phases, the stop is only moved      *)
(* towards the market (position_monitor, check_and_update,                 *)
(* PartialRunnerState.update).                                             *)
THEOREM Ratchet == Spec => BrokerRatchet
PROOF
<1>1. IInv /\ [Next]_vars => [Loosens => ~basis]_vars
  BY OthersKeepPrices, ModifyRatchets
<1> QED BY <1>1, InitInv, StepInv, PTL DEF Spec, BrokerRatchet

-----------------------------------------------------------------------------
(* What the managers themselves hold, whether or not the registration saw  *)
(* the working stop.                                                       *)

(* A manager that is still there after a step that registers nothing has   *)
(* the direction it had, and what it asks for is not farther from the      *)
(* market (the ratchet of check_and_update, trailing_stop.py:11, and the   *)
(* phases of PartialRunnerState.update).                                   *)
Ratchets ==
  /\ trail # None /\ trail' # None =>
       trail'.dir = trail.dir /\ ~Tighter(trail.dir, trail.stop, trail'.stop)
  /\ runner # None /\ runner' # None =>
       runner'.dir = runner.dir /\ ~Tighter(runner.dir, Level(runner), Level(runner'))
ManagersRatchet == [][pc # "register" => Ratchets]_vars

LEMMA AdvanceRatchets ==
  ASSUME TrailAdvance(trail, trail'), RunnerAdvance(runner, runner')
  PROVE  Ratchets
  BY DEF Ratchets, TrailAdvance, RunnerAdvance

LEMMA SameRatchets ==
  ASSUME TypeOK, trail' = trail \/ trail' = None, runner' = runner \/ runner' = None
  PROVE  Ratchets
PROOF
<1>1. trail # None => ~Tighter(trail.dir, trail.stop, trail.stop)
  BY DEF TypeOK, TrailStates, Tighter, Sgn
<1>2. runner # None => ~Tighter(runner.dir, Level(runner), Level(runner))
  BY DEF TypeOK, RunnerStates, Tighter, Sgn, Level, BreakEven
<1> QED BY <1>1, <1>2 DEF Ratchets

(* A look at the position advances the managers, leaves them or ends them. *)
LEMMA LookRatchets ==
  ASSUME TypeOK, NEW l \in [net : Int, avg : Int], Look(l) \/ LookWithoutPrice(l),
         runnerMode' = runnerMode
  PROVE  Ratchets
PROOF
<1>1. CASE LookWithoutPrice(l)
  BY <1>1, SameRatchets DEF LookWithoutPrice, service
<1>2. CASE Look(l) /\ Position(l) = None
  BY <1>2, SameRatchets DEF Look, CleanUp
<1>3. CASE Look(l) /\ Position(l) # None
  <2> DEFINE p == Position(l)
  <2>1. PICK price \in Prices, atr \in Atrs :
          LET c == [dir |-> p.dir, entry |-> p.entry,
                    price |-> price, atr |-> atr, next |-> "exit"]
          IN \/ UNCHANGED <<trail, runner>>
             \/ Track(c, trail, runner)
    BY <1>3 DEF Look
  <2> DEFINE c == [dir |-> p.dir, entry |-> p.entry,
                   price |-> price, atr |-> atr, next |-> "exit"]
  <2>2. p.dir \in Sides /\ p.entry \in Int
    BY <1>3 DEF Position, Sides, Dir
  <2>3. c \in Locals
    BY <2>2, ParametersAssumption DEF Locals
  <2>4. UNCHANGED <<trail, runner>> \/ Track(c, trail, runner)
    BY <2>1
  <2>5. trail \in TrailStates \cup {None} /\ runner \in RunnerStates \cup {None}
    BY DEF TypeOK
  <2> HIDE DEF p, c
  <2>6. CASE UNCHANGED <<trail, runner>>
    BY <2>6, SameRatchets
  <2>7. CASE Track(c, trail, runner)
    <3>1. TrailAdvance(trail, trail') /\ RunnerAdvance(runner, runner')
      BY <2>3, <2>5, <2>7, TrackFacts
    <3> QED BY <3>1, AdvanceRatchets
  <2> QED BY <2>4, <2>6, <2>7
<1> QED BY <1>1, <1>2, <1>3

LEMMA StepRatchets ==
  ASSUME TypeOK, [Next]_vars, pc # "register"
  PROVE  Ratchets
PROOF
<1>1. CASE FetchReply \/ SyncReply \/ SyncFail
  <2>1. live \in [net : Int, avg : Int] /\ [net |-> net, avg |-> avg] \in [net : Int, avg : Int]
    BY DEF TypeOK
  <2>2. /\ runnerMode' = runnerMode
        /\ \E l \in [net : Int, avg : Int] : Look(l) \/ LookWithoutPrice(l)
    BY <1>1, <2>1 DEF FetchReply, SyncReply, SyncFail
  <2> QED BY <2>2, LookRatchets
<1>2. CASE ~(FetchReply \/ SyncReply \/ SyncFail)
  <2>1. /\ trail' = trail \/ trail' = None
        /\ runner' = runner \/ runner' = None
    <3>1. CASE UNCHANGED vars
      BY <3>1 DEF vars, service
    <3>2. CASE Cycle
      BY <3>2, <1>2 DEF Cycle, StartCycle, FetchWithoutPrice, LookWithoutPrice, StartSync,
           RegisterReply, RegisterFail, Register, FindReply, FindMiss, ModifyReply, ModifyFail,
           PlaceReply, PlaceFail, CancelTarget, ExitReply, service
    <3>3. CASE Environment
      BY <3>3 DEF Environment, OpenBracket, StopFires, TargetFills, Execute, PartialFill,
           StopLost, Deliver, PostOverride, DeleteOverride, OverrideExpires, Restart, service
    <3> QED BY <3>1, <3>2, <3>3 DEF Next
  <2> QED BY <2>1, SameRatchets
<1> QED BY <1>1, <1>2

(* The managers' own ratchet holds of every registration, sound or not:    *)
(* late prices, overrides, regimes, failed modifications and the retries   *)
(* of position_monitor never move what a manager asks for away from the    *)
(* market; only another registration, the end of the position, six misses  *)
(* or a restart gives a stop up.                                           *)
THEOREM ManagersHold == Spec => ManagersRatchet
PROOF
<1>1. IInv /\ [Next]_vars => [pc # "register" => Ratchets]_vars
  BY StepRatchets DEF IInv
<1> QED BY <1>1, InitInv, StepInv, PTL DEF Spec, ManagersRatchet

=============================================================================
