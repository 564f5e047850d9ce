------------------------ MODULE TradingBreaker_proofs -------------------------
(***************************************************************************)
(* Proofs about TradingBreaker.  Each property rests on a relation between *)
(* the breaker and what it was told that holds of the live object and of   *)
(* the snapshot in state.json alike: saving copies it to the disk, and a   *)
(* restart, which knows nothing but the snapshot, brings it back.          *)
(***************************************************************************)
EXTENDS TradingBreaker, TLAPS

(* What lock l guarantees when it was last shown s and at best t.          *)
Covers(l, s, t) ==
  l.state = "open" =>
    /\ l.hwm >= t
    /\ t >= Activation => l.floor # None /\ l.floor >= FloorOf(t) /\ 4 * s > l.floor

Unused(t) == "lock" \notin config.on => t = 0

LockInv ==
  /\ phase # "down" => Covers(lock, seen, top) /\ Unused(top)
  /\ disk # None => Covers(disk.lock, disk.seen, disk.top) /\ Unused(disk.top)

(* An open lock claims no more than what it was shown: its mark is the     *)
(* best P&L t, its floor the one of t.                                     *)
Earned(l, t) ==
  l.state = "open" => l.hwm = t /\ (l.floor # None => t >= Activation /\ l.floor = FloorOf(t))

ShownInv ==
  /\ phase # "down" => Earned(lock, top)
  /\ disk # None => Earned(disk.lock, disk.top)

(* Cooldown c upholds n ticks, whatever trades are won.                    *)
Upholds(c, n) == n > 0 => c.left >= n /\ c.reason \notin Winnable

BindInv ==
  /\ phase # "down" => \/ Upholds(cool, binding)
                       \/ armed = "no"
                       \/ phase \in {"boot", "flags", "stop"} /\ kill = "fresh"
  /\ disk # None => Upholds(disk.cool, disk.binding)
  /\ phase = "down" /\ kill # "fresh" => binding <= SavedBinding
  /\ verdict = "order" /\ config.mode = "enforce" => binding = 0

ToldInv ==
  /\ phase # "down" => told = pnl.session
  /\ disk # None => disk.told = disk.pnl.session
  /\ verdict = "order" /\ config.mode = "enforce" => told > -MaxDrawdown

-------------------------------------------------------------------------------
(* Types of what the operators return.                                     *)

LEMMA FloorNat == ASSUME NEW h \in Nat PROVE FloorOf(h) \in Nat
PROOF
<1>1. h * Kept \in Nat
  BY LockAssumption
<1> QED BY <1>1, LockAssumption DEF FloorOf, MaxOf

LEMMA FloorMonotone ==
  ASSUME NEW h \in Nat, NEW t \in Nat, h >= t
  PROVE  FloorOf(h) >= FloorOf(t)
PROOF
<1>1. h * Kept >= t * Kept
  <2>1. Kept = 0 \/ Kept = 1 \/ Kept = 2 \/ Kept = 3 \/ Kept = 4
    BY LockAssumption
  <2> QED BY <2>1
<1>2. h * Kept \in Nat /\ t * Kept \in Nat
  BY LockAssumption
<1> QED BY <1>1, <1>2, LockAssumption DEF FloorOf, MaxOf

LEMMA RaisedType == ASSUME TypeOK, NEW p \in Int PROVE Raised(p) \in LockStates
PROOF
<1>1. MaxOf(lock.hwm, p) \in Nat
  BY DEF TypeOK, LockStates, MaxOf
<1>2. FloorOf(MaxOf(lock.hwm, p)) \in Nat
  BY <1>1, FloorNat
<1> QED BY <1>1, <1>2 DEF TypeOK, LockStates, Raised

LEMMA CooldownFacts ==
  /\ \A r \in Fixed : Cooldowns[r] \in Nat
  /\ Fixed \subseteq Reasons
  /\ "session_profit_lock" \in Fixed /\ "forced" \in Fixed /\ "equity_curve_halt" \in Fixed
  BY LimitsAssumption DEF Fixed, Reasons

LEMMA ClockFacts == ASSUME TypeOK PROVE ToReset \in Nat /\ ToMidnight \in Nat
  BY LimitsAssumption DEF TypeOK, ToReset, ToMidnight

LEMMA HydratedType == ASSUME TypeOK, NEW h \in Int PROVE Hydrated(h) \in CoolStates
  BY ClockFacts DEF Hydrated, Cooldown, NoCooldown, CoolStates, Reasons

LEMMA CoolerType == ASSUME NEW c \in CoolStates PROVE Cooler(c) \in CoolStates
  BY DEF Cooler, CoolStates, NoCooldown

LEMMA OlderType ==
  ASSUME NEW d \in Snapshots \cup {None}
  PROVE  Older(d) \in Snapshots \cup {None}
PROOF
<1>1. CASE d = None
  BY <1>1 DEF Older
<1>2. CASE d # None
  <2>1. d \in Snapshots
    BY <1>2
  <2>2. Cooler(d.cool) \in CoolStates
    BY <2>1, CoolerType DEF Snapshots
  <2>3. Less(d.binding) \in Nat
    BY <2>1 DEF Snapshots, Less, MaxOf
  <2> QED BY <1>2, <2>1, <2>2, <2>3 DEF Older, Snapshots
<1> QED BY <1>1, <1>2

LEMMA SavedType == ASSUME TypeOK PROVE SavedBinding \in Nat
  BY DEF TypeOK, SavedBinding, Snapshots

LEMMA HeldType == ASSUME TypeOK PROVE Held \in Nat
  BY DEF TypeOK, CoolStates, Held, MinOf

LEMMA PersistedType == ASSUME TypeOK PROVE Persisted \in Snapshots
  BY HeldType DEF TypeOK, Persisted, Snapshots

-------------------------------------------------------------------------------
(* Type correctness, one lemma per action with something to show.          *)

LEMMA InitType == Init => TypeOK
PROOF
<1> SUFFICES ASSUME Init PROVE TypeOK
  OBVIOUS
<1>1. pnl \in PnlStates /\ cool \in CoolStates /\ lock \in LockStates
  BY DEF Init, FreshPnl, NoCooldown, FreshLock, PnlStates, CoolStates, LockStates
<1>2. hour \in 0..(Day - 1) /\ broker \in PnLs
  BY LimitsAssumption, DataAssumption DEF Init
<1> QED BY <1>1, <1>2 DEF Init, TypeOK

LEMMA LockStep ==
  ASSUME TypeOK, NEW p \in Int, UpdateLock(p)
  PROVE  lock' \in LockStates /\ cool' \in CoolStates /\ binding' \in Nat
         /\ kill' \in {"absent", "fresh", "stale"}
PROOF
<1>1. CASE UNCHANGED <<lock, cool, binding, kill>>
  BY <1>1 DEF TypeOK
<1>2. CASE Trip(Raised(p))
  <2>1. Raised(p) \in LockStates
    BY RaisedType
  <2>2. lock' \in LockStates
    BY <1>2, <2>1 DEF Trip, LockStates
  <2>3. cool' \in CoolStates /\ binding' \in Nat
    BY <1>2, CooldownFacts DEF Trip, Cooldown, CoolStates
  <2> QED BY <1>2, <2>2, <2>3 DEF Trip, TypeOK
<1>3. CASE lock' = Raised(p) /\ UNCHANGED <<cool, binding, kill>>
  BY <1>3, RaisedType DEF TypeOK
<1> QED BY <1>1, <1>2, <1>3 DEF UpdateLock

LEMMA PollType == ASSUME TypeOK, Poll PROVE TypeOK'
PROOF
<1>1. CASE SyncBrokerPnl
  <2>1. broker \in Int
    BY DataAssumption DEF TypeOK
  <2>2. pnl' \in PnlStates /\ seen' \in Int /\ told' \in Int /\ peak' \in Int /\ top' \in Nat
    BY <1>1, <2>1 DEF SyncBrokerPnl, PnlStates, TypeOK, MaxOf
  <2>3. lock' \in LockStates /\ cool' \in CoolStates /\ binding' \in Nat
        /\ kill' \in {"absent", "fresh", "stale"}
    BY <1>1, <2>1, LockStep DEF SyncBrokerPnl
  <2> QED BY <2>2, <2>3 DEF Poll, TypeOK
<1>2. CASE UNCHANGED <<pnl, lock, cool, kill, ghosts, peak>>
  BY <1>2 DEF Poll, TypeOK, ghosts
<1> QED BY <1>1, <1>2 DEF Poll

LEMMA SignalType == ASSUME TypeOK, Signal PROVE TypeOK'
PROOF
<1>1. verdict' \in {"none", "order", "idle"}
  BY DEF Signal, CooldownBlocks, TierBlocks, CheckBlocks, FilterBlocks, EquityBlocks, Allows, Outcome
<1>2. cool' \in CoolStates
  <2>1. CASE UNCHANGED cool
    BY <2>1 DEF TypeOK
  <2>2. CASE TierBlocks
    <3>1. PICK t \in Tiers :
            \/ cool' = Cooldown(t.ticks, "tiered_loss_halt")
            \/ cool' = Cooldown(MaxOf(t.ticks, SessionHalt), "tiered_loss_halt")
      BY <2>2 DEF TierBlocks, TopTier, Reached
    <3>2. t.ticks \in Nat /\ MaxOf(t.ticks, SessionHalt) \in Nat
      BY DataAssumption, LimitsAssumption DEF MaxOf
    <3> QED BY <3>1, <3>2 DEF Cooldown, CoolStates, Reasons
  <2>3. CASE CheckBlocks
    <3>1. PICK i \in 1..Len(HardChecks) : cool' = Cooldown(TicksOf(HardChecks[i]), HardChecks[i])
      BY <2>3 DEF CheckBlocks
    <3>2. i \in 1..5
      BY DEF HardChecks
    <3>3. HardChecks[i] \in Fixed \cup {"daily_drawdown", "daily_profit_cap"}
      BY <3>2 DEF HardChecks, Fixed
    <3>4. TicksOf(HardChecks[i]) \in Nat
      BY <3>3, ClockFacts, CooldownFacts DEF TicksOf
    <3>5. HardChecks[i] \in Reasons
      BY <3>3, CooldownFacts DEF Reasons
    <3> QED BY <3>1, <3>4, <3>5 DEF Cooldown, CoolStates
  <2>4. CASE EquityBlocks
    BY <2>4, CooldownFacts DEF EquityBlocks, Cooldown, CoolStates
  <2> QED BY <2>1, <2>2, <2>3, <2>4 DEF Signal, CooldownBlocks, FilterBlocks, Allows
<1> QED BY <1>1, <1>2 DEF Signal, TypeOK, ghosts

LEMMA SaveType == ASSUME TypeOK, Save PROVE TypeOK'
PROOF
<1>1. disk' \in Snapshots \cup {None}
  BY PersistedType DEF Save, TypeOK
<1>2. events' \in Nat
  BY DEF Save, Event, TypeOK
<1> QED BY <1>1, <1>2 DEF Save, TypeOK, breaker, ghosts

LEMMA CrashType == ASSUME TypeOK, Crash PROVE TypeOK'
PROOF
<1>1. events' \in Nat /\ binding' \in Nat
  BY SavedType DEF Crash, Event, TypeOK
<1> QED BY <1>1
  DEF Crash, TypeOK, FreshPnl, FreshLock, NoCooldown, PnlStates, CoolStates, LockStates

LEMMA StartType == ASSUME TypeOK, Start PROVE TypeOK'
PROOF
<1>1. PICK h \in {0, broker} : Restore(h) \/ StartEmpty(h)
  BY DEF Start
<1>2. h \in Int /\ Hydrated(h) \in CoolStates
  BY <1>1, DataAssumption, HydratedType DEF TypeOK
<1>3. CASE Restore(h)
  <2>1. disk \in Snapshots
    BY <1>3 DEF Restore, TypeOK
  <2>2. pnl' \in PnlStates /\ cool' \in CoolStates /\ lock' \in LockStates
    BY <1>2, <1>3, <2>1 DEF Restore, RestoredPnl, RestoredCool, Snapshots, PnlStates
  <2>3. losses' \in Nat /\ seen' \in Int /\ top' \in Nat /\ told' \in Int /\ binding' \in Nat
    BY <1>3, <2>1 DEF Restore, Snapshots, TypeOK
  <2> QED BY <2>2, <2>3 DEF Start, TypeOK
<1>4. CASE StartEmpty(h)
  <2>1. pnl' \in PnlStates /\ cool' \in CoolStates /\ lock' \in LockStates
    BY <1>2, <1>4 DEF StartEmpty, PnlStates, FreshLock, LockStates
  <2>2. losses' \in Nat /\ seen' \in Int /\ top' \in Nat /\ told' \in Int /\ binding' \in Nat
    BY <1>4 DEF StartEmpty, TypeOK
  <2> QED BY <2>1, <2>2 DEF Start, TypeOK
<1> QED BY <1>1, <1>3, <1>4

LEMMA RecordType == ASSUME TypeOK, NEW p \in Results, RecordTradeResult(p) PROVE TypeOK'
PROOF
<1>1. p \in Int
  BY DataAssumption
<1>2. pnl' \in PnlStates /\ told' \in Int /\ losses' \in Nat
  BY <1>1 DEF RecordTradeResult, TypeOK, PnlStates
<1>3. recent' \in Seq({"win", "loss"})
  <2> DEFINE r == IF p > 0 THEN "win" ELSE "loss"
             s == Append(recent, r)
  <2>1. r \in {"win", "loss"}
    OBVIOUS
  <2> HIDE DEF r
  <2>2. s \in Seq({"win", "loss"}) /\ s # <<>>
    BY <2>1 DEF TypeOK
  <2>3. Tail(s) \in Seq({"win", "loss"})
    BY <2>2
  <2>4. recent' = IF Len(s) > 2 * Window THEN Tail(s) ELSE s
    BY DEF RecordTradeResult, r
  <2> QED BY <2>2, <2>3, <2>4
<1>4. cool' \in CoolStates
  BY DEF RecordTradeResult, TypeOK, NoCooldown, CoolStates
<1> QED BY <1>2, <1>3, <1>4 DEF RecordTradeResult, Called, Event, TypeOK

LEMMA ResetType == ASSUME TypeOK, NEW daily \in BOOLEAN, Reset(daily) PROVE TypeOK'
PROOF
<1>1. pnl' \in PnlStates /\ lock' \in LockStates
  BY DEF Reset, TypeOK, PnlStates, FreshLock, LockStates
<1> QED BY <1>1 DEF Reset, Called, Event, TypeOK

LEMMA ForceType == ASSUME TypeOK, ForceCooldown PROVE TypeOK'
PROOF
<1>1. cool' \in CoolStates /\ binding' \in Nat
  BY CooldownFacts DEF ForceCooldown, TypeOK, Cooldown, CoolStates, MinOf
<1> QED BY <1>1 DEF ForceCooldown, Called, Event, TypeOK

LEMMA ArmType == ASSUME TypeOK, Arm \/ Disarm PROVE TypeOK'
PROOF
<1>1. disk' \in Snapshots \cup {None}
  BY PersistedType DEF Arm, Disarm, TypeOK
<1>2. CASE Arm
  BY <1>1, <1>2, HeldType DEF Arm, Event, TypeOK, breaker
<1>3. CASE Disarm
  BY <1>1, <1>3 DEF Disarm, Event, TypeOK, breaker, ghosts
<1> QED BY <1>2, <1>3

LEMMA TickType == ASSUME TypeOK, Tick PROVE TypeOK'
PROOF
<1>1. hour' \in 0..(Day - 1)
  BY LimitsAssumption DEF Tick, TypeOK
<1>2. cool' \in CoolStates /\ disk' \in Snapshots \cup {None}
  BY CoolerType, OlderType DEF Tick, TypeOK
<1>3. binding' \in Nat
  BY SavedType DEF Tick, TypeOK, Less, MaxOf
<1>4. broker' \in PnLs /\ peak' \in Int
  BY DataAssumption DEF Tick, TypeOK
<1> QED BY <1>1, <1>2, <1>3, <1>4 DEF Tick, Event, TypeOK

LEMMA StepType == TypeOK /\ [Next]_vars => TypeOK'
PROOF
<1> SUFFICES ASSUME TypeOK, [Next]_vars PROVE TypeOK'
  OBVIOUS
<1>1. CASE ReadFlags
  BY <1>1 DEF ReadFlags, TypeOK, breaker, ghosts
<1>2. CASE Poll
  BY <1>2, PollType
<1>3. CASE Signal
  BY <1>3, SignalType
<1>4. CASE EndSignals
  BY <1>4 DEF EndSignals, TypeOK, breaker, ghosts
<1>5. CASE Save
  BY <1>5, SaveType
<1>6. CASE Crash
  BY <1>6, CrashType
<1>7. CASE Start
  BY <1>7, StartType
<1>8. CASE \E p \in Results : RecordTradeResult(p)
  BY <1>8, RecordType
<1>9. CASE \E daily \in BOOLEAN : Reset(daily)
  BY <1>9, ResetType
<1>10. CASE ForceCooldown
  BY <1>10, ForceType
<1>11. CASE ClearCooldown
  BY <1>11 DEF ClearCooldown, Called, Event, TypeOK, NoCooldown, CoolStates
<1>12. CASE BrokerMove
  BY <1>12 DEF BrokerMove, Event, TypeOK, breaker, ghosts
<1>13. CASE Arm \/ Disarm
  BY <1>13, ArmType
<1>14. CASE Tick
  BY <1>14, TickType
<1>15. CASE UNCHANGED vars
  BY <1>15 DEF vars, breaker, ghosts, TypeOK
<1> QED BY <1>1, <1>2, <1>3, <1>4, <1>5, <1>6, <1>7, <1>8, <1>9, <1>10, <1>11, <1>12, <1>13,
           <1>14, <1>15 DEF Next

(* Every variable keeps its type: no P&L, tier, cooldown, saved snapshot or *)
(* call brings the breaker to a state its code does not expect.            *)
THEOREM TypeCorrect == Spec => []TypeOK
  BY InitType, StepType, PTL DEF Spec

-------------------------------------------------------------------------------
(* Only Signal makes an order, and only from an allowed one.               *)
LEMMA OrderFacts ==
  ASSUME Signal, verdict' = "order", config.mode = "enforce"
  PROVE  /\ ~InCooldown /\ armed = "yes" /\ ~Trips("session_drawdown")
         /\ UNCHANGED cool
PROOF
<1>1. Allows
  BY DEF Signal, CooldownBlocks, TierBlocks, CheckBlocks, FilterBlocks, EquityBlocks, Outcome
<1>2. 2 \in 1..Len(HardChecks) /\ HardChecks[2] = "session_drawdown"
  BY DEF HardChecks
<1>3. ~Trips("session_drawdown")
  BY <1>1, <1>2 DEF Allows, ChecksPass
<1>4. armed = "yes"
  BY <1>1 DEF Allows, Outcome
<1> QED BY <1>1, <1>3, <1>4 DEF Allows

LEMMA NoOrder ==
  ASSUME Next, ~Signal
  PROVE  verdict' = "none"
  BY DEF Next, ReadFlags, Poll, EndSignals, Save, Crash, Start, RecordTradeResult, Reset,
         ForceCooldown, ClearCooldown, Called, BrokerMove, Arm, Disarm, Tick

(* What a save of the current state preserves of a fact about the disk.    *)
LEMMA DiskKept ==
  ASSUME Next, ~Save, ~Arm, ~Disarm, ~Tick
  PROVE  disk' = disk
  BY DEF Next, ReadFlags, Poll, Signal, EndSignals, Crash, Start, RecordTradeResult, Reset,
         ForceCooldown, ClearCooldown, BrokerMove

-------------------------------------------------------------------------------
(* Drawdown: the session P&L the checks look at is the one that was told,  *)
(* in the process and on the disk.                                         *)

LEMMA ToldInit == Init => ToldInv
  BY DEF Init, ToldInv

LEMMA ToldPhase ==
  ASSUME TypeOK, ToldInv, Next
  PROVE  phase' # "down" => told' = pnl'.session
PROOF
<1>1. CASE Poll
  <2>1. CASE SyncBrokerPnl
    BY <2>1 DEF SyncBrokerPnl
  <2>2. CASE UNCHANGED <<pnl, lock, cool, kill, ghosts, peak>>
    BY <1>1, <2>2 DEF Poll, ToldInv, ghosts
  <2> QED BY <1>1, <2>1, <2>2 DEF Poll
<1>2. CASE Start
  <2>1. PICK h \in {0, broker} : Restore(h) \/ StartEmpty(h)
    BY <1>2 DEF Start
  <2> QED BY <2>1 DEF Restore, RestoredPnl, StartEmpty, ToldInv
<1>3. CASE \E p \in Results : RecordTradeResult(p)
  <2>1. PICK p \in Results : RecordTradeResult(p)
    BY <1>3
  <2> QED BY <2>1 DEF RecordTradeResult, Called, ToldInv
<1>4. CASE \E daily \in BOOLEAN : Reset(daily)
  BY <1>4 DEF Reset
<1>5. CASE Crash
  BY <1>5 DEF Crash
<1>6. CASE Tick
  BY <1>6 DEF Tick, ToldInv
<1>7. CASE ReadFlags \/ Signal \/ EndSignals \/ Save
  BY <1>7 DEF ReadFlags, Signal, EndSignals, Save, ToldInv, breaker, ghosts
<1>8. CASE ForceCooldown \/ ClearCooldown
  BY <1>8 DEF ForceCooldown, ClearCooldown, Called, ToldInv
<1>9. CASE BrokerMove \/ Arm \/ Disarm
  BY <1>9 DEF BrokerMove, Arm, Disarm, ToldInv, breaker, ghosts
<1> QED BY <1>1, <1>2, <1>3, <1>4, <1>5, <1>6, <1>7, <1>8, <1>9 DEF Next

LEMMA ToldDisk ==
  ASSUME TypeOK, ToldInv, Next
  PROVE  disk' # None => disk'.told = disk'.pnl.session
PROOF
<1>1. CASE disk' = disk
  BY <1>1 DEF ToldInv
<1>2. CASE disk' = Persisted /\ (Save \/ Arm \/ Disarm)
  <2>1. phase # "down"
    BY <1>2 DEF Save, Arm, Disarm
  <2> QED BY <1>2, <2>1 DEF Persisted, ToldInv
<1>3. CASE Tick
  <2>1. disk' = Older(disk)
    BY <1>3 DEF Tick
  <2> QED BY <2>1 DEF Older, ToldInv
<1> QED BY <1>1, <1>2, <1>3, DiskKept DEF Save, Arm, Disarm

LEMMA ToldStep == TypeOK /\ ToldInv /\ [Next]_vars => ToldInv'
PROOF
<1> SUFFICES ASSUME TypeOK, ToldInv, [Next]_vars PROVE ToldInv'
  OBVIOUS
<1>1. CASE UNCHANGED vars
  BY <1>1 DEF vars, breaker, ghosts, ToldInv
<1>2. CASE Next
  <2>1. verdict' = "order" /\ config'.mode = "enforce" => told' > -MaxDrawdown
    <3> SUFFICES ASSUME verdict' = "order", config'.mode = "enforce" PROVE told' > -MaxDrawdown
      OBVIOUS
    <3>1. Signal
      BY <1>2, NoOrder
    <3>2. config' = config /\ told' = told /\ told = pnl.session
      BY <3>1 DEF Signal, ghosts, ToldInv
    <3>3. ~(pnl.session <= -MaxDrawdown)
      BY <3>1, <3>2, OrderFacts DEF Trips
    <3> QED BY <3>2, <3>3, LimitsAssumption DEF TypeOK, PnlStates
  <2> QED BY <1>2, <2>1, ToldPhase, ToldDisk DEF ToldInv
<1> QED BY <1>1, <1>2

(* No order follows a session P&L beyond the drawdown, restarts included.  *)
THEOREM Drawdown == Spec => []DrawdownBinds
PROOF
<1>1. ToldInv => DrawdownBinds
  BY DEF ToldInv, DrawdownBinds
<1> QED BY <1>1, InitType, ToldInit, StepType, ToldStep, PTL DEF Spec

-------------------------------------------------------------------------------
(* The trip of the profit lock: a cooldown that no win ends covers what    *)
(* binds, unless the adapter is disarmed or a kill flag is about to do it. *)

LEMMA BindInit == Init => BindInv
  BY DEF Init, BindInv, SavedBinding, Upholds

LEMMA HeldFacts == ASSUME TypeOK PROVE Upholds(cool, Held)
  BY DEF TypeOK, CoolStates, Held, MinOf, Upholds

LEMMA BindDisk ==
  ASSUME TypeOK, BindInv, Next
  PROVE  disk' # None => Upholds(disk'.cool, disk'.binding)
PROOF
<1>1. CASE disk' = disk
  BY <1>1 DEF BindInv
<1>2. CASE disk' = Persisted
  BY <1>2, HeldFacts DEF Persisted
<1>3. CASE Tick
  <2> SUFFICES ASSUME disk' # None PROVE Upholds(disk'.cool, disk'.binding)
    OBVIOUS
  <2>1. disk' = Older(disk) /\ disk # None
    BY <1>3 DEF Tick, Older
  <2>2. disk \in Snapshots /\ Upholds(disk.cool, disk.binding)
    BY <2>1 DEF TypeOK, BindInv
  <2>3. disk'.cool = Cooler(disk.cool) /\ disk'.binding = Less(disk.binding)
    BY <2>1 DEF Older
  <2>4. disk.cool \in CoolStates /\ disk.binding \in Nat
    BY <2>2 DEF Snapshots
  <2> QED BY <2>2, <2>3, <2>4 DEF Upholds, Cooler, Less, MaxOf, CoolStates, NoCooldown
<1> QED BY <1>1, <1>2, <1>3, DiskKept DEF Save, Arm, Disarm

LEMMA BindDown ==
  ASSUME TypeOK, BindInv, Next
  PROVE  phase' = "down" /\ kill' # "fresh" => binding' <= SavedBinding'
PROOF
<1> SUFFICES ASSUME phase' = "down", kill' # "fresh" PROVE binding' <= SavedBinding'
  OBVIOUS
<1>1. binding \in Nat /\ SavedBinding \in Nat
  BY SavedType DEF TypeOK
<1>2. CASE Crash
  <2>1. binding' = SavedBinding /\ disk' = disk
    BY <1>2 DEF Crash
  <2>2. SavedBinding' = SavedBinding
    BY <2>1 DEF SavedBinding
  <2> QED BY <1>1, <2>1, <2>2
<1>3. CASE Tick
  <2>1. phase = "down"
    BY <1>3 DEF Tick
  <2>2. SavedBinding' = Less(SavedBinding)
    <3>1. disk' = Older(disk)
      BY <1>3 DEF Tick
    <3>2. CASE disk = None
      BY <3>1, <3>2 DEF Older, SavedBinding, Less, MaxOf
    <3>3. CASE disk # None
      <4>1. disk \in Snapshots
        BY <3>3 DEF TypeOK
      <4>2. Cooler(disk.cool) \in CoolStates /\ Less(disk.binding) \in Nat
        BY <4>1, CoolerType DEF Snapshots, Less, MaxOf
      <4>3. disk' \in Snapshots
        BY <3>1, <3>3, <4>1, <4>2 DEF Older, Snapshots
      <4> QED BY <3>1, <3>3, <4>3, NoneAssumption DEF Older, SavedBinding
    <3> QED BY <3>2, <3>3
  <2>3. (binding' = Less(binding) /\ kill # "fresh") \/ binding' = Less(SavedBinding)
    BY <1>3 DEF Tick
  <2> QED BY <1>1, <2>1, <2>2, <2>3 DEF BindInv, Less, MaxOf
<1>4. CASE BrokerMove
  <2>1. SavedBinding' = SavedBinding
    BY <1>4 DEF BrokerMove, SavedBinding
  <2> QED BY <1>4, <2>1 DEF BrokerMove, BindInv, ghosts
<1> QED BY <1>2, <1>3, <1>4 DEF Next, ReadFlags, Poll, Signal, EndSignals, Save, Start,
        RecordTradeResult, Reset, ForceCooldown, ClearCooldown, Called, Arm, Disarm

Safe == \/ Upholds(cool, binding)
        \/ armed = "no"
        \/ phase \in {"boot", "flags", "stop"} /\ kill = "fresh"

LEMMA BindStart == ASSUME TypeOK, BindInv, Start PROVE Safe'
PROOF
<1>1. PICK h \in {0, broker} : Restore(h) \/ StartEmpty(h)
  BY DEF Start
<1>2. CASE kill = "fresh"
  BY <1>2 DEF Start, Safe
<1>3. CASE kill # "fresh" /\ Restore(h)
  <2>1. disk \in Snapshots /\ Upholds(disk.cool, disk.binding) /\ SavedBinding = disk.binding
    BY <1>3 DEF Restore, BindInv, TypeOK, SavedBinding
  <2>2. binding' = binding /\ binding <= disk.binding /\ cool' = RestoredCool(h)
    BY <1>3, <2>1 DEF Start, Restore, BindInv
  <2>3. disk.cool \in CoolStates /\ disk.binding \in Nat /\ binding \in Nat
    BY <2>1 DEF Snapshots, TypeOK
  <2>4. CASE disk.cool.left > 0
    <3>1. cool' = disk.cool
      BY <2>2, <2>4 DEF RestoredCool
    <3> QED BY <2>1, <2>2, <2>3, <3>1 DEF Upholds, CoolStates, Safe
  <2>5. CASE ~(disk.cool.left > 0)
    BY <2>1, <2>2, <2>3, <2>5 DEF Upholds, CoolStates, Safe
  <2> QED BY <2>4, <2>5
<1>4. CASE kill # "fresh" /\ StartEmpty(h)
  BY <1>4 DEF StartEmpty, Upholds, Safe
<1> QED BY <1>1, <1>2, <1>3, <1>4

LEMMA BindPoll == ASSUME TypeOK, BindInv, Poll PROVE Safe'
PROOF
<1>1. armed' = armed /\ (Upholds(cool, binding) \/ armed = "no")
  BY DEF Poll, BindInv
<1>2. CASE UNCHANGED <<cool, binding>>
  BY <1>1, <1>2 DEF Safe, Upholds
<1>3. CASE Trip(Raised(broker))
  <2>1. cool' = Cooldown(Cooldowns["session_profit_lock"], "session_profit_lock")
        /\ binding' = Cooldowns["session_profit_lock"]
    BY <1>3 DEF Trip
  <2>2. Cooldowns["session_profit_lock"] \in Nat
    BY CooldownFacts
  <2> QED BY <2>1, <2>2 DEF Safe, Upholds, Cooldown, Winnable
<1> QED BY <1>2, <1>3 DEF Poll, SyncBrokerPnl, UpdateLock, ghosts

LEMMA BindSafe ==
  ASSUME TypeOK, BindInv, Next, phase' # "down"
  PROVE  Safe'
PROOF
<1>1. CASE ReadFlags
  <2>1. CASE kill = "fresh"
    BY <1>1, <2>1 DEF ReadFlags, Safe
  <2>2. CASE kill # "fresh"
    BY <1>1, <2>2 DEF ReadFlags, Safe, BindInv, breaker, ghosts, Upholds
  <2> QED BY <2>1, <2>2
<1>2. CASE Poll
  BY <1>2, BindPoll
<1>3. CASE Signal
  <2>1. binding' = binding /\ armed' = armed /\ (Upholds(cool, binding) \/ armed = "no")
    BY <1>3 DEF Signal, BindInv, ghosts
  <2>2. CASE UNCHANGED cool
    BY <2>1, <2>2 DEF Safe, Upholds
  <2>3. CASE ~InCooldown
    BY <2>1, <2>3 DEF Safe, Upholds, InCooldown, TypeOK, CoolStates
  <2> QED BY <1>3, <2>2, <2>3 DEF Signal, CooldownBlocks, TierBlocks, CheckBlocks, FilterBlocks,
          EquityBlocks, Allows
<1>4. CASE EndSignals
  BY <1>4 DEF EndSignals, Safe, BindInv, breaker, ghosts, Upholds
<1>5. CASE Save
  BY <1>5 DEF Save, Safe, BindInv, breaker, ghosts, Upholds
<1>6. CASE Start
  BY <1>6, BindStart
<1>7. CASE \E p \in Results : RecordTradeResult(p)
  <2>1. PICK p \in Results : RecordTradeResult(p)
    BY <1>7
  <2>2. binding' = binding /\ armed' = armed /\ (Upholds(cool, binding) \/ armed = "no")
    BY <2>1 DEF RecordTradeResult, Called, BindInv
  <2>3. cool' = cool \/ cool.reason \in Winnable
    BY <2>1 DEF RecordTradeResult, WinClears
  <2> QED BY <2>2, <2>3 DEF Safe, Upholds
<1>8. CASE \E daily \in BOOLEAN : Reset(daily)
  BY <1>8 DEF Reset, Called, Safe, BindInv, Upholds
<1>9. CASE ForceCooldown
  <2>1. cool' = Cooldown(Cooldowns["forced"], "forced")
        /\ binding' = MinOf(binding, Cooldowns["forced"])
    BY <1>9 DEF ForceCooldown
  <2>2. Cooldowns["forced"] \in Nat /\ binding \in Nat
    BY CooldownFacts DEF TypeOK
  <2> QED BY <2>1, <2>2 DEF Safe, Upholds, Cooldown, MinOf, Winnable
<1>10. CASE ClearCooldown
  BY <1>10 DEF ClearCooldown, Safe, Upholds
<1>11. CASE BrokerMove
  BY <1>11 DEF BrokerMove, Safe, BindInv, breaker, ghosts, Upholds
<1>12. CASE Arm
  <2>1. cool' = cool /\ binding' = Held
    BY <1>12 DEF Arm, breaker
  <2> QED BY <2>1, HeldFacts DEF Safe, Upholds
<1>13. CASE Disarm
  BY <1>13 DEF Disarm, Safe
<1>14. CASE Tick
  <2>1. phase = "flags" /\ kill = "absent"
    BY <1>14 DEF Tick
  <2>2. armed' = armed /\ cool' = Cooler(cool) /\ binding' = Less(binding)
    BY <1>14, <2>1 DEF Tick
  <2>3. Upholds(cool, binding) \/ armed = "no"
    BY <2>1 DEF BindInv
  <2>4. cool \in CoolStates /\ binding \in Nat
    BY DEF TypeOK
  <2> QED BY <2>2, <2>3, <2>4 DEF Safe, Upholds, Cooler, Less, MaxOf, CoolStates, NoCooldown
<1>15. CASE Crash
  BY <1>15 DEF Crash
<1> QED BY <1>1, <1>2, <1>3, <1>4, <1>5, <1>6, <1>7, <1>8, <1>9, <1>10, <1>11, <1>12, <1>13,
           <1>14, <1>15 DEF Next

LEMMA BindStep == TypeOK /\ BindInv /\ [Next]_vars => BindInv'
PROOF
<1> SUFFICES ASSUME TypeOK, BindInv, [Next]_vars PROVE BindInv'
  OBVIOUS
<1>1. CASE UNCHANGED vars
  BY <1>1 DEF vars, breaker, ghosts, BindInv, SavedBinding
<1>2. CASE Next
  <2>1. verdict' = "order" /\ config'.mode = "enforce" => binding' = 0
    <3> SUFFICES ASSUME verdict' = "order", config'.mode = "enforce" PROVE binding' = 0
      OBVIOUS
    <3>1. Signal
      BY <1>2, NoOrder
    <3>2. config' = config /\ binding' = binding /\ phase = "signals"
      BY <3>1 DEF Signal, ghosts
    <3>3. ~InCooldown /\ armed = "yes"
      BY <3>1, <3>2, OrderFacts
    <3> QED BY <3>2, <3>3 DEF BindInv, Upholds, InCooldown, TypeOK, CoolStates
  <2>2. phase' # "down" => Safe'
    BY <1>2, BindSafe
  <2> QED BY <1>2, <2>1, <2>2, BindDisk, BindDown DEF BindInv, Safe
<1> QED BY <1>1, <1>2

(* While a trip of the profit lock binds no signal becomes an order,       *)
(* whatever wins, checks, cooldowns and restarts follow it.                *)
THEOREM TripHolds == Spec => []TripBinds
PROOF
<1>1. BindInv => TripBinds
  BY DEF BindInv, TripBinds
<1> QED BY <1>1, InitType, BindInit, StepType, BindStep, PTL DEF Spec

-------------------------------------------------------------------------------
(* The floor covers the best P&L that was shown.                           *)

LEMMA LockInit == Init => LockInv
  BY LockAssumption DEF Init, LockInv, Covers, Unused, FreshLock

LEMMA FreshCovers == ASSUME NEW s \in Int PROVE Covers(FreshLock, s, 0) /\ Unused(0)
  BY LockAssumption DEF Covers, Unused, FreshLock

LEMMA RaisedCovers ==
  ASSUME TypeOK, LockInv, phase # "down", lock.state = "open", NEW p \in Int,
         ~Retraced(Raised(p), p)
  PROVE  Covers(Raised(p), p, MaxOf(top, p))
PROOF
<1> DEFINE hwm == MaxOf(lock.hwm, p)
           l == Raised(p)
<1>1. hwm \in Nat /\ MaxOf(top, p) \in Nat /\ hwm >= MaxOf(top, p)
  BY DEF TypeOK, LockStates, LockInv, Covers, MaxOf
<1>2. l.hwm = hwm /\ l \in LockStates
  BY RaisedType DEF Raised
<1>3. FloorOf(hwm) \in Nat /\ FloorOf(MaxOf(top, p)) \in Nat /\ FloorOf(hwm) >= FloorOf(MaxOf(top, p))
  BY <1>1, FloorNat, FloorMonotone
<1>4. ASSUME MaxOf(top, p) >= Activation
      PROVE  l.floor # None /\ l.floor >= FloorOf(MaxOf(top, p)) /\ 4 * p > l.floor
  <2>1. hwm >= Activation
    BY <1>1, <1>4, LockAssumption
  <2>2. lock.floor \in Nat \cup {None}
    BY DEF TypeOK, LockStates
  <2>3. l.floor = IF lock.floor = None \/ FloorOf(hwm) > lock.floor THEN FloorOf(hwm) ELSE lock.floor
    BY <2>1 DEF Raised
  <2>4. l.floor \in Nat /\ l.floor >= FloorOf(hwm)
    BY <1>3, <2>2, <2>3
  <2>5. l.floor # None
    BY <2>4, NoneAssumption
  <2>6. ~(4 * p <= l.floor)
    BY <2>5 DEF Retraced
  <2> QED BY <1>3, <2>4, <2>5, <2>6
<1> QED BY <1>1, <1>2, <1>4 DEF Covers

LEMMA LockPoll ==
  ASSUME TypeOK, LockInv, Poll
  PROVE  Covers(lock', seen', top') /\ Unused(top')
PROOF
<1>1. Covers(lock, seen, top) /\ Unused(top)
  BY DEF Poll, LockInv
<1>2. CASE UNCHANGED <<lock, seen, top>>
  BY <1>1, <1>2
<1>3. CASE SyncBrokerPnl /\ "lock" \notin config.on
  <2>1. lock' = lock /\ top' = top /\ top = 0
    BY <1>1, <1>3 DEF SyncBrokerPnl, UpdateLock, Unused
  <2> QED BY <1>1, <2>1, LockAssumption DEF Covers, Unused
<1>4. CASE SyncBrokerPnl /\ "lock" \in config.on
  <2>1. seen' = broker /\ top' = MaxOf(top, broker) /\ broker \in Int /\ phase # "down"
    BY <1>4, DataAssumption DEF SyncBrokerPnl, TypeOK, Poll
  <2>2. Unused(top')
    BY <1>4 DEF Unused
  <2>3. CASE lock.state = "locked"
    <3>1. lock' = lock
      BY <1>4, <2>3 DEF SyncBrokerPnl, UpdateLock
    <3> QED BY <2>2, <2>3, <3>1 DEF Covers
  <2>4. CASE lock.state # "locked" /\ Retraced(Raised(broker), broker)
    <3>1. lock'.state = "locked"
      BY <1>4, <2>4 DEF SyncBrokerPnl, UpdateLock, Trip
    <3> QED BY <2>2, <3>1 DEF Covers
  <2>5. CASE lock.state # "locked" /\ ~Retraced(Raised(broker), broker)
    <3>1. lock' = Raised(broker)
      BY <1>4, <2>5 DEF SyncBrokerPnl, UpdateLock
    <3>2. lock.state = "open"
      BY <2>5 DEF TypeOK, LockStates
    <3> QED BY <2>1, <2>2, <2>5, <3>1, <3>2, RaisedCovers
  <2> QED BY <2>3, <2>4, <2>5
<1> QED BY <1>2, <1>3, <1>4 DEF Poll, ghosts

LEMMA LockLive ==
  ASSUME TypeOK, LockInv, Next, phase' # "down"
  PROVE  Covers(lock', seen', top') /\ (Unused(top))'
PROOF
<1>0. config' = config
  BY DEF Next, ReadFlags, Poll, Signal, EndSignals, Save, Crash, Start, RecordTradeResult, Reset,
         ForceCooldown, ClearCooldown, BrokerMove, Arm, Disarm, Tick
<1>1. CASE Poll
  BY <1>0, <1>1, LockPoll DEF Unused
<1>2. CASE Start
  <2>1. PICK h \in {0, broker} : Restore(h) \/ StartEmpty(h)
    BY <1>2 DEF Start
  <2>2. CASE Restore(h)
    BY <1>0, <2>2 DEF Restore, LockInv, Unused
  <2>3. CASE StartEmpty(h)
    BY <1>0, <2>3, FreshCovers DEF StartEmpty, Unused
  <2> QED BY <2>1, <2>2, <2>3
<1>3. CASE \E daily \in BOOLEAN : Reset(daily)
  <2>1. lock' = FreshLock /\ seen' = seen /\ top' = 0
    BY <1>3 DEF Reset
  <2> QED BY <1>0, <2>1, FreshCovers DEF TypeOK, Unused
<1>4. CASE phase # "down" /\ UNCHANGED <<lock, seen, top>>
  BY <1>0, <1>4 DEF LockInv, Unused
<1> QED BY <1>1, <1>2, <1>3, <1>4 DEF Next, ReadFlags, Signal, EndSignals, Save, Crash,
        RecordTradeResult, ForceCooldown, ClearCooldown, Called, BrokerMove, Arm, Disarm, Tick,
        breaker, ghosts

LEMMA LockDisk ==
  ASSUME TypeOK, LockInv, Next
  PROVE  disk' # None => Covers(disk'.lock, disk'.seen, disk'.top) /\ (Unused(disk.top))'
PROOF
<1>0. config' = config
  BY DEF Next, ReadFlags, Poll, Signal, EndSignals, Save, Crash, Start, RecordTradeResult, Reset,
         ForceCooldown, ClearCooldown, BrokerMove, Arm, Disarm, Tick
<1>1. CASE disk' = disk
  BY <1>0, <1>1 DEF LockInv, Unused
<1>2. CASE disk' = Persisted /\ (Save \/ Arm \/ Disarm)
  <2>1. phase # "down"
    BY <1>2 DEF Save, Arm, Disarm
  <2> QED BY <1>0, <1>2, <2>1 DEF Persisted, LockInv, Unused
<1>3. CASE Tick
  <2>1. disk' = Older(disk)
    BY <1>3 DEF Tick
  <2> QED BY <1>0, <2>1 DEF Older, LockInv, Unused
<1> QED BY <1>1, <1>2, <1>3, DiskKept DEF Save, Arm, Disarm

LEMMA LockStepInv == TypeOK /\ LockInv /\ [Next]_vars => LockInv'
PROOF
<1> SUFFICES ASSUME TypeOK, LockInv, [Next]_vars PROVE LockInv'
  OBVIOUS
<1>1. CASE UNCHANGED vars
  BY <1>1 DEF vars, breaker, ghosts, LockInv, Unused
<1>2. CASE Next
  BY <1>2, LockLive, LockDisk DEF LockInv
<1> QED BY <1>1, <1>2

(* Above the activation either the lock has tripped or the P&L last shown  *)
(* is above the floor of the best one, for every sequence of P&L, of       *)
(* failed polls and of restarts.                                           *)
THEOREM GiveBack == Spec => []NoGiveBack
PROOF
<1>1. TypeOK /\ LockInv => NoGiveBack
  <2> SUFFICES ASSUME TypeOK, LockInv, phase # "down", top >= Activation, lock.state # "locked"
               PROVE  4 * seen > FloorOf(top)
    BY DEF NoGiveBack
  <2>1. lock.state = "open" /\ lock.floor \in Nat \cup {None} /\ seen \in Int /\ top \in Nat
    BY DEF TypeOK, LockStates
  <2>2. lock.floor # None /\ lock.floor >= FloorOf(top) /\ 4 * seen > lock.floor
    BY <2>1 DEF LockInv, Covers
  <2>3. FloorOf(top) \in Nat
    BY <2>1, FloorNat
  <2> QED BY <2>1, <2>2, <2>3
<1> QED BY <1>1, InitType, LockInit, StepType, LockStepInv, PTL DEF Spec

-------------------------------------------------------------------------------
(* The lock trips on nothing it was not shown.                             *)

LEMMA RaisedEarned ==
  ASSUME TypeOK, Earned(lock, top), lock.state = "open", NEW p \in Int
  PROVE  /\ Raised(p).hwm = MaxOf(top, p)
         /\ Raised(p).floor # None => /\ MaxOf(top, p) >= Activation
                                      /\ Raised(p).floor = FloorOf(MaxOf(top, p))
PROOF
<1> DEFINE hwm == MaxOf(top, p)
<1>1. lock.hwm = top /\ top \in Nat /\ hwm \in Nat /\ hwm >= top
  BY DEF Earned, TypeOK, MaxOf
<1>2. FloorOf(hwm) \in Nat /\ FloorOf(top) \in Nat /\ FloorOf(hwm) >= FloorOf(top)
  BY <1>1, FloorNat, FloorMonotone
<1> HIDE DEF hwm
<1>3. /\ Raised(p).hwm = hwm
      /\ Raised(p).floor = IF hwm >= Activation /\ (lock.floor = None \/ FloorOf(hwm) > lock.floor)
                           THEN FloorOf(hwm) ELSE lock.floor
  BY <1>1 DEF Raised, hwm
<1>4. lock.floor # None => top >= Activation /\ lock.floor = FloorOf(top)
  BY DEF Earned
<1>5. ASSUME Raised(p).floor # None
      PROVE  hwm >= Activation /\ Raised(p).floor = FloorOf(hwm)
  BY <1>1, <1>2, <1>3, <1>4, <1>5, LockAssumption
<1> QED BY <1>3, <1>5 DEF hwm

(* A report: the lock rises with it, or trips on it.                       *)
LEMMA ShownPoll ==
  ASSUME TypeOK, Poll, Earned(lock, top)
  PROVE  /\ Earned(lock', top')
         /\ lock.state = "open" /\ lock'.state = "locked"
              => top' >= Activation /\ 4 * seen' <= FloorOf(top')
PROOF
<1>1. CASE UNCHANGED <<lock, seen, top>>
  BY <1>1
<1>2. CASE SyncBrokerPnl /\ "lock" \notin config.on
  <2>1. lock' = lock /\ top' = top
    BY <1>2 DEF SyncBrokerPnl, UpdateLock
  <2> QED BY <2>1
<1>3. CASE SyncBrokerPnl /\ "lock" \in config.on /\ lock.state = "locked"
  <2>1. lock' = lock
    BY <1>3 DEF SyncBrokerPnl, UpdateLock
  <2> QED BY <1>3, <2>1 DEF Earned
<1>4. CASE SyncBrokerPnl /\ "lock" \in config.on /\ lock.state = "open"
  <2>1. seen' = broker /\ top' = MaxOf(top, broker) /\ broker \in Int
    BY <1>4, DataAssumption DEF SyncBrokerPnl, TypeOK
  <2> DEFINE l == Raised(broker)
  <2>2. l.hwm = top' /\ (l.floor # None => top' >= Activation /\ l.floor = FloorOf(top'))
    BY <1>4, <2>1, RaisedEarned
  <2> HIDE DEF l
  <2>3. CASE Retraced(l, broker) /\ Trip(l)
    <3>1. lock'.state = "locked"
      BY <2>3 DEF Trip
    <3>2. l.floor # None /\ 4 * broker <= l.floor
      BY <2>3 DEF Retraced
    <3> QED BY <2>1, <2>2, <3>1, <3>2 DEF Earned
  <2>4. CASE lock' = l
    <3>1. l.state = "open"
      BY DEF l, Raised
    <3> QED BY <2>2, <2>4, <3>1 DEF Earned
  <2> QED BY <1>4, <2>3, <2>4 DEF SyncBrokerPnl, UpdateLock, l
<1> QED BY <1>1, <1>2, <1>3, <1>4 DEF Poll, ghosts, TypeOK, LockStates

LEMMA FreshEarned == Earned(FreshLock, 0)
  BY DEF Earned, FreshLock

LEMMA ShownLive ==
  ASSUME TypeOK, ShownInv, Next, phase' # "down"
  PROVE  Earned(lock', top')
PROOF
<1>1. CASE Poll
  BY <1>1, ShownPoll DEF Poll, ShownInv
<1>2. CASE Start
  <2>1. PICK h \in {0, broker} : Restore(h) \/ StartEmpty(h)
    BY <1>2 DEF Start
  <2> QED BY <2>1, FreshEarned DEF Restore, StartEmpty, ShownInv
<1>3. CASE \E daily \in BOOLEAN : Reset(daily)
  <2>1. lock' = FreshLock /\ top' = 0
    BY <1>3 DEF Reset
  <2> QED BY <2>1, FreshEarned
<1>4. CASE phase # "down" /\ UNCHANGED <<lock, top>>
  BY <1>4 DEF ShownInv
<1> QED BY <1>1, <1>2, <1>3, <1>4 DEF Next, ReadFlags, Signal, EndSignals, Save, Crash,
        RecordTradeResult, ForceCooldown, ClearCooldown, Called, BrokerMove, Arm, Disarm, Tick,
        breaker, ghosts

LEMMA ShownDisk ==
  ASSUME TypeOK, ShownInv, Next
  PROVE  disk' # None => Earned(disk'.lock, disk'.top)
PROOF
<1>1. CASE disk' = disk
  BY <1>1 DEF ShownInv
<1>2. CASE disk' = Persisted /\ (Save \/ Arm \/ Disarm)
  <2>1. phase # "down"
    BY <1>2 DEF Save, Arm, Disarm
  <2> QED BY <1>2, <2>1 DEF Persisted, ShownInv
<1>3. CASE Tick
  <2>1. disk' = Older(disk)
    BY <1>3 DEF Tick
  <2> QED BY <2>1 DEF Older, ShownInv
<1> QED BY <1>1, <1>2, <1>3, DiskKept DEF Save, Arm, Disarm

LEMMA ShownStep == TypeOK /\ ShownInv /\ [Next]_vars => ShownInv'
PROOF
<1> SUFFICES ASSUME TypeOK, ShownInv, [Next]_vars PROVE ShownInv'
  OBVIOUS
<1>1. CASE UNCHANGED vars
  BY <1>1 DEF vars, breaker, ghosts, ShownInv
<1>2. CASE Next
  BY <1>2, ShownLive, ShownDisk DEF ShownInv
<1> QED BY <1>1, <1>2

(* No report but a poll's trips the lock.                                  *)
LEMMA OnlyPollTrips ==
  ASSUME TypeOK, [Next]_vars, phase # "down", lock.state = "open", lock'.state = "locked"
  PROVE  Poll
PROOF
<1>1. CASE \/ Crash \/ \E daily \in BOOLEAN : Reset(daily)
  BY <1>1 DEF Crash, Reset, FreshLock
<1>2. CASE Start
  BY <1>2 DEF Start
<1>3. CASE UNCHANGED lock
  BY <1>3
<1> QED BY <1>1, <1>2, <1>3 DEF Next, ReadFlags, Signal, EndSignals, Save, RecordTradeResult,
        ForceCooldown, ClearCooldown, BrokerMove, Arm, Disarm, Tick, breaker, vars

(* A trip answers a give-back that was reported: the floor it fell to is   *)
(* that of a best P&L past the activation, reported since the last reset,  *)
(* whatever restarts and lost saves lie between the two.                   *)
THEOREM TripsAreShown == Spec => TripShown
PROOF
<1>1. TypeOK /\ ShownInv /\ [Next]_vars
        => (phase # "down" /\ lock.state = "open" /\ lock'.state = "locked"
              => top' >= Activation /\ 4 * seen' <= FloorOf(top'))
  BY OnlyPollTrips, ShownPoll DEF ShownInv
<1>2. Init => ShownInv
  BY DEF Init, ShownInv
<1> QED BY <1>1, <1>2, InitType, StepType, ShownStep, PTL DEF Spec, TripShown
===============================================================================
