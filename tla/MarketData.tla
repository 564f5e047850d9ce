------------------------------ MODULE MarketData ------------------------------
(***************************************************************************)
(* How the bars of one cycle come about and what the loop makes of them:   *)
(* IBKRProvider's ConnectionCircuitBreaker, the caches of                  *)
(* MarketAgentDataFetcher and the cycle of service_loop.py up to its       *)
(* analysis, with the pause for connection failures and the stale data     *)
(* guard.                                                                  *)
(*                                                                         *)
(* A cycle asks the provider for the bars of the strategy's timeframe, for *)
(* the latest bar, and for the higher timeframes, each unless its cache is *)
(* still valid (the live configuration turns both caches on).  While the   *)
(* breaker is open, and after each failure, the provider answers with what *)
(* it has cached: one data frame for all timeframes, one bar.              *)
(*                                                                         *)
(* Of bars the model keeps the timeframe they belong to and whether the    *)
(* newest of them is older than the stale threshold.  The requests are     *)
(* IbkrExecutor's; here a request is answered, fails, finds nothing, or is *)
(* given up after 60 s, and its thread may come back with a late answer,   *)
(* of which the model keeps one for each timeframe.                        *)
(* A gateway that is up fails no request; one that is down answers none.   *)
(* fetch_latest_data never raises, and its own staleness guard never runs: *)
(* it looks for a column "timestamp" that the provider has made the index. *)
(* Consecutive errors of other kinds, and the operator, pause the loop     *)
(* with the reason "other".                                                *)
(***************************************************************************)
EXTENDS Naturals, Sequences

CONSTANTS
  Frames,             \* the strategy's timeframe, then the higher ones
  FailureThreshold,   \* failure_threshold of the breaker, 5 in the code
  MaxConnFailures,    \* max_connection_failures
  PauseOnFailures     \* pause_on_connection_failures

FrameSet == {Frames[i] : i \in 1..Len(Frames)}

ASSUME FramesAssumption ==
  /\ Frames \in Seq(FrameSet) /\ Len(Frames) >= 2
  /\ "none" \notin FrameSet
ASSUME ThresholdsAssumption ==
  FailureThreshold \in Nat \ {0} /\ MaxConnFailures \in Nat \ {0}
ASSUME PauseAssumption == PauseOnFailures \in BOOLEAN

VARIABLES
  pc,         \* the place of the loop
  at,         \* the index of the timeframe being fetched
  asked,      \* the provider has been asked, its answer is awaited
  found,      \* the cycle has a latest bar, or bars that stand in for one
  up,         \* the gateway answers
  breaker,    \* _state; "due" is open with recovery_seconds over
  fails,      \* _consecutive_failures, counted up to FailureThreshold
  slot,       \* _last_cached_df
  barSlot,    \* _last_cached_bar is there
  held,       \* the fetcher's buffers (the first is also its base cache)
  valid,      \* the timeframes whose cache has not expired
  late,       \* the timeframes whose request was given up and still runs
  connFailures,   \* connection_failures, counted up to MaxConnFailures
  paused      \* pause_reason, or "no"

breakerVars == <<breaker, fails>>
cacheVars == <<slot, barSlot>>
bufferVars == <<held, valid>>
loopVars == <<connFailures, paused>>
vars == <<pc, at, asked, found, up, breaker, fails, slot, barSlot, held, valid, late,
          connFailures, paused>>

FrameBars == [frame : FrameSet, age : {"new", "old"}]
NoBars == [frame |-> "none", age |-> "old"]
Bars == FrameBars \cup {NoBars}
Frame == Frames[at]

ValuesOK ==
  /\ pc \in {"boot", "top", "fetch", "bar", "judge", "analyse"}
  /\ at \in 1..Len(Frames)
  /\ breaker \in {"closed", "open", "due", "half_open"}
  /\ fails \in 0..FailureThreshold
  /\ slot \in Bars /\ held \in [FrameSet -> Bars]
  /\ valid \subseteq FrameSet /\ late \subseteq FrameSet
  /\ connFailures \in 0..MaxConnFailures
  /\ paused \in {"no", "connection_failures", "other"}
FlagsOK == asked \in BOOLEAN /\ found \in BOOLEAN /\ up \in BOOLEAN /\ barSlot \in BOOLEAN
(* A cache that counts as valid holds bars, and a pause for connection     *)
(* failures needs the setting.                                             *)
CachesOK ==
  /\ \A f \in valid : held[f] # NoBars
  /\ paused = "connection_failures" => PauseOnFailures
(* Every variable has its type; no empty cache counts as valid.            *)
TypeOK == ValuesOK /\ FlagsOK /\ CachesOK

Init ==
  /\ pc = "boot" /\ at = 1 /\ asked = FALSE /\ found = FALSE
  /\ up \in BOOLEAN
  /\ breaker = "closed" /\ fails = 0
  /\ slot = NoBars /\ barSlot = FALSE
  /\ held = [f \in FrameSet |-> NoBars] /\ valid = {} /\ late = {}
  /\ connFailures = 0 /\ paused = "no"

-----------------------------------------------------------------------------
(* The breaker.                                                            *)

UpTo(limit, n) == IF n > limit THEN limit ELSE n

RecordSuccess == breaker' = "closed" /\ fails' = 0

(* A failure counts in every state; it opens a closed breaker at the       *)
(* threshold and a half-open one at once.                                  *)
RecordFailure ==
  /\ fails' = UpTo(FailureThreshold, fails + 1)
  /\ breaker' = (IF breaker = "half_open" \/ (breaker = "closed" /\ fails + 1 >= FailureThreshold)
                 THEN "open" ELSE breaker)

(* VARIANT: is_open unless it is closed, so that nothing ever probes.      *)
NotClosed == breaker # "closed"
(* is_open.                                                                *)
Open == breaker = "open"

(* Reading the state promotes open to half-open when it is due.            *)
Read == IF breaker = "due" THEN "half_open" ELSE breaker

(* record_success and cache_df with the answer of a gateway that is up;    *)
(* after the filter by time there may be no bars left.                     *)
Succeeds(f, bars) ==
  /\ up /\ (bars = NoBars \/ bars.frame = f)
  /\ RecordSuccess
  /\ slot' = (IF bars = NoBars THEN slot ELSE bars)

-----------------------------------------------------------------------------
(* The fetcher.                                                            *)

(* Where fetch_latest_data goes when the bars of a timeframe are in, and   *)
(* whether it has some to take the latest bar from.                        *)
GoOn(some) ==
  /\ asked' = FALSE
  /\ IF at = 1
     THEN pc' = "bar" /\ found' = some /\ UNCHANGED at
     ELSE /\ UNCHANGED found
          /\ IF at < Len(Frames) THEN at' = at + 1 /\ UNCHANGED pc
                                 ELSE pc' = "judge" /\ UNCHANGED at

(* VARIANT: every answer renews the cache.                                 *)
RenewAlways(bars) ==
  /\ held' = (IF bars = NoBars THEN held ELSE [held EXCEPT ![Frame] = bars])
  /\ valid' = valid \cup {Frame}
(* What becomes of an answer: bars of whatever timeframe go into the       *)
(* buffer of the one asked for.  An empty answer for a higher timeframe    *)
(* leaves its buffer, and renews its cache if there is anything in it.     *)
Keep(bars) ==
  IF bars = NoBars
  THEN /\ valid' = (IF at > 1 /\ held[Frame] # NoBars THEN valid \cup {Frame} ELSE valid)
       /\ UNCHANGED held
  ELSE /\ held' = [held EXCEPT ![Frame] = bars]
       /\ valid' = valid \cup {Frame}

(* VARIANT: bars that are there are never fetched again.                   *)
CachedForEver == held[Frame] # NoBars
(* The cache's time to live is not over.                                   *)
Cached == Frame \in valid

CacheAnswers ==
  /\ pc = "fetch" /\ ~asked /\ Cached
  /\ GoOn(TRUE)
  /\ UNCHANGED <<up, breakerVars, cacheVars, bufferVars, late, loopVars>>

(* _fetch_historical_async up to its first await.                          *)
Ask ==
  /\ pc = "fetch" /\ ~asked /\ ~Cached
  /\ breaker' = Read
  /\ IF Open
     THEN Keep(slot) /\ GoOn(slot # NoBars)
     ELSE asked' = TRUE /\ UNCHANGED <<pc, at, found, bufferVars>>
  /\ UNCHANGED <<up, fails, cacheVars, late, loopVars>>

Answered(bars) ==
  /\ pc = "fetch" /\ asked
  /\ Succeeds(Frame, bars)
  /\ Keep(bars) /\ GoOn(bars # NoBars)
  /\ UNCHANGED <<up, barSlot, late, loopVars>>

(* Not connected, or an exception.                                         *)
Fails ==
  /\ pc = "fetch" /\ asked /\ ~up
  /\ RecordFailure
  /\ Keep(slot) /\ GoOn(slot # NoBars)
  /\ UNCHANGED <<up, cacheVars, late, loopVars>>

(* No bars, or error 162: neither a success nor a failure.                 *)
FindsNothing ==
  /\ pc = "fetch" /\ asked
  /\ Keep(NoBars) /\ GoOn(FALSE)
  /\ UNCHANGED <<up, breakerVars, cacheVars, late, loopVars>>

(* The 60 s are over: an exception in the fetcher, which catches it.       *)
TimesOut ==
  /\ pc = "fetch" /\ asked
  /\ late' = late \cup {Frame}
  /\ GoOn(FALSE)
  /\ UNCHANGED <<up, breakerVars, cacheVars, bufferVars, loopVars>>

(* The thread of a request that was given up: only the provider hears it.  *)
LateAnswer(f, bars) ==
  /\ f \in late /\ late' = late \ {f}
  /\ Succeeds(f, bars)
  /\ UNCHANGED <<pc, at, asked, found, up, barSlot, bufferVars, loopVars>>
LateFailure(f) ==
  /\ f \in late /\ late' = late \ {f}
  /\ ~up /\ RecordFailure
  /\ UNCHANGED <<pc, at, asked, found, up, cacheVars, bufferVars, loopVars>>

(* get_latest_bar, for the startup snapshot and in each cycle; without a   *)
(* bar the last row of the cycle's bars stands in.                         *)
BarIs(there) ==
  /\ asked' = FALSE
  /\ IF pc = "boot"
     THEN pc' = "top" /\ UNCHANGED <<at, found>>
     ELSE /\ found' = (found \/ there)
          /\ IF found \/ there THEN pc' = "fetch" /\ at' = 2
                               ELSE pc' = "judge" /\ UNCHANGED at
AskBar ==
  /\ pc \in {"boot", "bar"} /\ ~asked
  /\ breaker' = Read
  /\ IF Open THEN BarIs(barSlot) ELSE asked' = TRUE /\ UNCHANGED <<pc, at, found>>
  /\ UNCHANGED <<up, fails, cacheVars, bufferVars, late, loopVars>>
BarAnswered ==
  /\ pc \in {"boot", "bar"} /\ asked /\ up
  /\ RecordSuccess /\ barSlot' = TRUE /\ BarIs(TRUE)
  /\ UNCHANGED <<up, slot, bufferVars, late, loopVars>>
BarFails ==
  /\ pc \in {"boot", "bar"} /\ asked /\ ~up
  /\ RecordFailure /\ BarIs(barSlot)
  /\ UNCHANGED <<up, cacheVars, bufferVars, late, loopVars>>
NoBar ==
  /\ pc \in {"boot", "bar"} /\ asked
  /\ BarIs(FALSE)
  /\ UNCHANGED <<up, breakerVars, cacheVars, bufferVars, late, loopVars>>

-----------------------------------------------------------------------------
(* The loop.                                                               *)

StartCycle ==
  /\ pc = "top" /\ paused = "no"
  /\ pc' = "fetch" /\ at' = 1 /\ found' = FALSE
  /\ UNCHANGED <<asked, up, breakerVars, cacheVars, bufferVars, late, loopVars>>

(* The data frame of the cycle is the strategy's buffer, unless there is   *)
(* no latest bar.                                                          *)
Usable == found /\ held[Frames[1]] # NoBars

(* VARIANT: bars count as new while their cache is valid.                  *)
StaleCache == Frames[1] \notin valid
(* The stale data guard.                                                   *)
Stale == held[Frames[1]].age = "old"

(* is_connection_error_from_data: nothing usable, and is_connected() says  *)
(* no, which it may also say when the gateway is up.                       *)
JudgedFailed ==
  /\ pc = "judge" /\ ~Usable /\ pc' = "top"
  /\ connFailures' = UpTo(MaxConnFailures, connFailures + 1)
  /\ paused' = (IF connFailures + 1 >= MaxConnFailures /\ PauseOnFailures
                THEN "connection_failures" ELSE paused)
  /\ UNCHANGED <<at, asked, found, up, breakerVars, cacheVars, bufferVars, late>>

(* Nothing usable and the connection looks well: a quiet cycle.            *)
JudgedQuiet ==
  /\ pc = "judge" /\ ~Usable /\ up /\ pc' = "top"
  /\ connFailures' = 0
  /\ UNCHANGED <<at, asked, found, up, breakerVars, cacheVars, bufferVars, late, paused>>

(* Usable data: analysed unless they are stale (or nothing new, if that    *)
(* gate is on).                                                            *)
JudgedGood ==
  /\ pc = "judge" /\ Usable /\ connFailures' = 0
  /\ pc' \in (IF Stale THEN {"top"} ELSE {"top", "analyse"})
  /\ UNCHANGED <<at, asked, found, up, breakerVars, cacheVars, bufferVars, late, paused>>

(* The data quality check raises after the counters were reset; the error  *)
(* may look like one of the connection.                                    *)
CheckRaises ==
  /\ pc = "judge" /\ (Usable \/ up) /\ pc' = "top"
  /\ connFailures' \in {0, 1}
  /\ UNCHANGED <<at, asked, found, up, breakerVars, cacheVars, bufferVars, late, paused>>

Analysed ==
  /\ pc = "analyse" /\ pc' = "top"
  /\ UNCHANGED <<at, asked, found, up, breakerVars, cacheVars, bufferVars, late, loopVars>>

(* The operator, or too many errors of another kind.                       *)
Pause ==
  /\ pc = "top" /\ paused' = "other"
  /\ UNCHANGED <<pc, at, asked, found, up, breakerVars, cacheVars, bufferVars, late, connFailures>>
Resume ==
  /\ pc = "top" /\ paused' = "no" /\ connFailures' = 0
  /\ UNCHANGED <<pc, at, asked, found, up, breakerVars, cacheVars, bufferVars, late>>

-----------------------------------------------------------------------------
(* Time and the gateway.                                                   *)

Aged(bars) == [bars EXCEPT !.age = "old"]
BarsAge ==
  /\ slot' = Aged(slot) /\ held' = [f \in FrameSet |-> Aged(held[f])]
  /\ UNCHANGED <<pc, at, asked, found, up, breakerVars, barSlot, valid, late, loopVars>>
Expire(f) ==
  /\ f \in valid /\ valid' = valid \ {f}
  /\ UNCHANGED <<pc, at, asked, found, up, breakerVars, cacheVars, held, late, loopVars>>
RecoveryDue ==
  /\ breaker = "open" /\ breaker' = "due"
  /\ UNCHANGED <<pc, at, asked, found, up, fails, cacheVars, bufferVars, late, loopVars>>
GatewayTurns ==
  /\ up' = ~up
  /\ UNCHANGED <<pc, at, asked, found, breakerVars, cacheVars, bufferVars, late, loopVars>>

-----------------------------------------------------------------------------
Request ==
  \/ Ask \/ CacheAnswers \/ Fails \/ FindsNothing \/ TimesOut
  \/ \E bars \in Bars : Answered(bars)
  \/ AskBar \/ BarAnswered \/ BarFails \/ NoBar
Judge == JudgedFailed \/ JudgedQuiet \/ JudgedGood \/ CheckRaises
Cycle == StartCycle \/ Request \/ Judge \/ Analysed
LateStep == \E f \in FrameSet : LateFailure(f) \/ (\E bars \in Bars : LateAnswer(f, bars))
Time == BarsAge \/ (\E f \in FrameSet : Expire(f)) \/ RecoveryDue

Next == Cycle \/ LateStep \/ Pause \/ Resume \/ Time \/ GatewayTurns

Spec == Init /\ [][Next]_vars

(* The loop goes on, time passes, and a gateway that is up and is asked    *)
(* for a timeframe again and again delivers bars of it.                    *)
Delivers(i) == at = i /\ \E bars \in FrameBars : Answered(bars)
FairSpec ==
  /\ Spec
  /\ WF_vars(Cycle) /\ WF_vars(BarsAge) /\ WF_vars(RecoveryDue)
  /\ \A f \in FrameSet : WF_vars(Expire(f))
  /\ \A i \in 1..Len(Frames) : SF_vars(Delivers(i))

-----------------------------------------------------------------------------
(* ConnectionCircuitBreaker: whatever calls overlap and however late their *)
(* results come, the breaker lets requests through as closed exactly while *)
(* fewer failures in a row than the threshold were recorded.               *)
ClosedBelowThreshold == breaker = "closed" <=> fails < FailureThreshold

(* "suppress stale-data signals": in an outage that lasts, the cached bars *)
(* that are served instead are analysed no more after a while, although    *)
(* each answer renews the caches they are in.                              *)
OutageSilences == <>[]~up => <>[](pc # "analyse")

(* The step by step half of it: once no new bars are left in the breaker   *)
(* and the buffers, no step of an outage puts new ones there (neither the  *)
(* breaker's answers, nor a renewed cache, nor a late thread), and no      *)
(* analysis begins.                                                        *)
OldBars == slot.age = "old" /\ \A f \in FrameSet : held[f].age = "old"
OutageStaysQuiet ==
  [][~up /\ OldBars => OldBars' /\ (pc' = "analyse" => pc = "analyse")]_vars

(* "half-open: one probe request is allowed through to test recovery":     *)
(* the breaker closes again when the gateway is back, late failures and    *)
(* empty answers notwithstanding.                                          *)
BreakerRecovers == <>[](up /\ paused = "no") => <>[](breaker = "closed")

Own(f) == held[f].frame \in {f, "none"}
(* Bars of another timeframe that an outage put into a buffer leave it     *)
(* again when the gateway is back.                                         *)
OwnBarsReturn ==
  <>[](up /\ paused = "no") => <>[](\A f \in FrameSet : Own(f))
=============================================================================
