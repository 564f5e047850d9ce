------------------------ MODULE SignalJournal_proofs ------------------------
(* Theorems about SignalJournal, for any number of signals, any windows of  *)
(* the readers and any number of failed writes and restarts.                *)
EXTENDS SignalJournal, FiniteSetTheorems, WellFoundedInduction, TLAPS

-----------------------------------------------------------------------------
(* The inductive invariants. *)

Generated(s) == {i \in DOMAIN rows[s] : rows[s][i].status = "generated"}

(* The signal in hand has no exit yet, and until EnqueueRow no first row.   *)
Entering == {"save", "enqueue", "execute", "enterRow"}

(* Every line is of a signal that was admitted, and an entry is in hand only *)
(* when there is one.                                                        *)
MadeInv ==
  /\ \A i \in DOMAIN journal : journal[i].id <= made
  /\ cache # None => \A i \in DOMAIN cache.lines : cache.lines[i].id <= made
  /\ pc \in Entering \union {"enterLine"} => made > 0

(* A signal has one row "generated" at most; while it waits in the queue it  *)
(* has none, and neither have the signals to come.                           *)
QueueInv ==
  /\ \A s \in Ids : \A i, j \in Generated(s) : i = j
  /\ \A s \in queue : Generated(s) = {}
  /\ \A s \in Ids : s > made => rows[s] = <<>>
  /\ pc \in {"save", "enqueue"} => made \notin queue /\ Generated(made) = {}

(* Between two exits of a signal its row "generated" has landed, and no     *)
(* entry follows an exit.  A trade about to get the row "exited" does not   *)
(* end with one.                                                            *)
ExitsInv ==
  /\ \A s \in Ids : \A i, j \in ExitedRows(s) :
       i < j => \E k \in Generated(s) : i < k /\ k < j
  /\ \A s \in Ids : \A i \in ExitedRows(s) : \A j \in DOMAIN rows[s] :
       j > i => rows[s][j].status # "entered"
  /\ pc \in Entering => ExitedRows(made) = {}
  /\ pc = "exitRow" /\ rows[exit.id] # <<>> => Last(rows[exit.id]).status # "exited"

(* A booking, made or about to be made, has its row "exited" or a failed    *)
(* write.                                                                   *)
Pending(s) == IF pc \in {"exitLine", "record"} /\ exit.id = s THEN 1 ELSE 0
CountInv ==
  \A s \in Ids :
    Cardinality(Bookings(s)) + Pending(s) <= Cardinality(ExitedRows(s)) + faults

(* And a row "exited" has its booking, unless that is still to be made, or   *)
(* the process ended before it, or a write failed.                          *)
MissedInv ==
  \A s \in Ids :
    Cardinality(ExitedRows(s)) <= Cardinality(Bookings(s)) + Pending(s) + restarts + faults

(* A row has no data only when no row "generated" came first, and, without  *)
(* the adapter, only as an exit; an exit in hand and a booking have none    *)
(* only under the adapter.                                                  *)
Bare(s) == mode.adapter /\ rows[s] # <<>> /\ rows[s][1].status # "generated"
WholeInv ==
  /\ \A s \in Ids : \A i \in DOMAIN rows[s] : ~rows[s][i].whole =>
       /\ rows[s][1].status # "generated"
       /\ mode.adapter \/ rows[s][i].status = "exited"
  /\ exit # None /\ ~exit.whole => Bare(exit.id)
  /\ \A i \in DOMAIN performance : ~performance[i].whole => Bare(performance[i].id)

(* What the cache holds are the last lines of the journal as it was when it *)
(* had m lines; the lines that came after are exits, or entries of signals  *)
(* whose line "generated" could not be written.                             *)
Before(limit, m) == IF m > limit THEN m - limit ELSE 0
Harmless(k) ==
  \/ journal[k].status = "exited"
  \/ journal[k].status = "entered" /\ ~HasLine(journal, journal[k].id, "generated")
CachedAt(m) ==
  /\ Len(cache.lines) = m - Before(cache.limit, m)
  /\ \A i \in 1..Len(cache.lines) : cache.lines[i] = journal[Before(cache.limit, m) + i]
  /\ \A k \in (m + 1)..Len(journal) : Harmless(k)
CacheInv ==
  /\ cache # None => \E m \in 0..Len(journal) : CachedAt(m)
  /\ pc = "save" => ~HasLine(journal, made, "generated")
  /\ pc \in {"enqueue", "execute", "enterRow", "enterLine"} /\ cache # None
       => ~HasLine(journal, made, "generated")

-----------------------------------------------------------------------------
(* Least and greatest elements, which Min and Max choose.                   *)

LEMMA LeastElement ==
  ASSUME NEW S \in SUBSET Nat, S # {}
  PROVE  \E m \in S : \A x \in S : m <= x
<1>. DEFINE R == OpToRel(<, Nat)
<1>1. IsWellFoundedOn(R, Nat)
  BY NatLessThanWellFounded
<1>2. \A x, y \in Nat : x < y => <<x, y>> \in R
  BY DEF OpToRel
<1>. HIDE DEF R
<1>3. PICK m \in S : \A x \in S : ~ (<<x, m>> \in R)
  BY <1>1, WFMin, Zenon
<1>4. \A x \in S : ~(x < m)
  BY <1>2, <1>3
<1>5. m \in Nat /\ \A x \in S : x \in Nat
  OBVIOUS
<1>6. \A x \in S : m <= x
  BY <1>4, <1>5
<1>. QED  BY <1>6

LEMMA MinFacts ==
  ASSUME NEW S \in SUBSET Nat, S # {}
  PROVE  Min(S) \in S /\ \A x \in S : Min(S) <= x
BY LeastElement DEF Min

LEMMA MaxFacts ==
  ASSUME NEW n \in Nat, NEW S \in SUBSET (1..n), S # {}
  PROVE  Max(S) \in S /\ \A x \in S : x <= Max(S)
<1>. DEFINE T == {x \in 0..n : n - x \in S}
<1>1. T \in SUBSET Nat
  OBVIOUS
<1>2. \A x \in S : n - x \in T
  OBVIOUS
<1>3. T # {}
  BY <1>2
<1>. HIDE DEF T
<1>4. PICK t \in T : \A y \in T : t <= y
  BY <1>1, <1>3, LeastElement
<1>5. n - t \in S /\ t \in Nat
  BY <1>4 DEF T
<1>6. \A x \in S : x <= n - t
  BY <1>2, <1>4, <1>5
<1>. QED  BY <1>5, <1>6 DEF Max

-----------------------------------------------------------------------------
(* Reading the journal.                                                     *)

\* The last line of a signal tells whether its trade is open.
LEMMA LatestEntered ==
  ASSUME NEW lines \in Seq(Line), NEW s \in Ids
  PROVE  LatestStatus(lines, s) = "entered" <=>
         \E i \in 1..Len(lines) :
           /\ lines[i].id = s /\ lines[i].status = "entered"
           /\ \A j \in 1..Len(lines) : j > i => lines[j].id # s
<1>. DEFINE I == {i \in 1..Len(lines) : lines[i].id = s}
<1>0. Len(lines) \in Nat /\ I \in SUBSET (1..Len(lines)) /\ None # "entered"
  BY NoneAssumption DEF Statuses
<1>1. CASE I = {}
  <2>1. LatestStatus(lines, s) = None
    BY <1>1 DEF LatestStatus, SelectLastInSeq
  <2>. QED  BY <1>0, <1>1, <2>1
<1>2. CASE I # {}
  <2>. DEFINE top == Max(I)
  <2>. HIDE DEF I
  <2>1. top \in I /\ \A x \in I : x <= top
    BY <1>0, <1>2, MaxFacts
  <2>2. SelectLastInSeq(lines, LAMBDA line : line.id = s) = top
    BY <1>2 DEF SelectLastInSeq, I
  <2>. HIDE DEF top
  <2>3. LatestStatus(lines, s) = lines[top].status
    BY <1>0, <2>1, <2>2 DEF LatestStatus, I
  <2>. HIDE DEF LatestStatus
  <2>. QED  BY <1>0, <2>1, <2>3 DEF I
<1>. QED  BY <1>1, <1>2

\* An open trade has a line.
LEMMA OpenHasLine ==
  ASSUME NEW lines \in Seq(Line), NEW s \in OpenIn(lines)
  PROVE  s \in Ids /\ \E i \in 1..Len(lines) : lines[i].id = s
BY LatestEntered DEF OpenIn

LEMMA LastLinesFacts ==
  ASSUME NEW lines \in Seq(Line), NEW n \in Nat
  PROVE  /\ LastLines(lines, n) \in Seq(Line)
         /\ Len(LastLines(lines, n)) = Len(lines) - Before(n, Len(lines))
         /\ \A i \in 1..Len(LastLines(lines, n)) :
              LastLines(lines, n)[i] = lines[Before(n, Len(lines)) + i]
<1>1. Len(lines) \in Nat
  OBVIOUS
<1>2. CASE Len(lines) > n
  BY <1>1, <1>2 DEF LastLines, Before
<1>3. CASE ~(Len(lines) > n)
  BY <1>1, <1>3 DEF LastLines, Before
<1>. QED  BY <1>2, <1>3

Limits == {Window, Wide}
LEMMA LimitTypes == Limits \subseteq Nat
BY BoundsAssumption DEF Limits

\* What a reader gets, and what the cache keeps of it.
LEMMA RecentFacts ==
  ASSUME TypeOK, MadeInv, NEW limit \in Limits
  PROVE  /\ Recent(limit) \in Seq(Line)
         /\ \A i \in 1..Len(Recent(limit)) : Recent(limit)[i].id <= made
<1>0. limit \in Nat
  BY LimitTypes
<1>1. CASE Hit(limit)
  <2>. DEFINE lines == cache.lines
  <2>1. lines \in Seq(Line) /\ \A i \in 1..Len(lines) : lines[i].id <= made
    BY <1>1 DEF Hit, TypeOK, MadeInv
  <2>2. Recent(limit) = LastLines(lines, limit)
    BY <1>1 DEF Recent
  <2>. HIDE DEF lines
  <2>. QED  BY <1>0, <2>1, <2>2, LastLinesFacts DEF Before
<1>2. CASE ~Hit(limit)
  <2>1. journal \in Seq(Line) /\ \A i \in 1..Len(journal) : journal[i].id <= made
    BY DEF TypeOK, MadeInv
  <2>2. Recent(limit) = LastLines(journal, limit)
    BY <1>2 DEF Recent
  <2>. QED  BY <1>0, <2>1, <2>2, LastLinesFacts DEF Before
<1>. QED  BY <1>1, <1>2

LEMMA ReadsFacts ==
  ASSUME TypeOK, MadeInv, NEW limit \in Limits, Reads(limit)
  PROVE  \/ cache' = cache /\ cache # None
         \/ /\ cache'.lines = LastLines(journal, limit) /\ cache'.limit = limit
            /\ cache'.lines \in Seq(Line) /\ cache'.limit \in Limits
            /\ \A i \in 1..Len(cache'.lines) : cache'.lines[i].id <= made
<1>1. CASE Hit(limit)
  BY <1>1 DEF Reads, Hit
<1>2. CASE ~Hit(limit)
  <2>1. journal \in Seq(Line) /\ \A i \in 1..Len(journal) : journal[i].id <= made
    BY DEF TypeOK, MadeInv
  <2>2. cache'.lines = LastLines(journal, limit) /\ cache'.limit = limit
    BY <1>2 DEF Reads
  <2>3. limit \in Nat
    BY LimitTypes
  <2>. QED  BY <2>1, <2>2, <2>3, LastLinesFacts DEF Before
<1>. QED  BY <1>1, <1>2

-----------------------------------------------------------------------------
(* Writing.                                                                 *)

\* A row is added to those of a signal.
Grown(s, status, whole) ==
  /\ DOMAIN rows' = Ids /\ \A x \in Ids : x # s => rows'[x] = rows[x]
  /\ rows'[s] \in Seq(Row) /\ rows'[s] # <<>>
  /\ Len(rows[s]) \in Nat /\ Len(rows'[s]) = Len(rows[s]) + 1
  /\ DOMAIN rows[s] = 1..Len(rows[s]) /\ DOMAIN rows'[s] = 1..(Len(rows[s]) + 1)
  /\ \A i \in 1..Len(rows[s]) : rows'[s][i] = rows[s][i]
  /\ rows'[s][Len(rows[s]) + 1] = [status |-> status, whole |-> whole]

LEMMA AddRowFacts ==
  ASSUME TypeOK, NEW s \in Ids, NEW status \in Statuses, NEW whole \in BOOLEAN,
         AddRow(s, status, whole)
  PROVE  \/ rows' = rows /\ faults' = faults + 1 /\ restarts + faults < MaxTroubles
         \/ faults' = faults /\ Grown(s, status, whole)
<1>1. CASE rows' = [rows EXCEPT ![s] = Append(@, [status |-> status, whole |-> whole])]
           /\ UNCHANGED faults
  <2>. DEFINE old == rows[s]
              row == [status |-> status, whole |-> whole]
              new == Append(old, row)
  <2>1. old \in Seq(Row) /\ row \in Row /\ DOMAIN rows = Ids
    BY DEF TypeOK, Row
  <2>2. rows'[s] = new /\ DOMAIN rows' = Ids /\ \A x \in Ids : x # s => rows'[x] = rows[x]
    BY <1>1, <2>1
  <2>. HIDE DEF old, row
  <2>3. /\ new \in Seq(Row) /\ new # <<>>
        /\ Len(old) \in Nat /\ Len(new) = Len(old) + 1
        /\ DOMAIN old = 1..Len(old) /\ DOMAIN new = 1..(Len(old) + 1)
        /\ \A i \in 1..Len(old) : new[i] = old[i]
        /\ new[Len(old) + 1] = row
    BY <2>1
  <2>. HIDE DEF new
  <2>. QED  BY <1>1, <2>2, <2>3 DEF Grown, old, row
<1>2. CASE Fault /\ UNCHANGED rows
  BY <1>2 DEF Fault
<1>. QED  BY <1>1, <1>2 DEF AddRow

\* A line is added to the journal.
Written(s, status) ==
  /\ journal' \in Seq(Line)
  /\ Len(journal) \in Nat /\ Len(journal') = Len(journal) + 1
  /\ \A i \in 1..Len(journal) : journal'[i] = journal[i]
  /\ journal'[Len(journal) + 1] = [id |-> s, status |-> status]

LEMMA AppendLineFacts ==
  ASSUME TypeOK, NEW s \in Ids, NEW status \in Statuses,
         journal' = Append(journal, [id |-> s, status |-> status])
  PROVE  Written(s, status)
<1>. DEFINE line == [id |-> s, status |-> status]
<1>1. line \in Line /\ journal \in Seq(Line)
  BY DEF Line, TypeOK
<1>2. journal' = Append(journal, line)
  OBVIOUS
<1>. HIDE DEF line
<1>3. /\ journal' \in Seq(Line)
      /\ Len(journal) \in Nat /\ Len(journal') = Len(journal) + 1
      /\ \A i \in 1..Len(journal) : journal'[i] = journal[i]
      /\ journal'[Len(journal) + 1] = line
  BY <1>1, <1>2
<1>. QED  BY <1>3 DEF Written, line

LEMMA AddLineFacts ==
  ASSUME TypeOK, NEW s \in Ids, NEW status \in Statuses, AddLine(s, status)
  PROVE  /\ journal' = journal \/ Written(s, status)
         /\ faults' = faults \/ (faults' = faults + 1 /\ restarts + faults < MaxTroubles)
BY AppendLineFacts DEF AddLine, Fault

\* What is about to be closed was admitted.
LEMMA ToClose ==
  ASSUME TypeOK, MadeInv, NEW limit \in Limits, NEW S, S \subseteq Ids,
         \A s \in S : \E i \in 1..Len(Recent(limit)) : Recent(limit)[i].id = s
  PROVE  S \subseteq 1..made
<1>1. made \in Nat /\ \A s \in S : s \in Nat /\ s > 0
  BY DEF TypeOK, Ids
<1>. QED  BY <1>1, RecentFacts

LEMMA Closable ==
  ASSUME TypeOK, MadeInv
  PROVE  /\ Candidates(Recent(Window)) \subseteq 1..made
         /\ {s \in Ids : HasLine(Recent(Wide), s, "entered")} \subseteq 1..made
<1>1. Recent(Window) \in Seq(Line) /\ Recent(Wide) \in Seq(Line) /\ Window \in Limits /\ Wide \in Limits
  BY RecentFacts DEF Limits
<1>2. Candidates(Recent(Window)) \subseteq 1..made
  <2>1. Candidates(Recent(Window)) \subseteq OpenIn(Recent(Window))
    BY DEF Candidates
  <2>2. \A s \in Candidates(Recent(Window)) :
          s \in Ids /\ \E i \in 1..Len(Recent(Window)) : Recent(Window)[i].id = s
    BY <1>1, <2>1, OpenHasLine
  <2>. QED  BY <1>1, <2>2, ToClose
<1>3. {s \in Ids : HasLine(Recent(Wide), s, "entered")} \subseteq 1..made
  <2>. DEFINE S == {s \in Ids : HasLine(Recent(Wide), s, "entered")}
  <2>1. \A s \in S : \E i \in 1..Len(Recent(Wide)) : Recent(Wide)[i].id = s
    BY <1>1 DEF HasLine
  <2>2. S \subseteq Ids
    OBVIOUS
  <2>. HIDE DEF S
  <2>3. S \subseteq 1..made
    BY <1>1, <2>1, <2>2, ToClose
  <2>. QED  BY <2>3 DEF S
<1>. QED  BY <1>2, <1>3

-----------------------------------------------------------------------------
(* Types.                                                                   *)

LEMMA MadeTypes ==
  ASSUME TypeOK PROVE made \in Nat /\ Ids \subseteq Nat /\ 1..made \subseteq Ids
BY BoundsAssumption DEF TypeOK, Ids

LEMMA TypeInit == Init => TypeOK
<1>. SUFFICES ASSUME Init PROVE TypeOK
  OBVIOUS
<1>1. made \in 0..MaxSignals /\ restarts + faults <= MaxTroubles /\ restarts \in Nat /\ faults \in Nat
  BY BoundsAssumption DEF Init
<1>2. journal \in Seq(Line) /\ performance \in Seq(Booking) /\ DOMAIN rows = Ids
      /\ \A s \in Ids : rows[s] \in Seq(Row)
  BY DEF Init
<1>. QED  BY <1>1, <1>2 DEF Init, TypeOK, Places, Bookkeeping

LEMMA TypeReads ==
  ASSUME TypeOK, MadeInv, NEW limit \in Limits, Reads(limit)
  PROVE  cache' = None \/ (cache'.lines \in Seq(Line) /\ cache'.limit \in {Window, Wide})
BY ReadsFacts DEF TypeOK, Limits

LEMMA TypeRow ==
  ASSUME TypeOK, NEW s \in Ids, NEW status \in Statuses, NEW whole \in BOOLEAN,
         AddRow(s, status, whole), restarts' = restarts
  PROVE  /\ DOMAIN rows' = Ids /\ \A x \in Ids : rows'[x] \in Seq(Row)
         /\ restarts' \in Nat /\ faults' \in Nat /\ restarts' + faults' <= MaxTroubles
<1>1. restarts \in Nat /\ faults \in Nat /\ MaxTroubles \in Nat
  BY BoundsAssumption DEF TypeOK
<1>2. DOMAIN rows' = Ids /\ \A x \in Ids : rows'[x] \in Seq(Row)
  BY AddRowFacts DEF Grown, TypeOK
<1>3. faults' = faults \/ (faults' = faults + 1 /\ restarts + faults < MaxTroubles)
  BY AddRowFacts
<1>. QED  BY <1>1, <1>2, <1>3 DEF TypeOK

LEMMA TypeLine ==
  ASSUME TypeOK, NEW s \in Ids, NEW status \in Statuses, AddLine(s, status),
         restarts' = restarts
  PROVE  /\ journal' \in Seq(Line)
         /\ restarts' \in Nat /\ faults' \in Nat /\ restarts' + faults' <= MaxTroubles
<1>1. restarts \in Nat /\ faults \in Nat /\ MaxTroubles \in Nat
  BY BoundsAssumption DEF TypeOK
<1>2. /\ journal' = journal \/ journal' \in Seq(Line)
      /\ faults' = faults \/ (faults' = faults + 1 /\ restarts + faults < MaxTroubles)
  BY AddLineFacts DEF Written
<1>3. journal \in Seq(Line) /\ restarts + faults <= MaxTroubles
  BY DEF TypeOK
<1>. QED  BY <1>1, <1>2, <1>3

LEMMA TypeFault ==
  ASSUME TypeOK, Fault, restarts' = restarts
  PROVE  restarts' \in Nat /\ faults' \in Nat /\ restarts' + faults' <= MaxTroubles
<1>1. restarts \in Nat /\ faults \in Nat /\ MaxTroubles \in Nat
  BY BoundsAssumption DEF TypeOK
<1>2. restarts + faults < MaxTroubles /\ faults' = faults + 1
  BY DEF Fault
<1>. QED  BY <1>1, <1>2

LEMMA TypeStep == TypeOK /\ MadeInv /\ [Next]_vars => TypeOK'
<1>. SUFFICES ASSUME TypeOK, MadeInv, [Next]_vars PROVE TypeOK'
  OBVIOUS
<1>. USE DEF Places, Bookkeeping, diskVars, exitVars
<1>0. Window \in Limits /\ Wide \in Limits
  BY DEF Limits
<1>1. CASE CheckCircuitBreaker
  <2>1. made' \in 0..MaxSignals /\ 1..made \subseteq 1..made' /\ pc' \in {"signals", "save"}
    BY <1>1, BoundsAssumption DEF CheckCircuitBreaker, TypeOK
  <2>2. cache' = None \/ (cache'.lines \in Seq(Line) /\ cache'.limit \in {Window, Wide})
    BY <1>0, <1>1, TypeReads DEF CheckCircuitBreaker, TypeOK
  <2>. QED  BY <1>1, <2>1, <2>2 DEF CheckCircuitBreaker, TypeOK
<1>2. CASE SaveSignal
  <2>1. made \in Ids
    BY <1>2, MadeTypes DEF SaveSignal, MadeInv, Entering, TypeOK
  <2>2. journal' \in Seq(Line)
    BY <1>2, <2>1, AppendLineFacts DEF SaveSignal, Written, Statuses, TypeOK
  <2>3. restarts' \in Nat /\ faults' \in Nat /\ restarts' + faults' <= MaxTroubles
    BY <1>2, TypeFault DEF SaveSignal, TypeOK
  <2>. QED  BY <1>2, <2>2, <2>3 DEF SaveSignal, Validated, TypeOK
<1>3. CASE EnqueueRow
  <2>1. made \in 1..made
    BY <1>3, MadeTypes DEF EnqueueRow, MadeInv, Entering
  <2>2. restarts' \in Nat /\ faults' \in Nat /\ restarts' + faults' <= MaxTroubles
    BY <1>3, TypeFault DEF EnqueueRow, TypeOK
  <2>. QED  BY <1>3, <2>1, <2>2 DEF EnqueueRow, Validated, TypeOK
<1>4. CASE ExecuteSignal \/ SignalsDone
  <2>1. pc' \in {"enterRow", "signals", "exits"} /\ pc \in {"execute", "signals"}
        /\ UNCHANGED <<mode, made, diskVars, cache, queue, live, exitVars, restarts, faults>>
    BY <1>4 DEF ExecuteSignal, SignalsDone
  <2>. QED  BY <2>1 DEF TypeOK
<1>5. CASE EnterRow
  <2>. DEFINE whole == ~mode.adapter \/ (rows[made] # <<>> /\ Last(rows[made]).whole)
  <2>1. made \in Ids /\ "entered" \in Statuses
    BY <1>5, MadeTypes DEF EnterRow, MadeInv, Entering, TypeOK, Statuses
  <2>2. whole \in BOOLEAN
    OBVIOUS
  <2>3. AddRow(made, "entered", whole) /\ restarts' = restarts
    BY <1>5 DEF EnterRow
  <2>. HIDE DEF whole
  <2>4. /\ DOMAIN rows' = Ids /\ \A x \in Ids : rows'[x] \in Seq(Row)
        /\ restarts' \in Nat /\ faults' \in Nat /\ restarts' + faults' <= MaxTroubles
    BY <2>1, <2>2, <2>3, TypeRow
  <2>. QED  BY <1>5, <2>4 DEF EnterRow, TypeOK
<1>6. CASE EnterLine
  <2>1. made \in Ids /\ "entered" \in Statuses
    BY <1>6, MadeTypes DEF EnterLine, MadeInv, TypeOK, Statuses
  <2>2. /\ journal' \in Seq(Line)
        /\ restarts' \in Nat /\ faults' \in Nat /\ restarts' + faults' <= MaxTroubles
    BY <1>6, <2>1, TypeLine DEF EnterLine
  <2>. QED  BY <1>6, <2>2 DEF EnterLine, TypeOK
<1>7. CASE ProcessExits
  <2>1. cache' = None \/ (cache'.lines \in Seq(Line) /\ cache'.limit \in {Window, Wide})
    BY <1>0, <1>7, TypeReads DEF ProcessExits, TypeOK
  <2>2. todo' \subseteq 1..made
    BY <1>7, Closable DEF ProcessExits, TypeOK
  <2>. QED  BY <1>7, <2>1, <2>2 DEF ProcessExits, TypeOK
<1>8. CASE CloseRequests
  <2>1. cache' = None \/ (cache'.lines \in Seq(Line) /\ cache'.limit \in {Window, Wide})
    BY <1>0, <1>8, TypeReads DEF CloseRequests, TypeOK
  <2>2. todo' \subseteq 1..made
    BY <1>8, Closable DEF CloseRequests, TypeOK
  <2>. QED  BY <1>8, <2>1, <2>2 DEF CloseRequests, TypeOK
<1>9. CASE TrackDone
  BY <1>9 DEF TrackDone, TypeOK
<1>10. CASE TrackExit
  <2>. DEFINE s == Min(todo)
              record == SignalRecord(s)
  <2>1. s \in todo /\ todo \subseteq 1..made /\ s \in Ids
    BY <1>10, MadeTypes, MinFacts DEF TrackExit, TypeOK
  <2>2. CASE record = None \/ record.status = "exited"
    <3>1. Through(s) /\ UNCHANGED <<pc, exit>>
      BY <1>10, <2>2 DEF TrackExit
    <3>. QED  BY <1>10, <2>1, <3>1 DEF TrackExit, Through, TypeOK
  <2>3. CASE ~(record = None \/ record.status = "exited")
    <3>1. exit' = [id |-> s, whole |-> record.whole] /\ pc' = "exitRow" /\ UNCHANGED <<todo, processed>>
      BY <1>10, <2>3 DEF TrackExit
    <3>2. record.whole \in BOOLEAN
      <4>1. CASE rows[s] # <<>>
        <5>1. Last(rows[s]) \in Row
          BY <2>1, <4>1 DEF TypeOK, Last
        <5>. QED  BY <4>1, <5>1 DEF SignalRecord, Row
      <4>2. CASE rows[s] = <<>>
        BY <2>3, <4>2 DEF SignalRecord
      <4>. QED  BY <4>1, <4>2
    <3>. HIDE DEF s, record
    <3>3. exit' \in Booking /\ exit' # None /\ exit'.id = s
      BY <2>1, <3>1, <3>2, NoneAssumption DEF Booking
    <3>. QED  BY <1>10, <2>1, <3>1, <3>3 DEF TrackExit, TypeOK
  <2>. QED  BY <2>2, <2>3
<1>11. CASE ExitRow
  <2>. DEFINE whole == rows[exit.id] # <<>> /\ Last(rows[exit.id]).whole
  <2>1. exit.id \in Ids /\ "exited" \in Statuses
    BY <1>11, MadeTypes DEF ExitRow, TypeOK, Statuses
  <2>2. whole \in BOOLEAN
    OBVIOUS
  <2>3. AddRow(exit.id, "exited", whole) /\ restarts' = restarts
    BY <1>11 DEF ExitRow
  <2>. HIDE DEF whole
  <2>4. /\ DOMAIN rows' = Ids /\ \A x \in Ids : rows'[x] \in Seq(Row)
        /\ restarts' \in Nat /\ faults' \in Nat /\ restarts' + faults' <= MaxTroubles
    BY <2>1, <2>2, <2>3, TypeRow
  <2>. QED  BY <1>11, <2>4 DEF ExitRow, TypeOK
<1>12. CASE ExitLine
  <2>1. exit.id \in Ids /\ "exited" \in Statuses
    BY <1>12, MadeTypes DEF ExitLine, TypeOK, Statuses
  <2>2. /\ journal' \in Seq(Line)
        /\ restarts' \in Nat /\ faults' \in Nat /\ restarts' + faults' <= MaxTroubles
    BY <1>12, <2>1, TypeLine DEF ExitLine
  <2>. QED  BY <1>12, <2>2 DEF ExitLine, TypeOK
<1>13. CASE SavePerformance
  <2>1. exit \in Booking /\ exit.id \in 1..made
    BY <1>13 DEF SavePerformance, TypeOK
  <2>2. performance' \in Seq(Booking)
    BY <1>13, <2>1 DEF SavePerformance, TypeOK
  <2>3. restarts' \in Nat /\ faults' \in Nat /\ restarts' + faults' <= MaxTroubles
    BY <1>13, TypeFault DEF SavePerformance, TypeOK
  <2>. QED  BY <1>13, <2>1, <2>2, <2>3 DEF SavePerformance, Through, TypeOK
<1>14. CASE SyncWithBroker \/ SaveState \/ CacheExpires
  <2>1. cache' = None \/ (cache'.lines \in Seq(Line) /\ cache'.limit \in {Window, Wide})
    BY <1>0, <1>14, TypeReads DEF SyncWithBroker, SaveState, CacheExpires, TypeOK
  <2>2. pc' \in {"state", "close", pc} /\ pc \notin Bookkeeping
        /\ UNCHANGED <<mode, made, diskVars, queue, live, exitVars, restarts, faults>>
    BY <1>14 DEF SyncWithBroker, SaveState, CacheExpires
  <2>. QED  BY <2>1, <2>2 DEF TypeOK
<1>15. ASSUME NEW s \in Ids, RowLands(s) PROVE TypeOK'
  <2>1. AddRow(s, "generated", TRUE) /\ restarts' = restarts /\ "generated" \in Statuses
    BY <1>15 DEF RowLands, Statuses
  <2>2. /\ DOMAIN rows' = Ids /\ \A x \in Ids : rows'[x] \in Seq(Row)
        /\ restarts' \in Nat /\ faults' \in Nat /\ restarts' + faults' <= MaxTroubles
    BY <2>1, TypeRow
  <2>. QED  BY <1>15, <2>2 DEF RowLands, TypeOK
<1>16. CASE PositionEvent
  BY <1>16 DEF PositionEvent, TypeOK
<1>17. CASE Restart
  <2>1. restarts \in Nat /\ faults \in Nat /\ MaxTroubles \in Nat
    BY BoundsAssumption DEF TypeOK
  <2>2. restarts' \in Nat /\ faults' \in Nat /\ restarts' + faults' <= MaxTroubles
    BY <1>17, <2>1 DEF Restart
  <2>3. /\ pc' = "close" /\ cache' = None /\ queue' = {} /\ live' = FALSE
        /\ todo' = {} /\ during' = "close" /\ exit' = None /\ processed' = {}
        /\ UNCHANGED <<mode, made, diskVars>>
    BY <1>17 DEF Restart
  <2>. QED  BY <2>2, <2>3 DEF TypeOK
<1>18. CASE UNCHANGED vars
  BY <1>18 DEF vars, TypeOK
<1>. QED  BY <1>1, <1>2, <1>3, <1>4, <1>5, <1>6, <1>7, <1>8, <1>9, <1>10, <1>11, <1>12, <1>13,
             <1>14, <1>15, <1>16, <1>17, <1>18 DEF Next, Loop

-----------------------------------------------------------------------------
(* The signals of the record were admitted.                                 *)

LEMMA LineFacts ==
  ASSUME NEW lines \in Seq(Line)
  PROVE  /\ Len(lines) \in Nat /\ DOMAIN lines = 1..Len(lines)
         /\ \A i \in 1..Len(lines) :
              lines[i].id \in Ids /\ lines[i].id \in Nat /\ lines[i].status \in Statuses
<1>1. \A i \in 1..Len(lines) : lines[i] \in Line
  OBVIOUS
<1>. QED  BY <1>1, BoundsAssumption DEF Line, Ids

LEMMA MadeStep == TypeOK /\ MadeInv /\ [Next]_vars => MadeInv'
<1>. SUFFICES ASSUME TypeOK, MadeInv, [Next]_vars PROVE MadeInv'
  OBVIOUS
<1>. USE DEF Entering, diskVars, exitVars
<1>0. made \in Nat /\ Len(journal) \in Nat /\ DOMAIN journal = 1..Len(journal)
      /\ \A i \in DOMAIN journal : journal[i].id \in Nat
  <2>1. made \in Nat /\ journal \in Seq(Line)
    BY MadeTypes DEF TypeOK
  <2>. QED  BY <2>1, LineFacts
<1>1. ASSUME UNCHANGED journal, made' = made \/ made' = made + 1,
             \/ cache' = cache \/ cache' = None \/ Reads(Window) \/ Reads(Wide),
             pc' \in Entering \union {"enterLine"} => made' > 0
      PROVE  MadeInv'
  <2>1. cache' # None => \A i \in DOMAIN cache'.lines :
                           cache'.lines[i].id \in Nat /\ cache'.lines[i].id <= made
    <3>1. CASE cache' = cache \/ cache' = None
      <4>1. cache # None => /\ cache.lines \in Seq(Line)
                            /\ \A i \in DOMAIN cache.lines : cache.lines[i].id <= made
        BY DEF TypeOK, MadeInv
      <4>. QED  BY <3>1, <4>1, LineFacts
    <3>2. CASE Reads(Window) \/ Reads(Wide)
      <4>1. \/ cache' = cache /\ cache # None
            \/ cache'.lines \in Seq(Line) /\ \A i \in 1..Len(cache'.lines) : cache'.lines[i].id <= made
        BY <3>2, ReadsFacts DEF Limits
      <4>2. cache # None => /\ cache.lines \in Seq(Line)
                            /\ \A i \in DOMAIN cache.lines : cache.lines[i].id <= made
        BY DEF TypeOK, MadeInv
      <4>. QED  BY <4>1, <4>2, LineFacts
    <3>. QED  BY <1>1, <3>1, <3>2
  <2>. QED  BY <1>0, <1>1, <2>1 DEF MadeInv
<1>2. ASSUME NEW s \in Ids, NEW status, Written(s, status), s <= made, made' = made,
             cache' = cache \/ cache' = None, pc' \in Entering => made > 0
      PROVE  MadeInv' \/ pc' = "enterLine"
  <2>1. \A i \in DOMAIN journal' : journal'[i].id <= made
    BY <1>0, <1>2 DEF Written, MadeInv
  <2>. QED  BY <1>2, <2>1 DEF MadeInv
<1>3. CASE CheckCircuitBreaker
  <2>1. pc' \in Entering \union {"enterLine"} => made' > 0
    BY <1>0, <1>3 DEF CheckCircuitBreaker
  <2>. QED  BY <1>1, <1>3, <2>1 DEF CheckCircuitBreaker
<1>4. CASE SaveSignal
  <2>1. made \in Ids /\ made > 0
    BY <1>4, MadeTypes DEF SaveSignal, MadeInv
  <2>2. CASE journal' = Append(journal, [id |-> made, status |-> "generated"])
    <3>1. Written(made, "generated")
      BY <2>1, <2>2, AppendLineFacts DEF Statuses
    <3>. QED  BY <1>0, <1>2, <1>4, <2>1, <3>1 DEF SaveSignal, Validated
  <2>3. CASE UNCHANGED <<journal, cache>>
    BY <1>1, <1>4, <2>1, <2>3 DEF SaveSignal
  <2>. QED  BY <1>4, <2>2, <2>3 DEF SaveSignal
<1>5. CASE EnqueueRow \/ ExecuteSignal \/ EnterRow \/ ExitRow \/ SavePerformance
  <2>1. pc' \in Entering \union {"enterLine"} => made' > 0
    BY <1>5 DEF EnqueueRow, ExecuteSignal, EnterRow, ExitRow, SavePerformance, Validated, MadeInv
  <2>. QED  BY <1>1, <1>5, <2>1 DEF EnqueueRow, ExecuteSignal, EnterRow, ExitRow, SavePerformance
<1>6. CASE EnterLine \/ ExitLine
  <2>. DEFINE s == IF EnterLine THEN made ELSE exit.id
              status == IF EnterLine THEN "entered" ELSE "exited"
  <2>1. s \in Ids /\ s <= made /\ status \in Statuses /\ AddLine(s, status)
    <3>1. CASE EnterLine
      BY <3>1, MadeTypes DEF EnterLine, MadeInv, TypeOK, Statuses
    <3>2. CASE ExitLine /\ ~EnterLine
      <4>1. exit.id \in 1..made
        BY <3>2 DEF ExitLine, TypeOK, Bookkeeping
      <4>. QED  BY <3>2, <4>1, MadeTypes DEF ExitLine, Statuses
    <3>. QED  BY <1>6, <3>1, <3>2
  <2>2. pc' \notin Entering \union {"enterLine"} /\ made' = made /\ cache' = cache
    BY <1>6 DEF EnterLine, ExitLine
  <2>. HIDE DEF s, status
  <2>3. journal' = journal \/ Written(s, status)
    BY <2>1, AddLineFacts
  <2>. QED  BY <1>1, <1>2, <2>1, <2>2, <2>3
<1>7. CASE \/ SignalsDone \/ ProcessExits \/ CloseRequests \/ TrackExit \/ TrackDone
           \/ SyncWithBroker \/ SaveState \/ Restart
  <2>1. pc' \notin Entering \union {"enterLine"}
    BY <1>7 DEF SignalsDone, ProcessExits, CloseRequests, TrackExit, TrackDone, SyncWithBroker,
                SaveState, Restart
  <2>2. UNCHANGED <<journal, made>>
    BY <1>7 DEF SignalsDone, ProcessExits, CloseRequests, TrackExit, TrackDone, SyncWithBroker,
                SaveState, Restart
  <2>3. cache' = cache \/ cache' = None \/ Reads(Window) \/ Reads(Wide)
    BY <1>7 DEF SignalsDone, ProcessExits, CloseRequests, TrackExit, TrackDone, SyncWithBroker,
                SaveState, Restart
  <2>. QED  BY <1>1, <2>1, <2>2, <2>3
<1>8. CASE \/ CacheExpires \/ PositionEvent \/ (\E s \in Ids : RowLands(s)) \/ UNCHANGED vars
  <2>1. pc' = pc /\ UNCHANGED <<journal, made>> /\ (cache' = cache \/ cache' = None)
    BY <1>8 DEF CacheExpires, PositionEvent, RowLands, vars
  <2>. QED  BY <1>1, <2>1 DEF MadeInv
<1>. QED  BY <1>3, <1>4, <1>5, <1>6, <1>7, <1>8 DEF Next, Loop

-----------------------------------------------------------------------------
(* The rows of a signal.                                                    *)

LEMMA GrownRows ==
  ASSUME TypeOK, NEW s \in Ids, NEW status, NEW whole, Grown(s, status, whole)
  PROVE  /\ \A x \in Ids : x # s => Generated(x)' = Generated(x) /\ ExitedRows(x)' = ExitedRows(x)
         /\ Generated(s)' = IF status = "generated" THEN Generated(s) \union {Len(rows[s]) + 1}
                                                    ELSE Generated(s)
         /\ ExitedRows(s)' = IF status = "exited" THEN ExitedRows(s) \union {Len(rows[s]) + 1}
                                                  ELSE ExitedRows(s)
         /\ Generated(s) \subseteq 1..Len(rows[s]) /\ ExitedRows(s) \subseteq 1..Len(rows[s])
<1>. DEFINE n == Len(rows[s])
            new == rows'[s]
            old == rows[s]
<1>1. /\ n \in Nat /\ DOMAIN old = 1..n /\ DOMAIN new = 1..(n + 1)
      /\ \A i \in 1..n : new[i] = old[i]
      /\ new[n + 1].status = status
  BY DEF Grown
<1>2. \A x \in Ids : x # s => Generated(x)' = Generated(x) /\ ExitedRows(x)' = ExitedRows(x)
  BY DEF Grown, Generated, ExitedRows
<1>3. /\ Generated(s) = {i \in DOMAIN old : old[i].status = "generated"}
      /\ Generated(s)' = {i \in DOMAIN new : new[i].status = "generated"}
      /\ ExitedRows(s) = {i \in DOMAIN old : old[i].status = "exited"}
      /\ ExitedRows(s)' = {i \in DOMAIN new : new[i].status = "exited"}
  BY DEF Generated, ExitedRows
<1>. HIDE DEF n, new, old
<1>4. Generated(s)' = IF status = "generated" THEN Generated(s) \union {n + 1} ELSE Generated(s)
  BY <1>1, <1>3
<1>5. ExitedRows(s)' = IF status = "exited" THEN ExitedRows(s) \union {n + 1} ELSE ExitedRows(s)
  BY <1>1, <1>3
<1>6. Generated(s) \subseteq 1..n /\ ExitedRows(s) \subseteq 1..n
  BY <1>1, <1>3
<1>. QED  BY <1>2, <1>4, <1>5, <1>6 DEF n

LEMMA SameRows ==
  ASSUME UNCHANGED rows, NEW s
  PROVE  Generated(s)' = Generated(s) /\ ExitedRows(s)' = ExitedRows(s)
BY DEF Generated, ExitedRows

\* A write of a row: it fails, or the row is there.
RowStep(s, status, whole) ==
  \/ rows' = rows /\ faults' = faults + 1
  \/ faults' = faults /\ Grown(s, status, whole)

\* What the row of an entry or an exit takes over from the last one.
Kept(s) == rows[s] # <<>> /\ Last(rows[s]).whole

LEMMA EnterRowStep ==
  ASSUME TypeOK, MadeInv, EnterRow
  PROVE  made \in Ids /\ RowStep(made, "entered", ~mode.adapter \/ Kept(made))
<1>1. made \in Ids /\ "entered" \in Statuses
  BY MadeTypes DEF EnterRow, MadeInv, Entering, TypeOK, Statuses
<1>2. (~mode.adapter \/ Kept(made)) \in BOOLEAN
  OBVIOUS
<1>3. AddRow(made, "entered", ~mode.adapter \/ Kept(made))
  BY DEF EnterRow, Kept
<1>. HIDE DEF Kept
<1>. QED  BY <1>1, <1>2, <1>3, AddRowFacts DEF RowStep

LEMMA ExitRowStep ==
  ASSUME TypeOK, ExitRow
  PROVE  exit.id \in Ids /\ exit.id <= made /\ RowStep(exit.id, "exited", Kept(exit.id))
<1>1. exit.id \in Ids /\ exit.id <= made /\ "exited" \in Statuses
  <2>1. exit.id \in 1..made
    BY DEF ExitRow, TypeOK, Bookkeeping
  <2>. QED  BY <2>1, MadeTypes DEF Statuses
<1>2. Kept(exit.id) \in BOOLEAN
  BY DEF Kept
<1>3. AddRow(exit.id, "exited", Kept(exit.id))
  BY DEF ExitRow, Kept
<1>. QED  BY <1>1, <1>2, <1>3, AddRowFacts DEF RowStep

LEMMA LandStep ==
  ASSUME TypeOK, NEW s \in Ids, RowLands(s)
  PROVE  s \in queue /\ s <= made /\ queue' = queue \ {s} /\ RowStep(s, "generated", TRUE)
<1>1. AddRow(s, "generated", TRUE) /\ "generated" \in Statuses /\ s \in queue /\ queue' = queue \ {s}
  BY DEF RowLands, Statuses
<1>2. s <= made
  BY <1>1, MadeTypes DEF TypeOK
<1>. QED  BY <1>1, <1>2, AddRowFacts DEF RowStep

LEMMA QueueStep == TypeOK /\ MadeInv /\ QueueInv /\ [Next]_vars => QueueInv'
<1>. SUFFICES ASSUME TypeOK, MadeInv, QueueInv, [Next]_vars PROVE QueueInv'
  OBVIOUS
<1>. USE DEF diskVars, exitVars
<1>0. made \in Nat /\ Ids \subseteq Nat /\ queue \subseteq 1..made /\ 1..made \subseteq Ids
  BY MadeTypes DEF TypeOK
<1>1. ASSUME UNCHANGED <<rows, made>>, queue' \subseteq queue,
             pc' \in {"save", "enqueue"} => pc \in {"save", "enqueue"}
      PROVE  QueueInv'
  BY <1>1, SameRows DEF QueueInv
<1>2. ASSUME NEW s \in Ids, s <= made, NEW status, NEW whole, RowStep(s, status, whole),
             made' = made, queue' = queue \/ queue' = queue \ {s},
             status = "generated" => s \in queue /\ queue' = queue \ {s},
             pc' \in {"save", "enqueue"} => pc' = pc
      PROVE  QueueInv'
  <2>1. CASE rows' = rows
    BY <1>1, <1>2, <2>1
  <2>2. CASE Grown(s, status, whole)
    <3>. DEFINE n == Len(rows[s]) + 1
    <3>1. /\ \A x \in Ids : x # s => Generated(x)' = Generated(x)
          /\ Generated(s)' = IF status = "generated" THEN Generated(s) \union {n} ELSE Generated(s)
          /\ \A x \in Ids : x # s => rows'[x] = rows[x]
      BY <2>2, GrownRows DEF Grown
    <3>. HIDE DEF n
    <3>2. status = "generated" => Generated(s) = {}
      BY <1>2 DEF QueueInv
    <3>3. \A x \in Ids : \A i, j \in Generated(x)' : i = j
      BY <3>1, <3>2 DEF QueueInv
    <3>4. \A x \in queue' : Generated(x)' = {}
      BY <1>0, <1>2, <3>1 DEF QueueInv
    <3>5. \A x \in Ids : x > made => rows'[x] = <<>>
      BY <1>0, <1>2, <3>1 DEF QueueInv
    <3>6. pc' \in {"save", "enqueue"} => made \notin queue' /\ Generated(made)' = {}
      <4>. SUFFICES ASSUME pc' \in {"save", "enqueue"}
                    PROVE  made \notin queue' /\ Generated(made)' = {}
        OBVIOUS
      <4>1. made \in Ids /\ made \notin queue /\ Generated(made) = {}
        BY <1>0, <1>2 DEF QueueInv, MadeInv, Entering
      <4>. QED  BY <1>2, <3>1, <4>1
    <3>. QED  BY <1>2, <3>3, <3>4, <3>5, <3>6 DEF QueueInv
  <2>. QED  BY <1>2, <2>1, <2>2 DEF RowStep
<1>3. CASE CheckCircuitBreaker
  <2>1. UNCHANGED <<rows, queue>> /\ (made' = made + 1 \/ (UNCHANGED <<made, pc>> /\ pc = "signals"))
    BY <1>3 DEF CheckCircuitBreaker
  <2>2. CASE made' = made + 1
    <3>1. made + 1 \in Ids /\ made + 1 \notin queue
      BY <1>0, <1>3, BoundsAssumption DEF CheckCircuitBreaker, Ids
    <3>2. Generated(made + 1) = {}
      <4>1. rows[made + 1] = <<>>
        BY <1>0, <3>1 DEF QueueInv
      <4>. QED  BY <4>1 DEF Generated
    <3>3. Generated(made)' = {}
      BY <2>1, <2>2, <3>2 DEF Generated
    <3>4. \A x \in Ids : x > made' => rows'[x] = <<>>
      BY <1>0, <2>1, <2>2 DEF QueueInv
    <3>5. /\ \A x \in Ids : \A i, j \in Generated(x)' : i = j
          /\ \A x \in queue' : Generated(x)' = {}
      BY <2>1, SameRows DEF QueueInv
    <3>6. made' \notin queue'
      BY <2>1, <2>2, <3>1
    <3>. QED  BY <3>3, <3>4, <3>5, <3>6 DEF QueueInv
  <2>. QED  BY <1>1, <2>1, <2>2
<1>4. CASE EnqueueRow
  <2>1. /\ UNCHANGED <<rows, made>> /\ queue' \in {queue, queue \union {made}}
        /\ pc' \notin {"save", "enqueue"} /\ Generated(made) = {}
    BY <1>4 DEF EnqueueRow, Validated, QueueInv
  <2>. QED  BY <2>1, SameRows DEF QueueInv
<1>5. CASE EnterRow
  <2>1. /\ made \in Ids /\ RowStep(made, "entered", ~mode.adapter \/ Kept(made))
        /\ UNCHANGED <<made, queue>> /\ pc' = "enterLine"
    BY <1>5, EnterRowStep DEF EnterRow
  <2>. QED  BY <1>0, <1>2, <2>1
<1>6. CASE ExitRow
  <2>1. /\ exit.id \in Ids /\ exit.id <= made /\ RowStep(exit.id, "exited", Kept(exit.id))
        /\ UNCHANGED <<made, queue>> /\ pc' = "exitLine"
    BY <1>6, ExitRowStep DEF ExitRow
  <2>. QED  BY <1>0, <1>2, <2>1
<1>7. ASSUME NEW s \in Ids, RowLands(s) PROVE QueueInv'
  <2>1. /\ s \in queue /\ s <= made /\ queue' = queue \ {s} /\ RowStep(s, "generated", TRUE)
        /\ UNCHANGED <<made, pc>>
    BY <1>7, LandStep DEF RowLands
  <2>. QED  BY <1>2, <2>1
<1>8. CASE \/ SaveSignal \/ ExecuteSignal \/ EnterLine \/ SignalsDone \/ ProcessExits
           \/ CloseRequests \/ TrackExit \/ TrackDone \/ ExitLine \/ SavePerformance
           \/ SyncWithBroker \/ SaveState \/ CacheExpires \/ PositionEvent \/ Restart
           \/ UNCHANGED vars
  <2>1. UNCHANGED <<rows, made>>
    BY <1>8 DEF SaveSignal, ExecuteSignal, EnterLine, SignalsDone, ProcessExits, CloseRequests,
       TrackExit, TrackDone, ExitLine, SavePerformance, SyncWithBroker, SaveState, CacheExpires,
       PositionEvent, Restart, vars
  <2>2. queue' \subseteq queue
    BY <1>8 DEF SaveSignal, ExecuteSignal, EnterLine, SignalsDone, ProcessExits, CloseRequests,
       TrackExit, TrackDone, ExitLine, SavePerformance, SyncWithBroker, SaveState, CacheExpires,
       PositionEvent, Restart, vars
  <2>3. pc' \in {"save", "enqueue"} => pc \in {"save", "enqueue"}
    BY <1>8 DEF SaveSignal, ExecuteSignal, EnterLine, SignalsDone, ProcessExits, CloseRequests,
       TrackExit, TrackDone, ExitLine, SavePerformance, SyncWithBroker, SaveState, CacheExpires,
       PositionEvent, Restart, vars
  <2>. QED  BY <1>1, <2>1, <2>2, <2>3
<1>. QED  BY <1>3, <1>4, <1>5, <1>6, <1>7, <1>8 DEF Next, Loop

LEMMA LastRow ==
  ASSUME TypeOK, NEW s \in Ids, rows[s] # <<>>
  PROVE  /\ Len(rows[s]) \in Nat \ {0} /\ DOMAIN rows[s] = 1..Len(rows[s])
         /\ Last(rows[s]) = rows[s][Len(rows[s])] /\ Last(rows[s]) \in Row
<1>1. rows[s] \in Seq(Row)
  BY DEF TypeOK
<1>. QED  BY <1>1 DEF Last

LEMMA ExitsStep == TypeOK /\ MadeInv /\ QueueInv /\ ExitsInv /\ [Next]_vars => ExitsInv'
<1>. SUFFICES ASSUME TypeOK, MadeInv, QueueInv, ExitsInv, [Next]_vars PROVE ExitsInv'
  OBVIOUS
<1>. USE DEF diskVars, exitVars
<1>0. made \in Nat /\ Ids \subseteq Nat
  BY MadeTypes
<1>1. ASSUME UNCHANGED <<rows, made>>, pc' \in Entering => pc \in Entering,
             pc' = "exitRow" /\ rows[exit'.id] # <<>> => Last(rows[exit'.id]).status # "exited"
      PROVE  ExitsInv'
  <2>1. /\ \A x \in Ids : Generated(x)' = Generated(x)
        /\ \A x \in Ids : ExitedRows(x)' = ExitedRows(x)
        /\ ExitedRows(made)' = ExitedRows(made)
    BY <1>1, SameRows DEF ExitedRows
  <2>. QED  BY <1>1, <2>1 DEF ExitsInv
<1>2. ASSUME NEW s \in Ids, NEW status, NEW whole, Grown(s, status, whole), made' = made,
             status = "exited" => \A i \in ExitedRows(s) : \E k \in Generated(s) : i < k,
             status = "entered" => ExitedRows(s) = {},
             status = "exited" => pc' \notin Entering,
             pc' \in Entering => pc \in Entering,
             pc' = "exitRow" => pc = "exitRow" /\ exit' = exit /\ status = "generated"
      PROVE  ExitsInv'
  <2>. DEFINE n == Len(rows[s]) + 1
  <2>1. /\ \A x \in Ids : x # s => Generated(x)' = Generated(x) /\ ExitedRows(x)' = ExitedRows(x)
        /\ Generated(s)' = IF status = "generated" THEN Generated(s) \union {n} ELSE Generated(s)
        /\ ExitedRows(s)' = IF status = "exited" THEN ExitedRows(s) \union {n} ELSE ExitedRows(s)
        /\ Generated(s) \subseteq 1..Len(rows[s]) /\ ExitedRows(s) \subseteq 1..Len(rows[s])
    BY <1>2, GrownRows
  <2>2. /\ n \in Nat /\ n = Len(rows[s]) + 1 /\ Len(rows[s]) \in Nat
        /\ DOMAIN rows[s] = 1..Len(rows[s]) /\ DOMAIN rows'[s] = 1..n
        /\ \A i \in 1..Len(rows[s]) : rows'[s][i] = rows[s][i]
        /\ rows'[s][n].status = status
        /\ rows'[s] \in Seq(Row) /\ Len(rows'[s]) = n
        /\ \A x \in Ids : x # s => rows'[x] = rows[x]
    BY <1>2 DEF Grown
  <2>. HIDE DEF n
  <2>3. ASSUME NEW x \in Ids, NEW i \in ExitedRows(x)', NEW j \in ExitedRows(x)', i < j
        PROVE  \E k \in Generated(x)' : i < k /\ k < j
    <3>1. CASE x # s
      BY <2>1, <2>3, <3>1 DEF ExitsInv
    <3>2. CASE x = s /\ i \in ExitedRows(s) /\ j \in ExitedRows(s)
      BY <2>1, <2>3, <3>2 DEF ExitsInv
    <3>3. CASE x = s /\ ~(i \in ExitedRows(s) /\ j \in ExitedRows(s))
      <4>1. status = "exited" /\ j = n /\ i \in ExitedRows(s)
        BY <2>1, <2>2, <2>3, <3>3
      <4>2. PICK k \in Generated(s) : i < k
        BY <1>2, <4>1
      <4>. QED  BY <2>1, <2>2, <3>3, <4>1, <4>2
    <3>. QED  BY <3>1, <3>2, <3>3
  <2>4. ASSUME NEW x \in Ids, NEW i \in ExitedRows(x)', NEW j \in DOMAIN rows'[x], j > i
        PROVE  rows'[x][j].status # "entered"
    <3>1. CASE x # s
      BY <2>1, <2>2, <2>4, <3>1 DEF ExitsInv
    <3>2. CASE x = s /\ j \in 1..Len(rows[s])
      BY <2>1, <2>2, <2>4, <3>2 DEF ExitsInv
    <3>3. CASE x = s /\ j = n
      <4>1. CASE status = "entered"
        BY <1>2, <2>1, <2>4, <3>3, <4>1
      <4>2. CASE status # "entered"
        BY <2>2, <3>3, <4>2
      <4>. QED  BY <4>1, <4>2
    <3>. QED  BY <2>2, <3>1, <3>2, <3>3
  <2>5. pc' \in Entering => ExitedRows(made)' = {}
    <3>. SUFFICES ASSUME pc' \in Entering PROVE ExitedRows(made)' = {}
      OBVIOUS
    <3>1. ExitedRows(made) = {} /\ made \in Ids /\ status # "exited"
      BY <1>2, MadeTypes DEF ExitsInv, MadeInv, TypeOK
    <3>. QED  BY <1>2, <2>1, <3>1
  <2>6. pc' = "exitRow" /\ rows'[exit'.id] # <<>> => Last(rows'[exit'.id]).status # "exited"
    <3>. SUFFICES ASSUME pc' = "exitRow", rows'[exit'.id] # <<>>
                  PROVE  Last(rows'[exit'.id]).status # "exited"
      OBVIOUS
    <3>1. pc = "exitRow" /\ exit' = exit /\ status = "generated" /\ exit.id \in Ids
      BY <1>2, MadeTypes DEF TypeOK, Bookkeeping
    <3>2. CASE exit.id = s
      <4>1. Last(rows'[s]).status = "generated"
        BY <2>2, <3>1 DEF Last
      <4>. QED  BY <3>1, <3>2, <4>1
    <3>3. CASE exit.id # s
      <4>1. rows'[exit.id] = rows[exit.id]
        BY <2>2, <3>1, <3>3
      <4>. QED  BY <3>1, <4>1 DEF ExitsInv
    <3>. QED  BY <3>2, <3>3
  <2>. QED  BY <2>3, <2>4, <2>5, <2>6 DEF ExitsInv
<1>3. CASE CheckCircuitBreaker
  <2>1. UNCHANGED <<rows, exit>> /\ pc' # "exitRow"
        /\ (made' = made + 1 \/ (UNCHANGED <<made, pc>> /\ pc \notin Entering))
    BY <1>3 DEF CheckCircuitBreaker, Entering
  <2>2. CASE made' = made + 1
    <3>1. made + 1 \in Ids
      BY <1>0, <1>3, BoundsAssumption DEF CheckCircuitBreaker, Ids
    <3>2. rows[made + 1] = <<>>
      BY <1>0, <3>1 DEF QueueInv
    <3>3. ExitedRows(made)' = {}
      BY <2>1, <2>2, <3>2 DEF ExitedRows
    <3>4. \A x \in Ids : Generated(x)' = Generated(x) /\ ExitedRows(x)' = ExitedRows(x)
      BY <2>1, SameRows
    <3>5. /\ \A x \in Ids : \A i, j \in ExitedRows(x)' :
               i < j => \E k \in Generated(x)' : i < k /\ k < j
          /\ \A x \in Ids : \A i \in ExitedRows(x)' : \A j \in DOMAIN rows'[x] :
               j > i => rows'[x][j].status # "entered"
      BY <2>1, <3>4 DEF ExitsInv
    <3>. QED  BY <2>1, <3>3, <3>5 DEF ExitsInv
  <2>. QED  BY <1>1, <2>1, <2>2
<1>4. CASE TrackExit
  <2>. DEFINE s == Min(todo)
              record == SignalRecord(s)
  <2>1. UNCHANGED <<rows, made>> /\ pc' \notin Entering /\ pc = "track"
    BY <1>4 DEF TrackExit, Entering
  <2>2. CASE record = None \/ record.status = "exited"
    BY <1>1, <1>4, <2>1, <2>2 DEF TrackExit
  <2>3. CASE ~(record = None \/ record.status = "exited")
    <3>1. exit' = [id |-> s, whole |-> record.whole]
      BY <1>4, <2>3 DEF TrackExit
    <3>2. rows[s] # <<>> => Last(rows[s]).status # "exited"
      BY <2>3 DEF SignalRecord
    <3>. HIDE DEF s, record
    <3>. QED  BY <1>1, <2>1, <3>1, <3>2
  <2>. QED  BY <2>2, <2>3
<1>5. CASE EnterRow
  <2>1. /\ made \in Ids /\ RowStep(made, "entered", ~mode.adapter \/ Kept(made))
        /\ UNCHANGED made /\ pc' = "enterLine" /\ ExitedRows(made) = {}
    BY <1>5, EnterRowStep DEF EnterRow, ExitsInv, Entering
  <2>2. CASE UNCHANGED rows
    BY <1>1, <2>1, <2>2 DEF Entering
  <2>3. CASE Grown(made, "entered", ~mode.adapter \/ Kept(made))
    BY <1>2, <2>1, <2>3 DEF Entering
  <2>. QED  BY <2>1, <2>2, <2>3 DEF RowStep
<1>6. CASE ExitRow
  <2>1. /\ exit.id \in Ids /\ RowStep(exit.id, "exited", Kept(exit.id))
        /\ UNCHANGED made /\ pc' = "exitLine" /\ pc = "exitRow"
    BY <1>6, ExitRowStep DEF ExitRow
  <2>. DEFINE s == exit.id
  <2>2. \A i \in ExitedRows(s) : \E k \in Generated(s) : i < k
    <3>. SUFFICES ASSUME NEW i \in ExitedRows(s) PROVE \E k \in Generated(s) : i < k
      OBVIOUS
    <3>0. i \in DOMAIN rows[s] /\ rows[s][i].status = "exited" /\ rows[s] \in Seq(Row)
      BY <2>1 DEF ExitedRows, TypeOK
    <3>1. rows[s] # <<>> /\ s \in Ids
      BY <2>1, <3>0
    <3>. DEFINE n == Len(rows[s])
    <3>2. /\ n \in Nat \ {0} /\ DOMAIN rows[s] = 1..n
          /\ Last(rows[s]) = rows[s][n] /\ Last(rows[s]) \in Row
      BY <3>1, LastRow
    <3>3. rows[s][n].status # "exited" /\ rows[s][n].status \in Statuses
      BY <2>1, <3>1, <3>2 DEF ExitsInv, Row
    <3>4. i < n
      BY <3>0, <3>2, <3>3
    <3>5. rows[s][n].status # "entered"
      BY <2>1, <3>2, <3>4 DEF ExitsInv
    <3>6. n \in Generated(s)
      BY <3>2, <3>3, <3>5 DEF Generated, Statuses
    <3>. QED  BY <3>4, <3>6
  <2>3. CASE UNCHANGED rows
    BY <1>1, <2>1, <2>3 DEF Entering
  <2>4. CASE Grown(s, "exited", Kept(s))
    <3>. HIDE DEF s
    <3>1. s \in Ids
      BY <2>1 DEF s
    <3>. QED  BY <1>2, <2>1, <2>2, <2>4, <3>1 DEF Entering
  <2>. QED  BY <2>1, <2>3, <2>4 DEF RowStep
<1>7. ASSUME NEW s \in Ids, RowLands(s) PROVE ExitsInv'
  <2>1. RowStep(s, "generated", TRUE) /\ UNCHANGED <<made, pc, exit>>
    BY <1>7, LandStep DEF RowLands
  <2>2. CASE UNCHANGED rows
    BY <1>1, <2>1, <2>2 DEF ExitsInv
  <2>3. CASE Grown(s, "generated", TRUE)
    BY <1>2, <2>1, <2>3
  <2>. QED  BY <2>1, <2>2, <2>3 DEF RowStep
<1>8. CASE \/ SaveSignal \/ EnqueueRow \/ ExecuteSignal \/ EnterLine \/ SignalsDone \/ ProcessExits
           \/ CloseRequests \/ TrackDone \/ ExitLine \/ SavePerformance \/ SyncWithBroker
           \/ SaveState \/ CacheExpires \/ PositionEvent \/ Restart \/ UNCHANGED vars
  <2>1. UNCHANGED <<rows, made>>
    BY <1>8 DEF SaveSignal, EnqueueRow, ExecuteSignal, EnterLine, SignalsDone, ProcessExits,
       CloseRequests, TrackDone, ExitLine, SavePerformance, SyncWithBroker, SaveState, CacheExpires,
       PositionEvent, Restart, vars
  <2>2. pc' \in Entering => pc \in Entering
    BY <1>8 DEF SaveSignal, EnqueueRow, ExecuteSignal, EnterLine, SignalsDone, ProcessExits,
       CloseRequests, TrackDone, ExitLine, SavePerformance, SyncWithBroker, SaveState, CacheExpires,
       PositionEvent, Restart, vars, Validated, Entering
  <2>3. pc' = "exitRow" => pc = "exitRow" /\ exit' = exit
    BY <1>8 DEF SaveSignal, EnqueueRow, ExecuteSignal, EnterLine, SignalsDone, ProcessExits,
       CloseRequests, TrackDone, ExitLine, SavePerformance, SyncWithBroker, SaveState, CacheExpires,
       PositionEvent, Restart, vars, Validated
  <2>. QED  BY <1>1, <2>1, <2>2, <2>3 DEF ExitsInv
<1>. QED  BY <1>3, <1>4, <1>5, <1>6, <1>7, <1>8 DEF Next, Loop

-----------------------------------------------------------------------------
(* Bookings and exits, counted.                                             *)

LEMMA FiniteCounts ==
  ASSUME TypeOK, NEW s \in Ids
  PROVE  /\ IsFiniteSet(Bookings(s)) /\ Cardinality(Bookings(s)) \in Nat
         /\ IsFiniteSet(ExitedRows(s)) /\ Cardinality(ExitedRows(s)) \in Nat
<1>1. /\ Len(performance) \in Nat /\ Bookings(s) \subseteq 1..Len(performance)
      /\ Len(rows[s]) \in Nat /\ ExitedRows(s) \subseteq 1..Len(rows[s])
  BY DEF TypeOK, Bookings, ExitedRows
<1>2. IsFiniteSet(1..Len(performance)) /\ IsFiniteSet(1..Len(rows[s]))
  BY <1>1, FS_Interval
<1>3. IsFiniteSet(Bookings(s)) /\ IsFiniteSet(ExitedRows(s))
  BY <1>1, <1>2, FS_Subset
<1>. QED  BY <1>3, FS_CardinalityType

LEMMA OneMore ==
  ASSUME NEW S, IsFiniteSet(S), NEW n, n \notin S
  PROVE  Cardinality(S \union {n}) = Cardinality(S) + 1
BY FS_AddElement

\* A new row counts when it is an exit.
LEMMA ExitsCounted ==
  ASSUME TypeOK, NEW s \in Ids, NEW status, NEW whole, Grown(s, status, whole), NEW x \in Ids
  PROVE  Cardinality(ExitedRows(x)') =
           Cardinality(ExitedRows(x)) + (IF x = s /\ status = "exited" THEN 1 ELSE 0)
<1>. DEFINE n == Len(rows[s]) + 1
<1>1. /\ x # s => ExitedRows(x)' = ExitedRows(x)
      /\ ExitedRows(s)' = IF status = "exited" THEN ExitedRows(s) \union {n} ELSE ExitedRows(s)
      /\ ExitedRows(s) \subseteq 1..Len(rows[s])
  BY GrownRows
<1>2. Len(rows[s]) \in Nat
  BY DEF Grown
<1>3. n \notin ExitedRows(s)
  BY <1>1, <1>2
<1>. HIDE DEF n
<1>4. IsFiniteSet(ExitedRows(s)) /\ Cardinality(ExitedRows(s)) \in Nat /\ Cardinality(ExitedRows(x)) \in Nat
  BY FiniteCounts
<1>5. Cardinality(ExitedRows(s) \union {n}) = Cardinality(ExitedRows(s)) + 1
  BY <1>3, <1>4, OneMore
<1>6. CASE x = s /\ status = "exited"
  BY <1>1, <1>5, <1>6
<1>7. CASE ~(x = s /\ status = "exited")
  BY <1>1, <1>4, <1>7
<1>. QED  BY <1>6, <1>7

LEMMA Booked ==
  ASSUME TypeOK, exit \in Booking, performance' = Append(performance, exit), NEW x \in Ids
  PROVE  Cardinality(Bookings(x)') = Cardinality(Bookings(x)) + (IF x = exit.id THEN 1 ELSE 0)
<1>. DEFINE n == Len(performance) + 1
<1>1. /\ Len(performance) \in Nat /\ DOMAIN performance = 1..Len(performance)
      /\ DOMAIN performance' = 1..n /\ performance'[n] = exit
      /\ \A i \in 1..Len(performance) : performance'[i] = performance[i]
  BY DEF TypeOK
<1>2. Bookings(x)' = IF x = exit.id THEN Bookings(x) \union {n} ELSE Bookings(x)
  BY <1>1 DEF Bookings
<1>3. n \notin Bookings(x)
  BY <1>1 DEF Bookings
<1>. HIDE DEF n
<1>4. IsFiniteSet(Bookings(x)) /\ Cardinality(Bookings(x)) \in Nat
  BY FiniteCounts
<1>5. Cardinality(Bookings(x) \union {n}) = Cardinality(Bookings(x)) + 1
  BY <1>3, <1>4, OneMore
<1>. QED  BY <1>2, <1>4, <1>5

LEMMA CountStep == TypeOK /\ MadeInv /\ CountInv /\ [Next]_vars => CountInv'
<1>. SUFFICES ASSUME TypeOK, MadeInv, CountInv, [Next]_vars PROVE CountInv'
  OBVIOUS
<1>. USE DEF diskVars, exitVars
<1>0. /\ faults \in Nat
      /\ \A x \in Ids : Cardinality(Bookings(x)) \in Nat /\ Cardinality(ExitedRows(x)) \in Nat
      /\ \A x \in Ids : Pending(x) \in {0, 1}
      /\ \A x \in Ids : Cardinality(Bookings(x)) + Pending(x) <= Cardinality(ExitedRows(x)) + faults
  BY FiniteCounts DEF TypeOK, Pending, CountInv
<1>1. ASSUME UNCHANGED <<rows, performance>>, faults' = faults \/ faults' = faults + 1,
             pc' \in {"exitLine", "record"} => pc \in {"exitLine", "record"} /\ exit' = exit
      PROVE  CountInv'
  <2>. SUFFICES ASSUME NEW x \in Ids
                PROVE  Cardinality(Bookings(x)') + Pending(x)' <= Cardinality(ExitedRows(x)') + faults'
    BY DEF CountInv
  <2>1. Bookings(x)' = Bookings(x) /\ ExitedRows(x)' = ExitedRows(x)
    BY <1>1 DEF Bookings, ExitedRows
  <2>2. Pending(x)' \in {0, 1} /\ Pending(x)' <= Pending(x)
    BY <1>1 DEF Pending
  <2>. QED  BY <1>0, <1>1, <2>1, <2>2
<1>2. ASSUME NEW s \in Ids, NEW status, NEW whole, RowStep(s, status, whole),
             UNCHANGED <<performance, exit>>,
             \/ status = "exited" /\ pc = "exitRow" /\ pc' = "exitLine" /\ exit.id = s
             \/ pc' \in {"exitLine", "record"} => pc' = pc
      PROVE  CountInv'
  <2>. SUFFICES ASSUME NEW x \in Ids
                PROVE  Cardinality(Bookings(x)') + Pending(x)' <= Cardinality(ExitedRows(x)') + faults'
    BY DEF CountInv
  <2>1. Bookings(x)' = Bookings(x)
    BY <1>2 DEF Bookings
  <2>. DEFINE more == IF status = "exited" /\ x = s THEN 1 ELSE 0
              e == Cardinality(ExitedRows(x))
              e2 == Cardinality(ExitedRows(x)')
  <2>2. Pending(x)' \in {0, 1} /\ Pending(x)' <= Pending(x) + more
    BY <1>2 DEF Pending
  <2>3. e2 + faults' >= e + faults + more /\ e2 \in Nat /\ e \in Nat /\ faults' \in Nat /\ more \in {0, 1}
    <3>1. CASE rows' = rows /\ faults' = faults + 1
      <4>1. e2 = e
        BY <3>1 DEF ExitedRows
      <4>. HIDE DEF e, e2
      <4>2. e \in Nat
        BY <1>0 DEF e
      <4>. QED  BY <1>0, <3>1, <4>1, <4>2
    <3>2. CASE faults' = faults /\ Grown(s, status, whole)
      <4>1. e2 = e + (IF x = s /\ status = "exited" THEN 1 ELSE 0)
        BY <3>2, ExitsCounted
      <4>. HIDE DEF e, e2
      <4>2. e \in Nat
        BY <1>0 DEF e
      <4>. QED  BY <1>0, <3>2, <4>1, <4>2
    <3>. QED  BY <1>2, <3>1, <3>2 DEF RowStep
  <2>4. Cardinality(Bookings(x)) + Pending(x) <= e + faults /\ Pending(x) \in {0, 1}
        /\ Cardinality(Bookings(x)) \in Nat
    BY <1>0
  <2>. HIDE DEF e, e2, more
  <2>. DEFINE b == Cardinality(Bookings(x))
              p == Pending(x)
              q == Pending(x)'
  <2>5. /\ b \in Nat /\ p \in Nat /\ q \in Nat /\ q <= p + more
        /\ b + p <= e + faults /\ faults \in Nat
    BY <1>0, <2>2, <2>4
  <2>. HIDE DEF b, p, q
  <2>. DEFINE f2 == faults'
  <2>6. f2 \in Nat /\ e \in Nat /\ e2 \in Nat /\ more \in Nat /\ e2 + f2 >= e + faults + more
    BY <2>3
  <2>. HIDE DEF f2
  <2>7. b + q <= b + p + more /\ b + p + more <= e + faults + more
    BY <2>5, <2>6
  <2>8. b + q <= e2 + f2
    BY <2>5, <2>6, <2>7
  <2>. QED  BY <2>1, <2>8 DEF b, q, e2, f2
<1>3. CASE EnterRow
  BY <1>2, <1>3, EnterRowStep DEF EnterRow
<1>4. CASE ExitRow
  <2>1. exit.id \in Ids /\ RowStep(exit.id, "exited", Kept(exit.id))
    BY <1>4, ExitRowStep
  <2>. QED  BY <1>2, <1>4, <2>1 DEF ExitRow
<1>5. ASSUME NEW s \in Ids, RowLands(s) PROVE CountInv'
  <2>1. RowStep(s, "generated", TRUE)
    BY <1>5, LandStep
  <2>. QED  BY <1>2, <1>5, <2>1 DEF RowLands
<1>6. CASE SavePerformance
  <2>1. pc' = "track" /\ pc = "record" /\ exit \in Booking /\ UNCHANGED rows
    BY <1>6 DEF SavePerformance, TypeOK, Bookkeeping
  <2>2. CASE performance' = Append(performance, exit) /\ UNCHANGED faults
    <3>. SUFFICES ASSUME NEW x \in Ids
                  PROVE  Cardinality(Bookings(x)') + Pending(x)' <= Cardinality(ExitedRows(x)') + faults'
      BY DEF CountInv
    <3>1. Cardinality(Bookings(x)') = Cardinality(Bookings(x)) + Pending(x)
      BY <2>1, <2>2, Booked DEF Pending
    <3>2. Pending(x)' = 0 /\ ExitedRows(x)' = ExitedRows(x)
      BY <2>1 DEF Pending, ExitedRows
    <3>. QED  BY <1>0, <2>2, <3>1, <3>2
  <2>3. CASE Fault /\ UNCHANGED performance
    BY <1>1, <2>1, <2>3 DEF Fault
  <2>. QED  BY <1>6, <2>2, <2>3 DEF SavePerformance
<1>7. CASE SaveSignal \/ EnqueueRow \/ EnterLine \/ ExitLine
  <2>1. /\ UNCHANGED <<rows, performance, exit>>
        /\ pc' \in {"exitLine", "record"} => pc \in {"exitLine", "record"}
    BY <1>7 DEF SaveSignal, EnqueueRow, EnterLine, ExitLine, Validated
  <2>2. faults' = faults \/ faults' = faults + 1
    BY <1>7 DEF SaveSignal, EnqueueRow, EnterLine, ExitLine, AddLine, Fault
  <2>. QED  BY <1>1, <2>1, <2>2
<1>8. CASE \/ CheckCircuitBreaker \/ ExecuteSignal \/ SignalsDone \/ ProcessExits \/ CloseRequests
           \/ TrackExit \/ TrackDone \/ SyncWithBroker \/ SaveState \/ CacheExpires
           \/ PositionEvent \/ Restart \/ UNCHANGED vars
  <2>1. UNCHANGED <<rows, performance, faults>>
    BY <1>8 DEF CheckCircuitBreaker, ExecuteSignal, SignalsDone, ProcessExits, CloseRequests,
       TrackExit, TrackDone, SyncWithBroker, SaveState, CacheExpires, PositionEvent, Restart, vars
  <2>2. pc' \in {"exitLine", "record"} => pc \in {"exitLine", "record"} /\ exit' = exit
    BY <1>8 DEF CheckCircuitBreaker, ExecuteSignal, SignalsDone, ProcessExits, CloseRequests,
       TrackExit, TrackDone, SyncWithBroker, SaveState, CacheExpires, PositionEvent, Restart, vars
  <2>. QED  BY <1>1, <2>1, <2>2
<1>. QED  BY <1>3, <1>4, <1>5, <1>6, <1>7, <1>8 DEF Next, Loop

LEMMA MissedStep == TypeOK /\ MadeInv /\ MissedInv /\ [Next]_vars => MissedInv'
<1>. SUFFICES ASSUME TypeOK, MadeInv, MissedInv, [Next]_vars PROVE MissedInv'
  OBVIOUS
<1>. USE DEF diskVars, exitVars
<1>0. /\ faults \in Nat /\ restarts \in Nat
      /\ \A x \in Ids : Cardinality(Bookings(x)) \in Nat /\ Cardinality(ExitedRows(x)) \in Nat
      /\ \A x \in Ids : Pending(x) \in {0, 1}
      /\ \A x \in Ids : Cardinality(ExitedRows(x)) <=
                           Cardinality(Bookings(x)) + Pending(x) + restarts + faults
  BY FiniteCounts DEF TypeOK, Pending, MissedInv
\* Nothing is written: the booking stays pending, or one trouble more is counted.
<1>1. ASSUME UNCHANGED <<rows, performance>>,
             \/ /\ UNCHANGED restarts /\ faults' \in {faults, faults + 1}
                /\ pc \in {"exitLine", "record"}
                     => pc' \in {"exitLine", "record"} /\ UNCHANGED exit
             \/ UNCHANGED restarts /\ faults' = faults + 1
             \/ restarts' = restarts + 1 /\ UNCHANGED faults
      PROVE  MissedInv'
  <2>. SUFFICES ASSUME NEW x \in Ids
                PROVE  Cardinality(ExitedRows(x)') <=
                         Cardinality(Bookings(x)') + Pending(x)' + restarts' + faults'
    BY DEF MissedInv
  <2>1. Bookings(x)' = Bookings(x) /\ ExitedRows(x)' = ExitedRows(x)
    BY <1>1 DEF Bookings, ExitedRows
  <2>2. Pending(x)' \in {0, 1}
    BY DEF Pending
  <2>3. \/ Pending(x) <= Pending(x)' /\ restarts' = restarts /\ faults' \in {faults, faults + 1}
        \/ restarts' + faults' = restarts + faults + 1 /\ restarts' \in Nat /\ faults' \in Nat
    BY <1>0, <1>1 DEF Pending
  <2>. DEFINE b == Cardinality(Bookings(x))
              e == Cardinality(ExitedRows(x))
              p == Pending(x)
              q == Pending(x)'
  <2>4. b \in Nat /\ e \in Nat /\ p \in {0, 1} /\ q \in {0, 1} /\ e <= b + p + restarts + faults
    BY <1>0, <2>2
  <2>5. \/ p <= q /\ restarts' = restarts /\ faults' \in {faults, faults + 1}
        \/ restarts' + faults' = restarts + faults + 1 /\ restarts' \in Nat /\ faults' \in Nat
    BY <2>3
  <2>. HIDE DEF b, e, p, q
  <2>6. e <= b + q + restarts' + faults'
    BY <1>0, <2>4, <2>5
  <2>. QED  BY <2>1, <2>6 DEF b, e, q
\* A row: an exit's comes with the pending booking, the others are no exits.
<1>2. ASSUME NEW s \in Ids, NEW status, NEW whole, RowStep(s, status, whole),
             UNCHANGED <<performance, exit, restarts>>,
             \/ status = "exited" /\ pc = "exitRow" /\ pc' = "exitLine" /\ exit.id = s
             \/ /\ status # "exited"
                /\ pc \in {"exitLine", "record"} => pc' = pc
      PROVE  MissedInv'
  <2>. SUFFICES ASSUME NEW x \in Ids
                PROVE  Cardinality(ExitedRows(x)') <=
                         Cardinality(Bookings(x)') + Pending(x)' + restarts' + faults'
    BY DEF MissedInv
  <2>1. Bookings(x)' = Bookings(x)
    BY <1>2 DEF Bookings
  <2>. DEFINE more == IF status = "exited" /\ x = s THEN 1 ELSE 0
              b == Cardinality(Bookings(x))
              e == Cardinality(ExitedRows(x))
              e2 == Cardinality(ExitedRows(x)')
              p == Pending(x)
              q == Pending(x)'
  <2>2. q \in {0, 1} /\ p + more <= q
    BY <1>2 DEF Pending
  <2>3. /\ b \in Nat /\ e \in Nat /\ p \in {0, 1} /\ more \in {0, 1}
        /\ e <= b + p + restarts + faults
    BY <1>0
  <2>4. rows' = rows => e2 = e
    BY DEF ExitedRows
  <2>5. Grown(s, status, whole) => e2 = e + more
    BY ExitsCounted
  <2>6. \/ rows' = rows /\ faults' = faults + 1
        \/ Grown(s, status, whole) /\ faults' = faults
    BY <1>2 DEF RowStep
  <2>7. restarts' = restarts
    BY <1>2
  <2>. HIDE DEF b, e, e2, p, q, more
  <2>8. /\ e2 \in {e, e + more} /\ faults' \in {faults, faults + 1}
        /\ e2 <= b + q + restarts + faults'
    BY <1>0, <2>2, <2>3, <2>4, <2>5, <2>6
  <2>. QED  BY <2>1, <2>7, <2>8 DEF b, e2, q
<1>3. CASE EnterRow
  BY <1>2, <1>3, EnterRowStep DEF EnterRow
<1>4. CASE ExitRow
  <2>1. exit.id \in Ids /\ RowStep(exit.id, "exited", Kept(exit.id))
    BY <1>4, ExitRowStep
  <2>. QED  BY <1>2, <1>4, <2>1 DEF ExitRow
<1>5. ASSUME NEW s \in Ids, RowLands(s) PROVE MissedInv'
  <2>1. RowStep(s, "generated", TRUE)
    BY <1>5, LandStep
  <2>. QED  BY <1>2, <1>5, <2>1 DEF RowLands
<1>6. CASE SavePerformance
  <2>1. pc' = "track" /\ pc = "record" /\ exit \in Booking /\ UNCHANGED <<rows, restarts>>
    BY <1>6 DEF SavePerformance, TypeOK, Bookkeeping
  <2>2. CASE performance' = Append(performance, exit) /\ UNCHANGED faults
    <3>. SUFFICES ASSUME NEW x \in Ids
                  PROVE  Cardinality(ExitedRows(x)') <=
                           Cardinality(Bookings(x)') + Pending(x)' + restarts' + faults'
      BY DEF MissedInv
    <3>1. Cardinality(Bookings(x)') = Cardinality(Bookings(x)) + Pending(x)
      BY <2>1, <2>2, Booked DEF Pending
    <3>2. Pending(x)' = 0 /\ ExitedRows(x)' = ExitedRows(x)
      BY <2>1 DEF Pending, ExitedRows
    <3>. QED  BY <1>0, <2>1, <2>2, <3>1, <3>2
  <2>3. CASE Fault /\ UNCHANGED performance
    BY <1>1, <2>1, <2>3 DEF Fault
  <2>. QED  BY <1>6, <2>2, <2>3 DEF SavePerformance
<1>7. CASE SaveSignal \/ EnqueueRow \/ EnterLine \/ ExitLine
  <2>1. /\ UNCHANGED <<rows, performance, exit, restarts>>
        /\ pc \in {"exitLine", "record"} => pc' \in {"exitLine", "record"}
    BY <1>7 DEF SaveSignal, EnqueueRow, EnterLine, ExitLine, Validated
  <2>2. faults' \in {faults, faults + 1}
    BY <1>7 DEF SaveSignal, EnqueueRow, EnterLine, ExitLine, AddLine, Fault
  <2>. QED  BY <1>1, <2>1, <2>2
<1>8. CASE \/ CheckCircuitBreaker \/ ExecuteSignal \/ SignalsDone \/ ProcessExits \/ CloseRequests
           \/ TrackExit \/ TrackDone \/ SyncWithBroker \/ SaveState \/ CacheExpires
           \/ PositionEvent \/ UNCHANGED vars
  <2>1. UNCHANGED <<rows, performance, restarts, faults>>
    BY <1>8 DEF CheckCircuitBreaker, ExecuteSignal, SignalsDone, ProcessExits, CloseRequests,
       TrackExit, TrackDone, SyncWithBroker, SaveState, CacheExpires, PositionEvent, vars
  <2>2. pc \in {"exitLine", "record"} => pc' = pc /\ UNCHANGED exit
    BY <1>8 DEF CheckCircuitBreaker, ExecuteSignal, SignalsDone, ProcessExits, CloseRequests,
       TrackExit, TrackDone, SyncWithBroker, SaveState, CacheExpires, PositionEvent, vars
  <2>. QED  BY <1>1, <2>1, <2>2
<1>9. CASE Restart
  BY <1>1, <1>9 DEF Restart
<1>. QED  BY <1>3, <1>4, <1>5, <1>6, <1>7, <1>8, <1>9 DEF Next, Loop

-----------------------------------------------------------------------------
(* Rows without data.                                                       *)

LEMMA WholeStep == TypeOK /\ MadeInv /\ ExitsInv /\ WholeInv /\ [Next]_vars => WholeInv'
<1>. SUFFICES ASSUME TypeOK, MadeInv, ExitsInv, WholeInv, [Next]_vars PROVE WholeInv'
  OBVIOUS
<1>. USE DEF diskVars, exitVars
<1>1. ASSUME UNCHANGED <<rows, mode, performance>>, exit' = exit \/ exit' = None
      PROVE  WholeInv'
  BY <1>1 DEF WholeInv, Bare
<1>2. ASSUME NEW s \in Ids, NEW status, NEW whole, Grown(s, status, whole),
             UNCHANGED <<mode, performance, exit>>,
             ~whole /\ rows[s] # <<>> => rows[s][1].status # "generated",
             ~whole => status # "generated" /\ (mode.adapter \/ status = "exited")
      PROVE  WholeInv'
  <2>. DEFINE n == Len(rows[s]) + 1
  <2>1. /\ Len(rows[s]) \in Nat /\ DOMAIN rows[s] = 1..Len(rows[s]) /\ DOMAIN rows'[s] = 1..n
        /\ \A i \in 1..Len(rows[s]) : rows'[s][i] = rows[s][i]
        /\ rows'[s][n].status = status /\ rows'[s][n].whole = whole /\ rows'[s] # <<>>
        /\ \A x \in Ids : x # s => rows'[x] = rows[x]
        /\ rows[s] \in Seq(Row)
    BY <1>2 DEF Grown, TypeOK
  <2>2. rows[s] # <<>> => rows'[s][1] = rows[s][1]
    BY <2>1
  <2>3. rows[s] = <<>> => n = 1
    BY <2>1
  <2>. HIDE DEF n
  <2>4. ASSUME NEW x \in Ids, Bare(x) PROVE Bare(x)'
    BY <1>2, <2>1, <2>2, <2>4 DEF Bare
  <2>5. ASSUME NEW x \in Ids, NEW i \in DOMAIN rows'[x], ~rows'[x][i].whole
        PROVE  rows'[x][1].status # "generated" /\ (mode.adapter \/ rows'[x][i].status = "exited")
    <3>1. CASE x # s
      BY <2>1, <2>5, <3>1 DEF WholeInv
    <3>2. CASE x = s /\ i \in 1..Len(rows[s])
      <4>1. rows[s] # <<>> /\ i \in DOMAIN rows[s] /\ rows'[s][i] = rows[s][i]
        BY <2>1, <3>2
      <4>. QED  BY <2>2, <2>5, <3>2, <4>1 DEF WholeInv
    <3>3. CASE x = s /\ i = n
      BY <1>2, <2>1, <2>2, <2>3, <2>5, <3>3
    <3>. QED  BY <2>1, <3>1, <3>2, <3>3 DEF n
  <2>6. exit' # None /\ ~exit'.whole => Bare(exit.id)'
    <3>1. exit # None => exit.id \in Ids
      BY MadeTypes DEF TypeOK
    <3>. QED  BY <1>2, <2>4, <3>1 DEF WholeInv
  <2>7. \A i \in DOMAIN performance : ~performance[i].whole => Bare(performance[i].id)'
    <3>. SUFFICES ASSUME NEW i \in DOMAIN performance, ~performance[i].whole
                  PROVE  Bare(performance[i].id)'
      OBVIOUS
    <3>. DEFINE x == performance[i].id
    <3>1. performance[i] \in Booking
      BY DEF TypeOK
    <3>2. x \in Ids /\ Bare(x)
      BY <3>1 DEF WholeInv, Booking
    <3>3. UNCHANGED x
      BY <1>2
    <3>. HIDE DEF x
    <3>4. rows'[x] # <<>> /\ rows'[x][1].status # "generated" /\ mode'.adapter
      <4>1. mode' = mode /\ mode.adapter /\ rows[x] # <<>> /\ rows[x][1].status # "generated"
        BY <1>2, <3>2 DEF Bare
      <4>2. CASE x = s
        BY <2>1, <2>2, <4>1, <4>2
      <4>3. CASE x # s
        BY <2>1, <3>2, <4>1, <4>3
      <4>. QED  BY <4>1, <4>2, <4>3
    <3>. QED  BY <1>2, <3>3, <3>4 DEF Bare, x
  <2>. QED  BY <1>2, <2>5, <2>6, <2>7 DEF WholeInv, Bare
<1>4. ASSUME NEW s \in Ids, ~Kept(s), rows[s] # <<>> PROVE rows[s][1].status # "generated"
  BY <1>4, LastRow DEF Kept, WholeInv
<1>5. CASE EnterRow
  <2>. DEFINE whole == ~mode.adapter \/ Kept(made)
  <2>1. made \in Ids /\ RowStep(made, "entered", whole) /\ UNCHANGED <<mode, performance, exit>>
    BY <1>5, EnterRowStep DEF EnterRow
  <2>2. CASE UNCHANGED rows
    BY <1>1, <2>1, <2>2
  <2>3. CASE Grown(made, "entered", whole)
    <3>1. ~whole => mode.adapter /\ (rows[made] # <<>> => rows[made][1].status # "generated")
      BY <1>4, <2>1
    <3>. HIDE DEF whole
    <3>. QED  BY <1>2, <2>1, <2>3, <3>1
  <2>. QED  BY <2>1, <2>2, <2>3 DEF RowStep
<1>6. CASE ExitRow
  <2>. DEFINE s == exit.id
              whole == Kept(s)
  <2>1. s \in Ids /\ RowStep(s, "exited", whole) /\ UNCHANGED <<mode, performance, exit>>
    BY <1>6, ExitRowStep DEF ExitRow
  <2>2. CASE UNCHANGED rows
    BY <1>1, <2>1, <2>2
  <2>3. CASE Grown(s, "exited", whole)
    <3>1. ~whole => (rows[s] # <<>> => rows[s][1].status # "generated")
      BY <1>4, <2>1
    <3>. HIDE DEF whole, s
    <3>. QED  BY <1>2, <2>1, <2>3, <3>1
  <2>. QED  BY <2>1, <2>2, <2>3 DEF RowStep
<1>7. ASSUME NEW s \in Ids, RowLands(s) PROVE WholeInv'
  <2>1. RowStep(s, "generated", TRUE) /\ UNCHANGED <<mode, performance, exit>>
    BY <1>7, LandStep DEF RowLands
  <2>2. CASE UNCHANGED rows
    BY <1>1, <2>1, <2>2
  <2>3. CASE Grown(s, "generated", TRUE)
    BY <1>2, <2>1, <2>3
  <2>. QED  BY <2>1, <2>2, <2>3 DEF RowStep
<1>8. CASE TrackExit
  <2>. DEFINE s == Min(todo)
              record == SignalRecord(s)
  <2>1. UNCHANGED <<rows, mode, performance>>
    BY <1>8 DEF TrackExit
  <2>2. CASE record = None \/ record.status = "exited"
    BY <1>1, <1>8, <2>1, <2>2 DEF TrackExit
  <2>3. CASE ~(record = None \/ record.status = "exited")
    <3>1. exit' = [id |-> s, whole |-> record.whole]
      BY <1>8, <2>3 DEF TrackExit
    <3>2. s \in Ids
      BY <1>8, MadeTypes, MinFacts DEF TrackExit, TypeOK
    <3>3. ~record.whole => Bare(s)
      <4>. SUFFICES ASSUME ~record.whole PROVE Bare(s)
        OBVIOUS
      <4>1. rows[s] # <<>> /\ record = Last(rows[s])
        BY <2>3 DEF SignalRecord
      <4>. HIDE DEF s, record
      <4>. QED  BY <2>3, <3>2, <4>1, LastRow DEF WholeInv, Bare
    <3>. HIDE DEF s, record
    <3>4. ~exit'.whole => Bare(exit'.id)
      BY <3>1, <3>3
    <3>. QED  BY <2>1, <3>4 DEF WholeInv, Bare
  <2>. QED  BY <2>2, <2>3
<1>9. CASE SavePerformance
  <2>1. UNCHANGED <<rows, mode>> /\ exit' = None /\ exit # None
    BY <1>9 DEF SavePerformance, TypeOK, Bookkeeping
  <2>2. CASE performance' = Append(performance, exit)
    <3>1. \A i \in DOMAIN performance' :
            performance'[i] = exit \/ (i \in DOMAIN performance /\ performance'[i] = performance[i])
      BY <2>2 DEF TypeOK
    <3>. QED  BY <2>1, <3>1 DEF WholeInv, Bare
  <2>3. CASE UNCHANGED performance
    BY <1>1, <2>1, <2>3
  <2>. QED  BY <1>9, <2>2, <2>3 DEF SavePerformance
<1>10. CASE \/ CheckCircuitBreaker \/ SaveSignal \/ EnqueueRow \/ ExecuteSignal \/ EnterLine
            \/ SignalsDone \/ ProcessExits \/ CloseRequests \/ TrackDone \/ ExitLine
            \/ SyncWithBroker \/ SaveState \/ CacheExpires \/ PositionEvent \/ Restart
            \/ UNCHANGED vars
  <2>1. UNCHANGED <<rows, mode, performance>> /\ (exit' = exit \/ exit' = None)
    BY <1>10 DEF CheckCircuitBreaker, SaveSignal, EnqueueRow, ExecuteSignal, EnterLine, SignalsDone,
       ProcessExits, CloseRequests, TrackDone, ExitLine, SyncWithBroker, SaveState, CacheExpires,
       PositionEvent, Restart, vars
  <2>. QED  BY <1>1, <2>1
<1>. QED  BY <1>5, <1>6, <1>7, <1>8, <1>9, <1>10 DEF Next, Loop

-----------------------------------------------------------------------------
(* The cache.                                                               *)

LEMMA BeforeFacts ==
  ASSUME NEW limit \in Nat, NEW m \in Nat
  PROVE  /\ Before(limit, m) \in 0..m /\ m - Before(limit, m) \in Nat
         /\ m - Before(limit, m) = IF m > limit THEN limit ELSE m
         /\ \A i \in 1..(m - Before(limit, m)) : Before(limit, m) + i \in 1..m
BY DEF Before

\* A line added behind the cached ones.
LEMMA CacheBehind ==
  ASSUME TypeOK, CacheInv, NEW s \in Ids, NEW status, Written(s, status),
         cache # None, cache' = cache,
         \/ status = "exited"
         \/ status = "entered" /\ ~HasLine(journal, s, "generated")
  PROVE  \E m \in 0..Len(journal') : CachedAt(m)'
<1>0. \E m \in 0..Len(journal) : CachedAt(m)
  BY DEF CacheInv
<1>. DEFINE n == Len(journal)
<1>1. /\ n \in Nat /\ Len(journal') = n + 1 /\ journal' \in Seq(Line) /\ journal \in Seq(Line)
      /\ \A i \in 1..n : journal'[i] = journal[i]
      /\ journal'[n + 1].id = s /\ journal'[n + 1].status = status
      /\ DOMAIN journal = 1..n /\ DOMAIN journal' = 1..(n + 1)
  <2>1. journal \in Seq(Line)
    BY DEF TypeOK
  <2>2. /\ Len(journal') = n + 1 /\ \A i \in 1..n : journal'[i] = journal[i]
        /\ journal' \in Seq(Line) /\ journal'[n + 1] = [id |-> s, status |-> status]
    BY DEF Written
  <2>3. /\ n \in Nat /\ DOMAIN journal = 1..n /\ DOMAIN journal' = 1..(n + 1)
    BY <2>1, <2>2
  <2>. QED  BY <2>1, <2>2, <2>3
<1>2. PICK m \in 0..n : CachedAt(m)
  BY <1>0
<1>3. cache.limit \in Nat
  <2>1. cache.limit \in {Window, Wide}
    BY DEF TypeOK
  <2>. QED  BY <2>1, BoundsAssumption
<1>. DEFINE b == Before(cache.limit, m)
<1>4. \A i \in 1..(m - b) : b + i \in 1..n
  <2>1. m \in Nat /\ 1..m \subseteq 1..n
    BY <1>1, <1>2
  <2>2. \A i \in 1..(m - b) : b + i \in 1..m
    BY <1>3, <2>1, BeforeFacts
  <2>. QED  BY <2>1, <2>2
<1>. HIDE DEF n, b
<1>5. \A x : HasLine(journal', x, "generated") => HasLine(journal, x, "generated")
  <2>. SUFFICES ASSUME NEW x, NEW i \in DOMAIN journal',
                       journal'[i] = [id |-> x, status |-> "generated"]
                PROVE  HasLine(journal, x, "generated")
    BY DEF HasLine
  <2>1. i \in 1..n
    BY <1>1
  <2>. QED  BY <1>1, <2>1 DEF HasLine
<1>6. \A k \in (m + 1)..(n + 1) :
        \/ journal'[k].status = "exited"
        \/ journal'[k].status = "entered" /\ ~HasLine(journal', journal'[k].id, "generated")
  <2>. SUFFICES ASSUME NEW k \in (m + 1)..(n + 1)
                PROVE  \/ journal'[k].status = "exited"
                       \/ journal'[k].status = "entered"
                            /\ ~HasLine(journal', journal'[k].id, "generated")
    OBVIOUS
  <2>1. CASE k \in (m + 1)..n
    <3>1. Harmless(k) /\ journal'[k] = journal[k]
      BY <1>1, <1>2, <2>1 DEF CachedAt, n
    <3>. QED  BY <1>5, <3>1 DEF Harmless
  <2>2. CASE k = n + 1
    BY <1>1, <1>5, <2>2
  <2>. QED  BY <1>1, <1>2, <2>1, <2>2
<1>7. /\ Len(cache.lines) = m - b
      /\ \A i \in 1..Len(cache.lines) : cache.lines[i] = journal'[b + i]
  BY <1>1, <1>2, <1>4 DEF CachedAt, b
<1>8. CachedAt(m)'
  BY <1>1, <1>6, <1>7 DEF CachedAt, Harmless, b
<1>. QED  BY <1>1, <1>2, <1>8

\* What is read now is cached as it is.
LEMMA CacheRead ==
  ASSUME TypeOK, MadeInv, CacheInv, NEW limit \in Limits, Reads(limit), UNCHANGED journal
  PROVE  \E m \in 0..Len(journal') : CachedAt(m)'
<1>1. \/ cache' = cache /\ cache # None
      \/ cache'.lines = LastLines(journal, limit) /\ cache'.limit = limit
  BY ReadsFacts
<1>2. CASE cache' = cache /\ cache # None
  <2>1. PICK m \in 0..Len(journal) : CachedAt(m)
    BY <1>2 DEF CacheInv
  <2>2. CachedAt(m)'
    BY <1>2, <2>1 DEF CachedAt, Harmless
  <2>. QED  BY <2>1, <2>2
<1>3. CASE cache'.lines = LastLines(journal, limit) /\ cache'.limit = limit
  <2>. DEFINE n == Len(journal)
  <2>1. n \in Nat /\ limit \in Nat /\ journal \in Seq(Line)
    BY LimitTypes DEF TypeOK
  <2>2. /\ Len(cache'.lines) = n - Before(cache'.limit, n)
        /\ \A i \in 1..Len(cache'.lines) : cache'.lines[i] = journal[Before(cache'.limit, n) + i]
    BY <1>3, <2>1, LastLinesFacts
  <2>. HIDE DEF n
  <2>3. (n + 1)..n = {}
    BY <2>1
  <2>4. CachedAt(n)'
    BY <2>2, <2>3 DEF CachedAt, n
  <2>. QED  BY <2>1, <2>4 DEF n
<1>. QED  BY <1>1, <1>2, <1>3

LEMMA CacheStep == TypeOK /\ MadeInv /\ CacheInv /\ [Next]_vars => CacheInv'
<1>. SUFFICES ASSUME TypeOK, MadeInv, CacheInv, [Next]_vars PROVE CacheInv'
  OBVIOUS
<1>. USE DEF diskVars, exitVars
<1>. DEFINE Entry == {"enqueue", "execute", "enterRow", "enterLine"}
<1>0. Window \in Limits /\ Wide \in Limits /\ made \in Nat
  BY MadeTypes DEF Limits
<1>1. ASSUME UNCHANGED <<journal, made>>, cache' = cache \/ cache' = None,
             pc' = "save" => pc = "save",
             pc' \in Entry /\ cache' # None => ~HasLine(journal, made, "generated")
      PROVE  CacheInv'
  <2>1. cache' # None => \E m \in 0..Len(journal') : CachedAt(m)'
    <3>. SUFFICES ASSUME cache' # None PROVE \E m \in 0..Len(journal') : CachedAt(m)'
      OBVIOUS
    <3>1. PICK m \in 0..Len(journal) : CachedAt(m)
      BY <1>1 DEF CacheInv
    <3>2. CachedAt(m)'
      BY <1>1, <3>1 DEF CachedAt, Harmless
    <3>. QED  BY <1>1, <3>1, <3>2
  <2>. QED  BY <1>1, <2>1 DEF CacheInv
<1>2. ASSUME NEW limit \in Limits, Reads(limit), UNCHANGED journal, pc' \notin Entry,
             pc' = "save" => made' = made + 1
      PROVE  CacheInv'
  <2>1. \E m \in 0..Len(journal') : CachedAt(m)'
    BY <1>2, CacheRead
  <2>2. ~HasLine(journal, made + 1, "generated")
    <3>1. \A i \in DOMAIN journal : journal[i].id \in Nat /\ journal[i].id <= made
      BY LineFacts DEF TypeOK, MadeInv
    <3>. QED  BY <1>0, <3>1 DEF HasLine
  <2>3. pc' = "save" => ~HasLine(journal', made', "generated")
    BY <1>2, <2>2
  <2>. QED  BY <1>2, <2>1, <2>3 DEF CacheInv
<1>3. CASE CheckCircuitBreaker
  <2>1. CASE Reads(Window)
    <3>1. UNCHANGED journal /\ pc' \notin Entry /\ (pc' = "save" => made' = made + 1)
      BY <1>3 DEF CheckCircuitBreaker
    <3>. QED  BY <1>0, <1>2, <2>1, <3>1
  <2>2. CASE UNCHANGED cache
    <3>1. UNCHANGED journal /\ (UNCHANGED <<made, pc>> \/ (pc' = "save" /\ made' = made + 1))
          /\ pc = "signals"
      BY <1>3 DEF CheckCircuitBreaker
    <3>2. CASE UNCHANGED <<made, pc>>
      BY <1>1, <2>2, <3>1, <3>2
    <3>3. CASE pc' = "save" /\ made' = made + 1
      <4>1. \A i \in DOMAIN journal : journal[i].id \in Nat /\ journal[i].id <= made
        BY LineFacts DEF TypeOK, MadeInv
      <4>2. ~HasLine(journal, made + 1, "generated")
        BY <1>0, <4>1 DEF HasLine
      <4>3. ~HasLine(journal', made', "generated")
        BY <3>1, <3>3, <4>2
      <4>4. cache' # None => \E m \in 0..Len(journal') : CachedAt(m)'
        <5>. SUFFICES ASSUME cache' # None PROVE \E m \in 0..Len(journal') : CachedAt(m)'
          OBVIOUS
        <5>1. PICK m \in 0..Len(journal) : CachedAt(m)
          BY <2>2 DEF CacheInv
        <5>2. CachedAt(m)'
          BY <2>2, <3>1, <5>1 DEF CachedAt, Harmless
        <5>. QED  BY <3>1, <5>1, <5>2
      <4>. QED  BY <3>3, <4>3, <4>4 DEF CacheInv
    <3>. QED  BY <3>1, <3>2, <3>3
  <2>. QED  BY <1>3, <2>1, <2>2 DEF CheckCircuitBreaker
<1>4. CASE SaveSignal
  <2>1. CASE cache' = None /\ pc' = "enqueue"
    BY <2>1 DEF CacheInv
  <2>2. CASE (Validated \/ pc' = "enqueue") /\ UNCHANGED <<journal, cache>>
    <3>1. made' = made /\ pc = "save" /\ pc' # "save"
      BY <1>4, <2>2 DEF SaveSignal, Validated
    <3>2. ~HasLine(journal, made, "generated")
      BY <3>1 DEF CacheInv
    <3>. QED  BY <1>1, <2>2, <3>1, <3>2
  <2>. QED  BY <1>4, <2>1, <2>2 DEF SaveSignal
<1>5. CASE EnqueueRow \/ ExecuteSignal \/ EnterRow
  <2>1. UNCHANGED <<journal, made, cache>> /\ pc \in Entry /\ pc' # "save"
    BY <1>5 DEF EnqueueRow, ExecuteSignal, EnterRow, Validated
  <2>. QED  BY <1>1, <2>1 DEF CacheInv
<1>6. CASE EnterLine \/ ExitLine
  <2>1. /\ UNCHANGED <<made, cache>> /\ pc' \notin Entry /\ pc' # "save"
        /\ EnterLine => made \in Ids /\ pc \in Entry
        /\ ExitLine => exit.id \in Ids
    <3>1. EnterLine => made \in Ids
      BY MadeTypes DEF EnterLine, MadeInv, TypeOK
    <3>2. ExitLine => exit.id \in Ids
      BY MadeTypes DEF ExitLine, TypeOK, Bookkeeping
    <3>. QED  BY <1>6, <3>1, <3>2 DEF EnterLine, ExitLine
  <2>2. CASE UNCHANGED journal
    BY <1>1, <2>1, <2>2
  <2>3. CASE EnterLine /\ Written(made, "entered")
    <3>1. cache # None => ~HasLine(journal, made, "generated")
      BY <2>1, <2>3 DEF CacheInv
    <3>2. cache # None => \E m \in 0..Len(journal') : CachedAt(m)'
      BY <2>1, <2>3, <3>1, CacheBehind
    <3>. QED  BY <2>1, <3>2 DEF CacheInv
  <2>4. CASE ExitLine /\ Written(exit.id, "exited")
    <3>2. cache # None => \E m \in 0..Len(journal') : CachedAt(m)'
      BY <2>1, <2>4, CacheBehind
    <3>. QED  BY <2>1, <3>2 DEF CacheInv
  <2>5. EnterLine => UNCHANGED journal \/ Written(made, "entered")
    BY <2>1, AddLineFacts DEF EnterLine, Statuses
  <2>6. ExitLine => UNCHANGED journal \/ Written(exit.id, "exited")
    BY <2>1, AddLineFacts DEF ExitLine, Statuses
  <2>. QED  BY <1>6, <2>2, <2>3, <2>4, <2>5, <2>6
<1>7. CASE ProcessExits \/ CloseRequests \/ SyncWithBroker \/ SaveState
  <2>1. UNCHANGED <<journal, made>> /\ pc' \notin Entry /\ pc' # "save"
    BY <1>7 DEF ProcessExits, CloseRequests, SyncWithBroker, SaveState
  <2>2. UNCHANGED cache \/ Reads(Window) \/ Reads(Wide)
    BY <1>7 DEF ProcessExits, CloseRequests, SyncWithBroker, SaveState
  <2>. QED  BY <1>0, <1>1, <1>2, <2>1, <2>2
<1>8. CASE SignalsDone \/ TrackExit \/ TrackDone \/ ExitRow \/ SavePerformance \/ Restart
  <2>1. UNCHANGED <<journal, made>> /\ pc' \notin Entry /\ pc' # "save"
    BY <1>8 DEF SignalsDone, TrackExit, TrackDone, ExitRow, SavePerformance, Restart
  <2>2. cache' = cache \/ cache' = None
    BY <1>8 DEF SignalsDone, TrackExit, TrackDone, ExitRow, SavePerformance, Restart
  <2>. QED  BY <1>1, <2>1, <2>2
<1>9. CASE CacheExpires \/ PositionEvent \/ (\E s \in Ids : RowLands(s)) \/ UNCHANGED vars
  <2>1. UNCHANGED <<journal, made, pc>> /\ (cache' = cache \/ cache' = None)
    BY <1>9 DEF CacheExpires, PositionEvent, RowLands, vars
  <2>. QED  BY <1>1, <2>1 DEF CacheInv
<1>. QED  BY <1>3, <1>4, <1>5, <1>6, <1>7, <1>8, <1>9 DEF Next, Loop

\* What the check reads are the last Window lines of the journal as it was when
\* it had m lines.
LEMMA RecentWindow ==
  ASSUME TypeOK, MadeInv, CacheInv
  PROVE  \E m \in 0..Len(journal) :
           /\ Len(Recent(Window)) = m - Before(Window, m)
           /\ \A i \in 1..Len(Recent(Window)) :
                Recent(Window)[i] = journal[Before(Window, m) + i]
           /\ \A k \in (m + 1)..Len(journal) : Harmless(k)
<1>0. Window \in Nat /\ Len(journal) \in Nat /\ journal \in Seq(Line)
  BY BoundsAssumption DEF TypeOK
<1>1. CASE Hit(Window)
  <2>. DEFINE lines == cache.lines
              limit == cache.limit
  <2>1. lines \in Seq(Line) /\ limit \in Nat /\ Window <= limit
    BY <1>0, <1>1, BoundsAssumption DEF Hit, TypeOK
  <2>2. PICK m \in 0..Len(journal) : CachedAt(m)
    BY <1>1 DEF Hit, CacheInv
  <2>. DEFINE b == Before(limit, m)
              l == m - b
              c == Before(Window, l)
  <2>3. m \in Nat /\ Len(lines) = l /\ \A i \in 1..l : lines[i] = journal[b + i]
    BY <1>0, <2>2 DEF CachedAt
  <2>4. Recent(Window) = LastLines(lines, Window)
    BY <1>1 DEF Recent
  <2>. HIDE DEF lines, limit
  <2>5. /\ Len(Recent(Window)) = l - c
        /\ \A i \in 1..Len(Recent(Window)) : Recent(Window)[i] = lines[c + i]
    BY <1>0, <2>1, <2>3, <2>4, LastLinesFacts
  <2>6. l \in Nat /\ l - c = m - Before(Window, m) /\ b + c = Before(Window, m) /\ b \in Nat /\ c \in Nat
    BY <1>0, <2>1, <2>3 DEF Before
  <2>7. \A i \in 1..(l - c) : c + i \in 1..l /\ b + (c + i) = Before(Window, m) + i
    <3>. HIDE DEF b, l
    <3>1. \A i \in 1..(l - c) : c + i \in 1..l
      BY <1>0, <2>6, BeforeFacts
    <3>. HIDE DEF c
    <3>. QED  BY <2>6, <3>1
  <2>. HIDE DEF b, l, c
  <2>8. \A i \in 1..Len(Recent(Window)) : Recent(Window)[i] = journal[Before(Window, m) + i]
    BY <2>3, <2>5, <2>7
  <2>. QED  BY <2>2, <2>5, <2>6, <2>8 DEF CachedAt
<1>2. CASE ~Hit(Window)
  <2>. DEFINE n == Len(journal)
  <2>1. Recent(Window) = LastLines(journal, Window)
    BY <1>2 DEF Recent
  <2>2. /\ Len(Recent(Window)) = n - Before(Window, n)
        /\ \A i \in 1..Len(Recent(Window)) : Recent(Window)[i] = journal[Before(Window, n) + i]
    BY <1>0, <2>1, LastLinesFacts
  <2>3. (n + 1)..n = {} /\ n \in 0..n
    BY <1>0
  <2>. HIDE DEF n
  <2>4. \A k \in (n + 1)..n : Harmless(k)
    BY <2>3
  <2>. QED  BY <2>2, <2>3, <2>4 DEF n
<1>. QED  BY <1>1, <1>2

\* An open trade of the file is in what the check reads.
LEMMA RecentOpen ==
  ASSUME TypeOK, MadeInv, CacheInv, NEW s \in OpenIn(LastLines(journal, Window)),
         HasLine(journal, s, "generated")
  PROVE  s \in OpenIn(Recent(Window))
<1>. DEFINE n == Len(journal)
            b == Before(Window, n)
            now == LastLines(journal, Window)
            seen == Recent(Window)
<1>0. Window \in Nat /\ n \in Nat /\ journal \in Seq(Line) /\ s \in Ids
  BY BoundsAssumption DEF TypeOK, OpenIn
<1>1. /\ now \in Seq(Line) /\ Len(now) = n - b
      /\ \A i \in 1..Len(now) : now[i] = journal[b + i]
  BY <1>0, LastLinesFacts
<1>2. seen \in Seq(Line)
  BY RecentFacts DEF Limits
<1>3. LatestStatus(now, s) = "entered"
  BY DEF OpenIn
<1>4. PICK m \in 0..n :
        /\ Len(seen) = m - Before(Window, m)
        /\ \A i \in 1..Len(seen) : seen[i] = journal[Before(Window, m) + i]
        /\ \A k \in (m + 1)..n : Harmless(k)
  BY RecentWindow
<1>. DEFINE c == Before(Window, m)
<1>5. b \in 0..n /\ c \in 0..m /\ m \in Nat /\ m <= n /\ c <= b
  BY <1>0, <1>4 DEF Before
<1>. HIDE DEF now, seen, n
<1>6. PICK i \in 1..Len(now) :
        /\ now[i].id = s /\ now[i].status = "entered"
        /\ \A j \in 1..Len(now) : j > i => now[j].id # s
  BY <1>0, <1>1, <1>3, LatestEntered
<1>. DEFINE p == b + i
<1>. HIDE DEF b, c
<1>7. /\ p \in 1..n /\ p > b /\ journal[p].id = s /\ journal[p].status = "entered"
      /\ \A k \in (p + 1)..n : journal[k].id # s
  <2>1. p \in 1..n /\ p > b /\ journal[p] = now[i] /\ i \in Nat
    BY <1>0, <1>1, <1>5, <1>6
  <2>2. ASSUME NEW k \in (p + 1)..n PROVE journal[k].id # s
    <3>0. b \in Nat /\ n \in Nat /\ k \in Nat /\ k > b + i /\ k <= n
      BY <1>0, <1>5, <2>1
    <3>1. k - b \in 1..Len(now) /\ k - b > i /\ b + (k - b) = k
      BY <1>1, <2>1, <3>0
    <3>2. now[k - b] = journal[k] /\ now[k - b].id # s
      BY <1>1, <1>6, <3>1
    <3>. QED  BY <3>2
  <2>. QED  BY <1>6, <2>1, <2>2
<1>. HIDE DEF p
<1>8. p <= m
  <2>1. ~Harmless(p)
    BY <1>7 DEF Harmless
  <2>2. p \notin (m + 1)..n
    BY <1>4, <2>1
  <2>. QED  BY <1>0, <1>5, <1>7, <2>2
<1>. DEFINE q == p - c
<1>9. q \in 1..Len(seen) /\ c + q = p /\ Len(seen) = m - c /\ q \in Nat
  <2>1. Len(seen) = m - c
    BY <1>4 DEF c
  <2>. QED  BY <1>0, <1>5, <1>7, <1>8, <2>1
<1>10. \A j \in 1..Len(seen) : seen[j] = journal[c + j]
  BY <1>4 DEF c
<1>. HIDE DEF q
<1>11. seen[q].id = s /\ seen[q].status = "entered"
  BY <1>7, <1>9, <1>10
<1>12. ASSUME NEW j \in 1..Len(seen), j > q PROVE seen[j].id # s
  <2>1. c + j \in (p + 1)..n
    BY <1>0, <1>5, <1>9, <1>12
  <2>. QED  BY <1>7, <1>10, <2>1
<1>13. LatestStatus(seen, s) = "entered"
  BY <1>0, <1>2, <1>9, <1>11, <1>12, LatestEntered
<1>. QED  BY <1>0, <1>13 DEF OpenIn, seen

-----------------------------------------------------------------------------
(* The invariant, and what follows from it.                                 *)

IInv ==
  /\ TypeOK /\ MadeInv /\ QueueInv /\ ExitsInv
  /\ CountInv /\ MissedInv /\ WholeInv /\ CacheInv

LEMMA InitIInv == Init => IInv
<1>. SUFFICES ASSUME Init PROVE IInv
  OBVIOUS
<1>1. TypeOK
  BY TypeInit
<1>2. /\ pc = "close" /\ journal = <<>> /\ performance = <<>> /\ cache = None /\ queue = {}
      /\ exit = None /\ \A s \in Ids : rows[s] = <<>>
  BY DEF Init
<1>3. \A s \in Ids : Generated(s) = {} /\ ExitedRows(s) = {} /\ Bookings(s) = {} /\ Pending(s) = 0
  BY <1>2 DEF Generated, ExitedRows, Bookings, Pending
<1>4. MadeInv /\ QueueInv /\ ExitsInv /\ WholeInv /\ CacheInv
  BY <1>2, <1>3 DEF MadeInv, QueueInv, ExitsInv, WholeInv, CacheInv, Entering
<1>5. CountInv /\ MissedInv
  <2>1. Cardinality({}) = 0 /\ faults = 0 /\ restarts = 0
    BY FS_EmptySet DEF Init
  <2>2. CountInv
    BY <1>3, <2>1 DEF CountInv
  <2>3. MissedInv
    <3>. SUFFICES ASSUME NEW s \in Ids
                  PROVE  Cardinality(ExitedRows(s)) <=
                           Cardinality(Bookings(s)) + Pending(s) + restarts + faults
      BY DEF MissedInv
    <3>. QED  BY <1>3, <2>1
  <2>. QED  BY <2>2, <2>3
<1>. QED  BY <1>1, <1>4, <1>5 DEF IInv

LEMMA Inductive == Spec => []IInv
<1>1. IInv /\ [Next]_vars => IInv'
  BY TypeStep, MadeStep, QueueStep, ExitsStep, CountStep, MissedStep, WholeStep, CacheStep
     DEF IInv
<1>. QED  BY <1>1, InitIInv, PTL DEF Spec

(* Type correctness, for every configuration, however many writes fail.     *)
THEOREM TypeCorrect == Spec => []TypeOK
<1>1. IInv => TypeOK
  BY DEF IInv
<1>. QED  BY <1>1, Inductive, PTL

LEMMA AtMostOne ==
  ASSUME NEW S, \A i, j \in S : i = j
  PROVE  IsFiniteSet(S) /\ Cardinality(S) \in {0, 1}
<1>1. CASE S = {}
  BY <1>1, FS_EmptySet
<1>2. CASE S # {}
  <2>1. PICK x \in S : TRUE
    BY <1>2
  <2>2. S = {x}
    BY <2>1
  <2>. QED  BY <2>2, FS_Singleton
<1>. QED  BY <1>1, <1>2

\* The exits of a signal are separated by its one row "generated".
LEMMA FewExits ==
  ASSUME TypeOK, QueueInv, ExitsInv, NEW s \in Ids
  PROVE  Cardinality(ExitedRows(s)) <= IF ExitOvertaken(s) THEN 2 ELSE 1
<1>0. /\ Len(rows[s]) \in Nat /\ DOMAIN rows[s] = 1..Len(rows[s])
      /\ \A i \in ExitedRows(s) : i \in DOMAIN rows[s] /\ i \in Nat
      /\ \A i \in Generated(s) : i \in DOMAIN rows[s] /\ i \in Nat
      /\ \A i \in Generated(s) : rows[s][i].status = "generated"
  BY DEF TypeOK, ExitedRows, Generated
<1>1. CASE ~ExitOvertaken(s)
  <2>1. ASSUME NEW i \in ExitedRows(s), NEW j \in ExitedRows(s) PROVE ~(i < j)
    BY <1>0, <1>1 DEF ExitsInv, ExitOvertaken
  <2>2. \A i, j \in ExitedRows(s) : i = j
    BY <1>0, <2>1
  <2>3. Cardinality(ExitedRows(s)) \in {0, 1}
    BY <2>2, AtMostOne
  <2>. QED  BY <1>1, <2>3
<1>2. CASE ExitOvertaken(s)
  <2>1. PICK g \in Generated(s) : TRUE
    BY <1>2 DEF ExitOvertaken, Generated
  <2>. DEFINE A == {i \in ExitedRows(s) : i < g}
              B == {i \in ExitedRows(s) : ~(i < g)}
  <2>2. \A k \in Generated(s) : k = g
    BY <2>1 DEF QueueInv
  <2>3. \A i, j \in A : i = j
    <3>1. ASSUME NEW i \in A, NEW j \in A PROVE ~(i < j)
      BY <1>0, <2>1, <2>2 DEF ExitsInv
    <3>. QED  BY <1>0, <3>1
  <2>4. \A i, j \in B : i = j
    <3>1. ASSUME NEW i \in B, NEW j \in B PROVE ~(i < j)
      BY <1>0, <2>1, <2>2 DEF ExitsInv
    <3>. QED  BY <1>0, <3>1
  <2>. HIDE DEF A, B
  <2>5. /\ IsFiniteSet(A) /\ Cardinality(A) \in {0, 1}
        /\ IsFiniteSet(B) /\ Cardinality(B) \in {0, 1}
    BY <2>3, <2>4, AtMostOne
  <2>6. ExitedRows(s) = A \union B
    BY DEF A, B
  <2>7. /\ Cardinality(A \union B) = Cardinality(A) + Cardinality(B) - Cardinality(A \cap B)
        /\ IsFiniteSet(A \cap B)
    BY <2>5, FS_Union, FS_Subset
  <2>8. Cardinality(A \cap B) \in Nat
    BY <2>7, FS_CardinalityType
  <2>. QED  BY <1>2, <2>5, <2>6, <2>7, <2>8
<1>. QED  BY <1>1, <1>2

(* track_exit books a trade once, but for each failed write and for a row   *)
(* "generated" that lands late; it books what it knows of the trade; and    *)
(* every row "exited" is booked, but for one per restart or failed write.   *)
THEOREM BookingsRight == Spec => []BookedRight
<1>1. IInv => BookedRight
  <2>. SUFFICES ASSUME IInv, NEW s \in Ids
                PROVE  /\ Cardinality(Bookings(s)) <= faults + (IF ExitOvertaken(s) THEN 2 ELSE 1)
                       /\ (\E i \in Bookings(s) : ~performance[i].whole)
                            => mode.adapter /\ rows[s][1].status # "generated"
                       /\ Cardinality(ExitedRows(s)) <=
                            Cardinality(Bookings(s))
                              + (IF exit # None /\ exit.id = s THEN 1 ELSE 0) + restarts + faults
    BY DEF BookedRight
  <2>0. TypeOK /\ QueueInv /\ ExitsInv /\ CountInv /\ MissedInv /\ WholeInv
    BY DEF IInv
  <2>1. /\ Cardinality(Bookings(s)) + Pending(s) <= Cardinality(ExitedRows(s)) + faults
        /\ Pending(s) \in {0, 1} /\ faults \in Nat
        /\ Cardinality(Bookings(s)) \in Nat /\ Cardinality(ExitedRows(s)) \in Nat
    BY <2>0, FiniteCounts DEF CountInv, Pending, TypeOK
  <2>2. Cardinality(ExitedRows(s)) <= IF ExitOvertaken(s) THEN 2 ELSE 1
    BY <2>0, FewExits
  <2>3. Cardinality(Bookings(s)) <= faults + (IF ExitOvertaken(s) THEN 2 ELSE 1)
    BY <2>1, <2>2
  <2>4. (\E i \in Bookings(s) : ~performance[i].whole)
          => mode.adapter /\ rows[s][1].status # "generated"
    BY <2>0 DEF Bookings, WholeInv, Bare
  <2>. DEFINE inHand == IF exit # None /\ exit.id = s THEN 1 ELSE 0
  <2>5. inHand \in {0, 1} /\ Pending(s) <= inHand
    BY <2>0 DEF Pending, TypeOK, Bookkeeping
  <2>6. /\ Cardinality(ExitedRows(s)) <= Cardinality(Bookings(s)) + Pending(s) + restarts + faults
        /\ restarts \in Nat
    BY <2>0 DEF MissedInv, TypeOK
  <2>. HIDE DEF inHand
  <2>7. Cardinality(ExitedRows(s)) <= Cardinality(Bookings(s)) + inHand + restarts + faults
    BY <2>1, <2>5, <2>6
  <2>. QED  BY <2>3, <2>4, <2>7 DEF inHand
<1>. QED  BY <1>1, Inductive, PTL

(* What the breaker counts, through its cache, are at least the trades of   *)
(* the file that are open: it admits a signal only below the limit.         *)
THEOREM OpenTradesBounded == Spec => OneOpenTrade
<1>. DEFINE Now == {s \in OpenIn(LastLines(journal, Window)) : HasLine(journal, s, "generated")}
<1>1. IInv /\ [Next]_vars =>
        [pc = "signals" /\ pc' = "save" /\ ~ByBroker => Cardinality(Now) < MaxOpen]_vars
  <2>. SUFFICES ASSUME IInv, [Next]_vars, pc = "signals", pc' = "save", ~ByBroker
                PROVE  Cardinality(Now) < MaxOpen
    OBVIOUS
  <2>1. CheckCircuitBreaker
    BY DEF Next, Loop, SaveSignal, EnqueueRow, ExecuteSignal, EnterRow, EnterLine, SignalsDone,
       ProcessExits, CloseRequests, TrackExit, TrackDone, ExitRow, ExitLine, SavePerformance,
       SyncWithBroker, SaveState, CacheExpires, PositionEvent, Restart, RowLands, vars
  <2>2. Cardinality(OpenIn(Recent(Window))) < MaxOpen
    BY <2>1 DEF CheckCircuitBreaker, ActivePositions
  <2>3. IsFiniteSet(OpenIn(Recent(Window)))
    <3>1. IsFiniteSet(Ids) /\ OpenIn(Recent(Window)) \subseteq Ids
      BY BoundsAssumption, FS_Interval DEF Ids, OpenIn
    <3>. QED  BY <3>1, FS_Subset
  <2>4. Now \subseteq OpenIn(Recent(Window))
    BY RecentOpen DEF IInv
  <2>. HIDE DEF Now
  <2>5. Cardinality(Now) <= Cardinality(OpenIn(Recent(Window))) /\ IsFiniteSet(Now)
    BY <2>3, <2>4, FS_Subset
  <2>6. Cardinality(Now) \in Nat /\ Cardinality(OpenIn(Recent(Window))) \in Nat /\ MaxOpen \in Nat
    BY <2>3, <2>5, FS_CardinalityType, BoundsAssumption
  <2>. QED  BY <2>2, <2>5, <2>6
<1>. QED  BY <1>1, Inductive, PTL DEF Spec, OneOpenTrade

=============================================================================
