------------------------ MODULE AsyncWriteQueue_proofs ------------------------
(* Theorems about AsyncWriteQueue, for every set of writes and every size. *)
EXTENDS AsyncWriteQueue, FiniteSetTheorems, TLAPS

(* Why nothing can be added behind the worker's back while it flushes: its *)
(* flush starts after _shutdown_event, which the producer sets on its way  *)
(* into stop(), and it leaves stop() with _running cleared for good.       *)
FlushInv ==
  /\ worker = "new" => ~running /\ ~shutdown
  /\ shutdown <=> producer \in {"join", "stopped"}
  /\ producer = "stopped" => ~running
  /\ worker \in {"flushOverflow", "flush", "exited"} => shutdown
  /\ worker \in {"flush", "exited"} => overflow = <<>>
  /\ worker = "exited" => queue = {} /\ hand = <<>>

LEMMA InitFlushInv == Init => FlushInv
  BY DEF Init, FlushInv

LEMMA NextFlushInv == FlushInv /\ [Next]_vars => FlushInv'
<1>. SUFFICES ASSUME FlushInv, [Next]_vars PROVE FlushInv'
  OBVIOUS
<1>. USE DEF FlushInv
<1>1. CASE StartWorker
  BY <1>1 DEF StartWorker
<1>2. ASSUME NEW w \in Writes,
             EnqueueNotRunning(w) \/ EnqueuePut(w) \/ EnqueueFull(w)
      PROVE  FlushInv'
  <2>1. CASE EnqueueNotRunning(w)
    BY <2>1 DEF EnqueueNotRunning, New
  <2>2. CASE EnqueuePut(w)
    BY <2>2 DEF EnqueuePut, New
  <2>3. CASE EnqueueFull(w)
    <3>1. running /\ ~shutdown /\ worker # "new"
      BY <2>3 DEF EnqueueFull, New
    <3>2. UNCHANGED <<running, shutdown, queue, overflow, hand, worker>>
      BY <2>3 DEF EnqueueFull
    <3>3. producer' \in {"idle", "spill", "wait"}
      BY <2>3, <3>1 DEF EnqueueFull, New
    <3>. QED  BY <3>1, <3>2, <3>3
  <2>. QED  BY <1>2, <2>1, <2>2, <2>3
<1>3. CASE Spill \/ WaitedPut \/ WaitedInVain
  BY <1>3 DEF Spill, WaitedPut, WaitedInVain
<1>4. CASE Stop \/ StopReturns
  BY <1>4 DEF Stop, StopReturns
<1>5. ASSUME NEW ok \in BOOLEAN, Execute(ok) PROVE FlushInv'
  BY <1>5 DEF Execute
<1>6. CASE Drain \/ DrainShutdown \/ GetNothing \/ FlushOverflow \/ FlushEnds
  BY <1>6 DEF Drain, DrainShutdown, GetNothing, FlushOverflow, FlushEnds, At
<1>7. ASSUME NEW w \in Writes, GetWrite(w) \/ FlushWrite(w) PROVE FlushInv'
  BY <1>7 DEF GetWrite, FlushWrite, At
<1>8. CASE ProcessEnds \/ UNCHANGED vars
  BY <1>8 DEF ProcessEnds, vars, outcome
<1>. QED
  BY <1>1, <1>2, <1>3, <1>4, <1>5, <1>6, <1>7, <1>8 DEF Next, Producer, Worker

(* A worker that has exited left no accepted write behind.                 *)
THEOREM FlushCompletes == Spec => []FlushIsComplete
<1>1. FlushInv => FlushIsComplete
  BY DEF FlushInv, FlushIsComplete, InMemory, Elements
<1>. QED  BY <1>1, InitFlushInv, NextFlushInv, PTL DEF Spec

-------------------------------------------------------------------------------
(* Sequences as lists of distinct writes.                                  *)

LEMMA AppendElements ==
  ASSUME NEW S, NEW s \in Seq(S), NEW x \in S
  PROVE  /\ Append(s, x) \in Seq(S) /\ Len(Append(s, x)) = Len(s) + 1
         /\ Elements(Append(s, x)) = Elements(s) \cup {x}
         /\ IsInjective(s) /\ x \notin Elements(s) => IsInjective(Append(s, x))
<1>1. DOMAIN Append(s, x) = DOMAIN s \cup {Len(s) + 1} /\ Len(s) \in Nat /\ DOMAIN s = 1..Len(s)
  OBVIOUS
<1>2. Append(s, x)[Len(s) + 1] = x /\ \A i \in DOMAIN s : Append(s, x)[i] = s[i]
  OBVIOUS
<1>. QED  BY <1>1, <1>2 DEF Elements, IsInjective

LEMMA TailElements ==
  ASSUME NEW S, NEW s \in Seq(S), s # <<>>
  PROVE  /\ Head(s) \in S /\ Tail(s) \in Seq(S) /\ Len(Tail(s)) = Len(s) - 1
         /\ Elements(s) = Elements(Tail(s)) \cup {Head(s)}
         /\ IsInjective(s) => IsInjective(Tail(s)) /\ Head(s) \notin Elements(Tail(s))
<1>1. Len(s) \in Nat /\ DOMAIN s = 1..Len(s) /\ Len(s) > 0 /\ Head(s) = s[1]
  OBVIOUS
<1>2. /\ DOMAIN Tail(s) = 1..(Len(s) - 1)
      /\ \A i \in 1..(Len(s) - 1) : Tail(s)[i] = s[i + 1]
  BY <1>1
<1>3. \A i \in 2..Len(s) : i - 1 \in DOMAIN Tail(s) /\ Tail(s)[i - 1] = s[i]
  BY <1>1, <1>2
<1>4. DOMAIN s = {1} \cup 2..Len(s)
  BY <1>1
<1>5. Elements(s) = Elements(Tail(s)) \cup {Head(s)}
  <2>1. \A i \in DOMAIN Tail(s) : i + 1 \in DOMAIN s /\ Tail(s)[i] = s[i + 1]
    BY <1>1, <1>2
  <2>2. Elements(Tail(s)) \cup {Head(s)} \subseteq Elements(s)
    BY <1>1, <2>1 DEF Elements
  <2>3. ASSUME NEW i \in DOMAIN s PROVE s[i] \in Elements(Tail(s)) \cup {Head(s)}
    BY <1>1, <1>3, <1>4 DEF Elements
  <2>. QED  BY <2>2, <2>3 DEF Elements
<1>6. ASSUME IsInjective(s)
      PROVE  IsInjective(Tail(s)) /\ Head(s) \notin Elements(Tail(s))
  BY <1>1, <1>2, <1>6 DEF IsInjective, Elements
<1>. QED  BY <1>1, <1>5, <1>6

(* What the spill of a full overflow does to it. *)
LEMMA DisplaceElements ==
  ASSUME NEW S, NEW s \in Seq(S), NEW x \in S, s # <<>>
  PROVE  /\ Append(Tail(s), x) \in Seq(S) /\ Len(Append(Tail(s), x)) = Len(s)
         /\ Elements(Append(Tail(s), x)) = Elements(Tail(s)) \cup {x}
         /\ IsInjective(s) /\ x \notin Elements(s) => IsInjective(Append(Tail(s), x))
<1>. DEFINE t == Tail(s)
<1>1. /\ t \in Seq(S) /\ Len(t) = Len(s) - 1 /\ Len(s) \in Nat
      /\ Elements(s) = Elements(t) \cup {Head(s)}
      /\ IsInjective(s) => IsInjective(t)
  BY TailElements
<1>. HIDE DEF t
<1>2. /\ Append(t, x) \in Seq(S) /\ Len(Append(t, x)) = Len(t) + 1
      /\ Elements(Append(t, x)) = Elements(t) \cup {x}
      /\ IsInjective(t) /\ x \notin Elements(t) => IsInjective(Append(t, x))
  BY <1>1, AppendElements
<1>3. /\ Append(t, x) \in Seq(S) /\ Len(Append(t, x)) = Len(s)
      /\ Elements(Append(t, x)) = Elements(t) \cup {x}
      /\ IsInjective(s) /\ x \notin Elements(s) => IsInjective(Append(t, x))
  BY <1>1, <1>2
<1>. QED  BY <1>3 DEF t

LEMMA ElementsCount ==
  ASSUME NEW S, NEW s \in Seq(S), IsInjective(s)
  PROVE  Cardinality(Elements(s)) = Len(s) /\ Elements(s) \in SUBSET S
<1>1. Len(s) \in Nat /\ DOMAIN s = 1..Len(s) /\ \A i \in 1..Len(s) : s[i] \in S
  OBVIOUS
<1>2. s \in [1..Len(s) -> Elements(s)]
  BY <1>1 DEF Elements
<1>3. s \in Bijection(1..Len(s), Elements(s))
  BY <1>1, <1>2 DEF Bijection, Injection, Surjection, Elements
<1>. QED  BY <1>1, <1>3, FS_CountingElements DEF ExistsBijection, Elements

LEMMA WritesFinite == IsFiniteSet(Writes)
  BY PrioritiesAssumption, FS_Union DEF Writes

-------------------------------------------------------------------------------
(* Types.                                                                  *)

LEMMA QueueBounds ==
  ASSUME NEW Q \in SUBSET Writes, NEW w \in Writes
  PROVE  /\ Cardinality(Q) \in Nat
         /\ Cardinality(Q) < QueueSize => Cardinality(Q \cup {w}) <= QueueSize
         /\ Cardinality(Q) <= QueueSize => Cardinality(Q \ {w}) <= QueueSize
<1>1. IsFiniteSet(Q) /\ Cardinality(Q) \in Nat
  BY WritesFinite, FS_Subset, FS_CardinalityType
<1>2. Cardinality(Q \cup {w}) \in {Cardinality(Q), Cardinality(Q) + 1}
  BY <1>1, FS_AddElement
<1>3. Cardinality(Q \ {w}) \in {Cardinality(Q), Cardinality(Q) - 1}
  BY <1>1, FS_RemoveElement
<1>. QED  BY <1>1, <1>2, <1>3, SizesAssumption

LEMMA SeqOfHigh == \A s \in Seq(High) : s \in Seq(Writes)
  BY DEF Writes

(* TypeOK alone is not inductive: the overflow list takes only HIGH writes *)
(* because the producer spills nothing else.                               *)
ItemInv ==
  /\ producer \in {"spill", "wait"} => item \in Writes \ (accepted \cup refused)
  /\ producer = "spill" => item \in High

LEMMA TypeInit == Init => TypeOK /\ ItemInv
<1>1. Cardinality({}) = 0
  BY FS_EmptySet
<1>2. <<>> \in Seq(High) /\ <<>> \in Seq(Writes) /\ Len(<<>>) = 0
  OBVIOUS
<1>. SUFFICES ASSUME Init PROVE TypeOK /\ ItemInv
  OBVIOUS
<1>3. /\ queue \in SUBSET Writes /\ Cardinality(queue) <= QueueSize
      /\ overflow \in Seq(High) /\ Len(overflow) <= OverflowSize /\ hand \in Seq(Writes)
  BY <1>1, <1>2, SizesAssumption DEF Init
<1>4. {stored, failed, refused, displaced, accepted} \subseteq SUBSET Writes
  BY DEF Init
<1>. QED  BY <1>3, <1>4 DEF Init, TypeOK, ItemInv

LEMMA TypeNext == TypeOK /\ ItemInv /\ [Next]_vars => TypeOK' /\ ItemInv'
<1>. SUFFICES ASSUME TypeOK, ItemInv, [Next]_vars PROVE TypeOK' /\ ItemInv'
  OBVIOUS
<1>. USE DEF TypeOK, ItemInv
<1>1. CASE StartWorker
  BY <1>1 DEF StartWorker, outcome
<1>2. ASSUME NEW w \in Writes, EnqueueNotRunning(w) PROVE TypeOK' /\ ItemInv'
  BY <1>2 DEF EnqueueNotRunning, New
<1>3. ASSUME NEW w \in Writes, EnqueuePut(w) PROVE TypeOK' /\ ItemInv'
  <2>0. Cardinality(queue) \in Nat /\ QueueSize \in Nat
    BY QueueBounds, SizesAssumption
  <2>1. /\ queue' = queue \cup {w} /\ Cardinality(queue) < QueueSize
        /\ producer \in {"idle", "stopped"} /\ producer' = producer
    BY <1>3, <2>0 DEF EnqueuePut, New, Full
  <2>2. queue' \in SUBSET Writes /\ Cardinality(queue') <= QueueSize
    BY <2>1, QueueBounds
  <2>. QED  BY <1>3, <2>1, <2>2 DEF EnqueuePut
<1>4. ASSUME NEW w \in Writes, EnqueueFull(w) PROVE TypeOK' /\ ItemInv'
  <2>1. CASE w \in Low
    BY <1>4, <2>1 DEF EnqueueFull, New
  <2>2. CASE w \notin Low
    <3>1. producer' = (IF w \in High THEN "spill" ELSE "wait") /\ item' = w
      BY <1>4, <2>2 DEF EnqueueFull
    <3>2. w \notin accepted \cup refused /\ UNCHANGED <<refused, accepted>>
      BY <1>4, <2>2 DEF EnqueueFull, New
    <3>. QED  BY <1>4, <3>1, <3>2 DEF EnqueueFull
  <2>. QED  BY <2>1, <2>2
<1>5. CASE Spill
  <2>1. /\ item \in High /\ item \in Writes /\ producer' = "idle" /\ item' = None
        /\ overflow \in Seq(High) /\ Len(overflow) \in Nat /\ OverflowSize \in Nat \ {0}
    BY <1>5, SizesAssumption DEF Spill
  <2>2. CASE Len(overflow) >= OverflowSize
    <3>1. overflow # <<>>
      BY <2>1, <2>2
    <3>2. overflow' = Append(Tail(overflow), item) /\ displaced' = displaced \cup {Head(overflow)}
      BY <1>5, <2>2 DEF Spill
    <3>3. /\ Tail(overflow) \in Seq(High) /\ Head(overflow) \in High
          /\ Len(Tail(overflow)) = Len(overflow) - 1
      BY <2>1, <3>1, TailElements
    <3>4. overflow' \in Seq(High) /\ Len(overflow') <= OverflowSize
      BY <2>1, <2>2, <3>1, <3>2, DisplaceElements
    <3>. QED  BY <1>5, <2>1, <3>2, <3>3, <3>4 DEF Spill, Writes
  <2>3. CASE ~(Len(overflow) >= OverflowSize)
    <3>1. overflow' = Append(overflow, item) /\ displaced' = displaced
      BY <1>5, <2>3 DEF Spill
    <3>2. overflow' \in Seq(High) /\ Len(overflow') <= OverflowSize
      BY <2>1, <2>3, <3>1, AppendElements
    <3>. QED  BY <1>5, <2>1, <3>1, <3>2 DEF Spill
  <2>. QED  BY <2>2, <2>3
<1>6. CASE WaitedPut
  <2>0. item \in Writes /\ Cardinality(queue) \in Nat /\ QueueSize \in Nat
    BY <1>6, QueueBounds, SizesAssumption DEF WaitedPut
  <2>1. /\ queue' = queue \cup {item} /\ Cardinality(queue) < QueueSize
        /\ item \in Writes /\ producer' = "idle" /\ item' = None
    BY <1>6, <2>0 DEF WaitedPut, Full
  <2>2. queue' \in SUBSET Writes /\ Cardinality(queue') <= QueueSize
    BY <2>1, QueueBounds
  <2>. QED  BY <1>6, <2>1, <2>2 DEF WaitedPut
<1>7. CASE WaitedInVain
  BY <1>7 DEF WaitedInVain
<1>8. CASE Stop \/ StopReturns
  BY <1>8 DEF Stop, StopReturns, outcome
<1>9. ASSUME NEW ok \in BOOLEAN, Execute(ok) PROVE TypeOK' /\ ItemInv'
  <2>1. Head(hand) \in Writes /\ hand' \in Seq(Writes)
    BY <1>9, TailElements DEF Execute
  <2>2. stored' \in SUBSET Writes /\ failed' \in SUBSET Writes
    BY <1>9, <2>1 DEF Execute
  <2>. QED  BY <1>9, <2>1, <2>2 DEF Execute
<1>10. CASE Drain \/ FlushOverflow
  <2>1. hand' = overflow /\ overflow' = <<>>
    BY <1>10 DEF Drain, FlushOverflow
  <2>2. hand' \in Seq(Writes) /\ overflow' \in Seq(High) /\ Len(overflow') <= OverflowSize
    BY <2>1, SeqOfHigh, SizesAssumption
  <2>. QED  BY <1>10, <2>2 DEF Drain, FlushOverflow, outcome
<1>11. CASE DrainShutdown \/ GetNothing \/ FlushEnds
  BY <1>11 DEF DrainShutdown, GetNothing, FlushEnds, outcome
<1>12. ASSUME NEW w \in Writes, GetWrite(w) \/ FlushWrite(w) PROVE TypeOK' /\ ItemInv'
  <2>1. queue' = queue \ {w} /\ hand' = <<w>>
    BY <1>12 DEF GetWrite, FlushWrite
  <2>2. queue' \in SUBSET Writes /\ Cardinality(queue') <= QueueSize
    BY <2>1, QueueBounds
  <2>3. hand' \in Seq(Writes)
    BY <2>1
  <2>. QED  BY <1>12, <2>2, <2>3 DEF GetWrite, FlushWrite, outcome
<1>13. CASE ProcessEnds \/ UNCHANGED vars
  BY <1>13 DEF ProcessEnds, vars, outcome
<1>. QED
  BY <1>1, <1>2, <1>3, <1>4, <1>5, <1>6, <1>7, <1>8, <1>9, <1>10, <1>11, <1>12, <1>13
     DEF Next, Producer, Worker

(* The types, at every size: what waits is a set of writes and two lists,  *)
(* of which the queue and the overflow list keep within their bounds.      *)
THEOREM TypeCorrect == Spec => []TypeOK
  BY TypeInit, TypeNext, PTL DEF Spec

-------------------------------------------------------------------------------
(* Places.                                                                 *)

(* OnePlace counts; why the counts agree is that no list holds a write     *)
(* twice and no two places hold the same one.                              *)
PlacesInv ==
  /\ IsInjective(overflow) /\ IsInjective(hand)
  /\ accepted = InMemory \cup stored \cup failed \cup displaced
  /\ refused \cap accepted = {}
  /\ queue \cap Elements(overflow) = {} /\ queue \cap Elements(hand) = {}
  /\ Elements(overflow) \cap Elements(hand) = {}
  /\ InMemory \cap stored = {} /\ InMemory \cap failed = {} /\ InMemory \cap displaced = {}
  /\ stored \cap failed = {} /\ stored \cap displaced = {} /\ failed \cap displaced = {}

LEMMA ShortLists ==
  /\ Elements(<<>>) = {} /\ IsInjective(<<>>)
  /\ \A w : Elements(<<w>>) = {w} /\ IsInjective(<<w>>)
<1>1. Elements(<<>>) = {} /\ IsInjective(<<>>)
  BY DEF Elements, IsInjective
<1>2. ASSUME NEW w PROVE Elements(<<w>>) = {w} /\ IsInjective(<<w>>)
  <2>1. DOMAIN <<w>> = {1} /\ <<w>>[1] = w
    OBVIOUS
  <2>. QED  BY <2>1 DEF Elements, IsInjective
<1>. QED  BY <1>1, <1>2

LEMMA PlacesInit == Init => PlacesInv
  BY ShortLists DEF Init, PlacesInv, InMemory

LEMMA PlacesNext ==
  TypeOK /\ ItemInv /\ PlacesInv /\ [Next]_vars => PlacesInv'
<1>. SUFFICES ASSUME TypeOK, ItemInv, PlacesInv, [Next]_vars PROVE PlacesInv'
  OBVIOUS
<1>. USE DEF PlacesInv, InMemory
<1>1. CASE StartWorker \/ Stop \/ StopReturns
  BY <1>1 DEF StartWorker, Stop, StopReturns, outcome
<1>2. ASSUME NEW w \in Writes, EnqueueNotRunning(w) \/ EnqueuePut(w) \/ EnqueueFull(w)
      PROVE  PlacesInv'
  <2>1. w \notin accepted \cup refused
    BY <1>2 DEF EnqueueNotRunning, EnqueuePut, EnqueueFull, New
  <2>2. CASE EnqueueNotRunning(w)
    BY <2>1, <2>2 DEF EnqueueNotRunning
  <2>3. CASE EnqueuePut(w)
    BY <2>1, <2>3 DEF EnqueuePut
  <2>4. CASE EnqueueFull(w)
    <3>1. refused' \in {refused, refused \cup {w}}
      BY <2>4 DEF EnqueueFull
    <3>. QED  BY <2>1, <2>4, <3>1 DEF EnqueueFull
  <2>. QED  BY <1>2, <2>2, <2>3, <2>4
<1>3. CASE Spill
  <2>1. item \in High /\ item \notin accepted \cup refused /\ overflow \in Seq(High)
    BY <1>3 DEF Spill, TypeOK, ItemInv
  <2>2. item \notin Elements(overflow)
    BY <2>1
  <2>3. CASE Len(overflow) >= OverflowSize
    <3>1. overflow # <<>>
      BY <2>3, SizesAssumption
    <3>2. overflow' = Append(Tail(overflow), item) /\ displaced' = displaced \cup {Head(overflow)}
      BY <1>3, <2>3 DEF Spill
    <3>3. /\ Tail(overflow) \in Seq(High) /\ IsInjective(Tail(overflow))
          /\ Elements(overflow) = Elements(Tail(overflow)) \cup {Head(overflow)}
          /\ Head(overflow) \notin Elements(Tail(overflow))
      BY <2>1, <3>1, TailElements
    <3>4. /\ IsInjective(overflow')
          /\ Elements(overflow') = Elements(Tail(overflow)) \cup {item}
      BY <2>1, <2>2, <3>1, <3>2, DisplaceElements
    <3>. QED  BY <1>3, <2>1, <2>2, <3>2, <3>3, <3>4 DEF Spill
  <2>4. CASE ~(Len(overflow) >= OverflowSize)
    <3>1. overflow' = Append(overflow, item) /\ displaced' = displaced
      BY <1>3, <2>4 DEF Spill
    <3>2. IsInjective(overflow') /\ Elements(overflow') = Elements(overflow) \cup {item}
      BY <2>1, <2>2, <3>1, AppendElements
    <3>. QED  BY <1>3, <2>1, <2>2, <3>1, <3>2 DEF Spill
  <2>. QED  BY <2>3, <2>4
<1>4. CASE WaitedPut \/ WaitedInVain
  BY <1>4 DEF WaitedPut, WaitedInVain, ItemInv
<1>5. ASSUME NEW ok \in BOOLEAN, Execute(ok) PROVE PlacesInv'
  <2>1. /\ hand' = Tail(hand) /\ IsInjective(Tail(hand))
        /\ Elements(hand) = Elements(Tail(hand)) \cup {Head(hand)}
        /\ Head(hand) \notin Elements(Tail(hand))
    BY <1>5, TailElements DEF Execute, TypeOK
  <2>2. CASE ok
    BY <1>5, <2>1, <2>2 DEF Execute
  <2>3. CASE ~ok
    BY <1>5, <2>1, <2>3 DEF Execute
  <2>. QED  BY <2>2, <2>3
<1>6. CASE Drain \/ FlushOverflow
  BY <1>6, ShortLists DEF Drain, FlushOverflow, At, outcome
<1>7. CASE DrainShutdown \/ GetNothing \/ FlushEnds
  BY <1>7 DEF DrainShutdown, GetNothing, FlushEnds, outcome
<1>8. ASSUME NEW w \in Writes, GetWrite(w) \/ FlushWrite(w) PROVE PlacesInv'
  <2>1. w \in queue /\ queue' = queue \ {w} /\ hand = <<>> /\ hand' = <<w>>
    BY <1>8 DEF GetWrite, FlushWrite, At, Urgent
  <2>2. Elements(hand) = {} /\ Elements(hand') = {w} /\ IsInjective(hand')
    BY <2>1, ShortLists
  <2>3. UNCHANGED <<overflow, outcome, refused>>
    BY <1>8 DEF GetWrite, FlushWrite, outcome
  <2>. QED  BY <2>1, <2>2, <2>3 DEF outcome
<1>9. CASE ProcessEnds \/ UNCHANGED vars
  BY <1>9 DEF ProcessEnds, vars, outcome
<1>. QED
  BY <1>1, <1>2, <1>3, <1>4, <1>5, <1>6, <1>7, <1>8, <1>9 DEF Next, Producer, Worker

LEMMA DisjointUnion ==
  ASSUME NEW S, NEW T, IsFiniteSet(S), IsFiniteSet(T), S \cap T = {}
  PROVE  IsFiniteSet(S \cup T) /\ Cardinality(S \cup T) = Cardinality(S) + Cardinality(T)
<1>1. Cardinality(S) \in Nat /\ Cardinality(T) \in Nat /\ Cardinality({}) = 0
  BY FS_CardinalityType, FS_EmptySet
<1>2. Cardinality(S \cap T) = 0
  BY <1>1
<1>3. /\ IsFiniteSet(S \cup T)
      /\ Cardinality(S \cup T) = Cardinality(S) + Cardinality(T) - Cardinality(S \cap T)
  BY FS_Union
<1>. QED  BY <1>1, <1>2, <1>3

LEMMA Counts == TypeOK /\ PlacesInv => OnePlace
<1>. SUFFICES ASSUME TypeOK, PlacesInv PROVE OnePlace
  OBVIOUS
<1>. DEFINE O == Elements(overflow)
            H == Elements(hand)
<1>1. /\ O \in SUBSET Writes /\ Cardinality(O) = Len(overflow)
      /\ H \in SUBSET Writes /\ Cardinality(H) = Len(hand)
  BY ElementsCount DEF TypeOK, PlacesInv, Writes
<1>2. /\ IsFiniteSet(queue) /\ IsFiniteSet(O) /\ IsFiniteSet(H)
      /\ IsFiniteSet(stored) /\ IsFiniteSet(failed) /\ IsFiniteSet(displaced)
  BY <1>1, WritesFinite, FS_Subset DEF TypeOK
<1>. HIDE DEF O, H
<1>3. /\ queue \cap O = {} /\ (queue \cup O) \cap H = {}
      /\ (queue \cup O \cup H) \cap stored = {}
      /\ (queue \cup O \cup H \cup stored) \cap failed = {}
      /\ (queue \cup O \cup H \cup stored \cup failed) \cap displaced = {}
      /\ accepted = queue \cup O \cup H \cup stored \cup failed \cup displaced
  BY DEF PlacesInv, InMemory, O, H
<1>4. /\ IsFiniteSet(queue \cup O)
      /\ Cardinality(queue \cup O) = Cardinality(queue) + Cardinality(O)
  BY <1>2, <1>3, DisjointUnion
<1>5. /\ IsFiniteSet(queue \cup O \cup H)
      /\ Cardinality(queue \cup O \cup H) = Cardinality(queue \cup O) + Cardinality(H)
  BY <1>2, <1>3, <1>4, DisjointUnion
<1>6. /\ IsFiniteSet(queue \cup O \cup H \cup stored)
      /\ Cardinality(queue \cup O \cup H \cup stored)
           = Cardinality(queue \cup O \cup H) + Cardinality(stored)
  BY <1>2, <1>3, <1>5, DisjointUnion
<1>7. /\ IsFiniteSet(queue \cup O \cup H \cup stored \cup failed)
      /\ Cardinality(queue \cup O \cup H \cup stored \cup failed)
           = Cardinality(queue \cup O \cup H \cup stored) + Cardinality(failed)
  BY <1>2, <1>3, <1>6, DisjointUnion
<1>8. Cardinality(accepted)
        = Cardinality(queue \cup O \cup H \cup stored \cup failed) + Cardinality(displaced)
  BY <1>2, <1>3, <1>7, DisjointUnion
<1>9. Cardinality(accepted) =
        Cardinality(queue) + Len(overflow) + Len(hand) + Cardinality(stored)
          + Cardinality(failed) + Cardinality(displaced)
  BY <1>1, <1>4, <1>5, <1>6, <1>7, <1>8
<1>. QED  BY <1>9 DEF OnePlace, PlacesInv

(* No accepted write is lost between the two threads and none is executed  *)
(* twice, for every number of writes and every size of queue and list.     *)
THEOREM EachInOnePlace == Spec => []OnePlace
  BY TypeInit, TypeNext, PlacesInit, PlacesNext, Counts, PTL DEF Spec

-------------------------------------------------------------------------------
(* The refinement, as far as it is safety.                                 *)

(* While the process runs, the sink's fresh, pending and gone.             *)
Fresh == Writes \ (accepted \cup refused)
Gone == Writes \ (stored \cup InMemory \cup Fresh)

LEMMA SinkInit == Init => Sink!Init
  BY ShortLists DEF Init, Sink!Init, InMemory

(* An instance has its own copy of the operators it extends.              *)
LEMMA SameCardinality == \A S : Sink!Cardinality(S) = Cardinality(S)
  BY DEF Sink!Cardinality, Cardinality

LEMMA SinkAlive ==
  ASSUME up, up' = up
  PROVE  /\ (\E w \in Writes : /\ w \in Fresh /\ Fresh' = Fresh \ {w}
                               /\ InMemory' = InMemory \cup {w}
                               /\ stored' = stored /\ Gone' = Gone) => Sink!Next
         /\ (\E w \in Writes : /\ w \in Fresh /\ Fresh' = Fresh \ {w}
                               /\ InMemory' = InMemory
                               /\ stored' = stored /\ Gone' = Gone \cup {w}) => Sink!Next
         /\ (\E w \in Writes : /\ w \in InMemory /\ Fresh' = Fresh
                               /\ InMemory' = InMemory \ {w}
                               /\ stored' = stored \cup {w} /\ Gone' = Gone) => Sink!Next
         /\ (\E w \in Writes : /\ w \in InMemory /\ Fresh' = Fresh
                               /\ InMemory' = InMemory \ {w}
                               /\ stored' = stored /\ Gone' = Gone \cup {w}) => Sink!Next
         /\ (\E w, old \in Writes :
               /\ w \in Fresh /\ old \in InMemory
               /\ Cardinality(InMemory) >= OverflowSize
               /\ Fresh' = Fresh \ {w} /\ InMemory' = (InMemory \ {old}) \cup {w}
               /\ stored' = stored /\ Gone' = Gone \cup {old}) => Sink!Next
         /\ (Fresh' = Fresh /\ InMemory' = InMemory /\ stored' = stored)
              => UNCHANGED Sink!sinkVars
<1>1. ASSUME NEW w \in Writes, w \in Fresh, Fresh' = Fresh \ {w},
             InMemory' = InMemory \cup {w}, stored' = stored, Gone' = Gone
      PROVE  Sink!Next
  <2>1. Sink!Accept(w)
    BY <1>1 DEF Sink!Accept, Fresh, Gone
  <2>. QED  BY <2>1 DEF Sink!Next
<1>2. ASSUME NEW w \in Writes, w \in Fresh, Fresh' = Fresh \ {w},
             InMemory' = InMemory, stored' = stored, Gone' = Gone \cup {w}
      PROVE  Sink!Next
  <2>1. Sink!Refuse(w)
    BY <1>2 DEF Sink!Refuse, Fresh, Gone
  <2>. QED  BY <2>1 DEF Sink!Next
<1>3. ASSUME NEW w \in Writes, w \in InMemory, Fresh' = Fresh,
             InMemory' = InMemory \ {w}, stored' = stored \cup {w}, Gone' = Gone
      PROVE  Sink!Next
  <2>1. Sink!Store(w)
    BY <1>3 DEF Sink!Store, Fresh, Gone
  <2>. QED  BY <2>1 DEF Sink!Next
<1>4. ASSUME NEW w \in Writes, w \in InMemory, Fresh' = Fresh,
             InMemory' = InMemory \ {w}, stored' = stored, Gone' = Gone \cup {w}
      PROVE  Sink!Next
  <2>1. Sink!Fail(w)
    BY <1>4 DEF Sink!Fail, Fresh, Gone
  <2>. QED  BY <2>1 DEF Sink!Next
<1>5. ASSUME NEW w \in Writes, NEW old \in Writes, w \in Fresh, old \in InMemory,
             Cardinality(InMemory) >= OverflowSize, Fresh' = Fresh \ {w},
             InMemory' = (InMemory \ {old}) \cup {w}, stored' = stored,
             Gone' = Gone \cup {old}
      PROVE  Sink!Next
  <2>1. Sink!AcceptFor(w, old)
    BY <1>5, SameCardinality DEF Sink!AcceptFor, Fresh, Gone
  <2>. QED  BY <2>1 DEF Sink!Next
<1>6. ASSUME Fresh' = Fresh, InMemory' = InMemory, stored' = stored
      PROVE  UNCHANGED Sink!sinkVars
  BY <1>6 DEF Sink!sinkVars, Fresh, Gone
<1>. QED  BY <1>1, <1>2, <1>3, <1>4, <1>5, <1>6

(* A full overflow list means that as many writes wait.                    *)
LEMMA InMemoryCount ==
  ASSUME TypeOK, PlacesInv
  PROVE  Cardinality(InMemory) \in Nat /\ Cardinality(InMemory) >= Len(overflow)
<1>1. Elements(overflow) \in SUBSET Writes /\ Cardinality(Elements(overflow)) = Len(overflow)
  BY ElementsCount DEF TypeOK, PlacesInv, Writes
<1>2. accepted \in SUBSET Writes /\ InMemory \in SUBSET accepted
  BY DEF TypeOK, PlacesInv
<1>3. IsFiniteSet(InMemory) /\ Cardinality(InMemory) \in Nat
  BY <1>2, WritesFinite, FS_Subset, FS_CardinalityType
<1>. QED  BY <1>1, <1>3, FS_Subset DEF InMemory

LEMMA SinkStep ==
  TypeOK /\ ItemInv /\ PlacesInv /\ [Next]_vars => [Sink!Next]_(Sink!sinkVars)
<1>. SUFFICES ASSUME TypeOK, ItemInv, PlacesInv, [Next]_vars
              PROVE  Sink!Next \/ UNCHANGED Sink!sinkVars
  OBVIOUS
<1>0. /\ stored \in SUBSET Writes /\ failed \in SUBSET Writes /\ displaced \in SUBSET Writes
      /\ refused \in SUBSET Writes /\ accepted \in SUBSET Writes
      /\ accepted = InMemory \cup stored \cup failed \cup displaced
      /\ refused \cap accepted = {}
      /\ (stored \cup failed \cup displaced) \cap InMemory = {}
      /\ stored \cap failed = {} /\ stored \cap displaced = {}
  BY DEF TypeOK, PlacesInv
<1>1. ASSUME up, up' = up, InMemory' = InMemory,
             UNCHANGED <<stored, accepted, refused>>
      PROVE  UNCHANGED Sink!sinkVars
  BY <1>1, SinkAlive DEF Fresh
<1>2. CASE StartWorker \/ Stop \/ StopReturns
  <2>1. up /\ up' = up /\ InMemory' = InMemory /\ UNCHANGED <<stored, accepted, refused>>
    BY <1>2 DEF StartWorker, Stop, StopReturns, outcome, InMemory
  <2>. QED  BY <1>1, <2>1
<1>3. ASSUME NEW w \in Writes, EnqueueNotRunning(w) \/ EnqueuePut(w) \/ EnqueueFull(w)
      PROVE  Sink!Next \/ UNCHANGED Sink!sinkVars
  <2>1. up /\ up' = up /\ w \in Fresh
    BY <1>3 DEF EnqueueNotRunning, EnqueuePut, EnqueueFull, New, Fresh
  <2>2. CASE EnqueuePut(w)
    <3>1. /\ Fresh' = Fresh \ {w} /\ InMemory' = InMemory \cup {w}
          /\ stored' = stored /\ Gone' = Gone
      BY <1>0, <2>1, <2>2 DEF EnqueuePut, InMemory, Fresh, Gone
    <3>. QED  BY <2>1, <3>1, SinkAlive
  <2>3. CASE EnqueueNotRunning(w) \/ (EnqueueFull(w) /\ w \in Low)
    <3>1. /\ refused' = refused \cup {w} /\ InMemory' = InMemory
          /\ UNCHANGED <<stored, accepted>>
      BY <2>3 DEF EnqueueNotRunning, EnqueueFull, InMemory
    <3>2. Fresh' = Fresh \ {w} /\ Gone' = Gone \cup {w}
      BY <1>0, <2>1, <3>1 DEF Fresh, Gone
    <3>. QED  BY <2>1, <3>1, <3>2, SinkAlive
  <2>4. CASE EnqueueFull(w) /\ w \notin Low
    <3>1. InMemory' = InMemory /\ UNCHANGED <<stored, accepted, refused>>
      BY <2>4 DEF EnqueueFull, InMemory
    <3>. QED  BY <1>1, <2>1, <3>1
  <2>. QED  BY <1>3, <2>2, <2>3, <2>4
<1>4. CASE Spill
  <2>1. up /\ up' = up /\ item \in Fresh /\ item \in High /\ item \in Writes
    BY <1>4 DEF Spill, ItemInv, Fresh
  <2>2. overflow \in Seq(High) /\ IsInjective(overflow) /\ Len(overflow) \in Nat
    BY DEF TypeOK, PlacesInv
  <2>3. UNCHANGED <<queue, hand, stored, failed, refused>> /\ accepted' = accepted \cup {item}
    BY <1>4 DEF Spill
  <2>4. Fresh' = Fresh \ {item}
    BY <1>0, <2>1, <2>3 DEF Fresh
  <2>5. CASE Len(overflow) >= OverflowSize
    <3>. DEFINE old == Head(overflow)
    <3>1. overflow # <<>>
      BY <2>2, <2>5, SizesAssumption
    <3>2. overflow' = Append(Tail(overflow), item)
      BY <1>4, <2>5 DEF Spill
    <3>3. /\ Tail(overflow) \in Seq(High)
          /\ Elements(overflow) = Elements(Tail(overflow)) \cup {old}
          /\ old \notin Elements(Tail(overflow)) /\ old \in Writes
      BY <2>2, <3>1, TailElements DEF Writes
    <3>4. Elements(overflow') = Elements(Tail(overflow)) \cup {item}
      BY <2>1, <2>2, <3>1, <3>2, DisplaceElements
    <3>5. old \in InMemory /\ old \notin queue /\ old \notin Elements(hand)
      BY <3>3 DEF InMemory, PlacesInv
    <3>6. Cardinality(InMemory) >= OverflowSize
      BY <2>2, <2>5, InMemoryCount, SizesAssumption
    <3>. HIDE DEF old
    <3>7. InMemory' = (InMemory \ {old}) \cup {item}
      BY <2>3, <3>3, <3>4, <3>5 DEF InMemory
    <3>8. Gone' = Gone \cup {old}
      BY <1>0, <2>1, <2>3, <2>4, <3>3, <3>5, <3>7 DEF Gone, Fresh
    <3>. QED  BY <2>1, <2>3, <2>4, <3>3, <3>5, <3>6, <3>7, <3>8, SinkAlive
  <2>6. CASE ~(Len(overflow) >= OverflowSize)
    <3>1. overflow' = Append(overflow, item)
      BY <1>4, <2>6 DEF Spill
    <3>2. Elements(overflow') = Elements(overflow) \cup {item}
      BY <2>1, <2>2, <3>1, AppendElements
    <3>3. InMemory' = InMemory \cup {item}
      BY <2>3, <3>2 DEF InMemory
    <3>4. Gone' = Gone
      BY <1>0, <2>1, <2>3, <2>4, <3>3 DEF Gone, Fresh
    <3>. QED  BY <2>1, <2>3, <2>4, <3>3, <3>4, SinkAlive
  <2>. QED  BY <2>5, <2>6
<1>5. CASE WaitedPut \/ WaitedInVain
  <2>1. up /\ up' = up /\ item \in Fresh /\ item \in Writes
    BY <1>5 DEF WaitedPut, WaitedInVain, ItemInv, Fresh
  <2>2. CASE WaitedPut
    <3>1. /\ Fresh' = Fresh \ {item} /\ InMemory' = InMemory \cup {item}
          /\ stored' = stored /\ Gone' = Gone
      BY <1>0, <2>1, <2>2 DEF WaitedPut, InMemory, Fresh, Gone
    <3>. QED  BY <2>1, <3>1, SinkAlive
  <2>3. CASE WaitedInVain
    <3>1. /\ refused' = refused \cup {item} /\ InMemory' = InMemory
          /\ UNCHANGED <<stored, accepted>>
      BY <2>3 DEF WaitedInVain, InMemory
    <3>2. Fresh' = Fresh \ {item} /\ Gone' = Gone \cup {item}
      BY <1>0, <2>1, <3>1 DEF Fresh, Gone
    <3>. QED  BY <2>1, <3>1, <3>2, SinkAlive
  <2>. QED  BY <1>5, <2>2, <2>3
<1>6. ASSUME NEW ok \in BOOLEAN, Execute(ok)
      PROVE  Sink!Next \/ UNCHANGED Sink!sinkVars
  <2>. DEFINE w == Head(hand)
  <2>1. /\ up /\ up' = up /\ hand # <<>> /\ hand' = Tail(hand)
        /\ UNCHANGED <<queue, overflow, refused, accepted>>
    BY <1>6 DEF Execute
  <2>2. /\ w \in Writes /\ w \notin Elements(hand')
        /\ Elements(hand) = Elements(hand') \cup {w}
    BY <2>1, TailElements DEF TypeOK, PlacesInv
  <2>3. IF ok THEN stored' = stored \cup {w} ELSE stored' = stored
    BY <1>6 DEF Execute
  <2>. HIDE DEF w
  <2>4. w \in InMemory /\ InMemory' = InMemory \ {w}
    BY <2>1, <2>2 DEF InMemory, PlacesInv
  <2>5. Fresh' = Fresh /\ w \notin Fresh /\ w \notin stored
    BY <1>0, <2>1, <2>4 DEF Fresh
  <2>6. CASE ok
    <3>1. Gone' = Gone
      BY <2>3, <2>4, <2>5, <2>6 DEF Gone
    <3>. QED  BY <2>1, <2>2, <2>3, <2>4, <2>5, <2>6, <3>1, SinkAlive
  <2>7. CASE ~ok
    <3>1. Gone' = Gone \cup {w}
      BY <2>2, <2>3, <2>4, <2>5, <2>7 DEF Gone
    <3>. QED  BY <2>1, <2>2, <2>3, <2>4, <2>5, <2>7, <3>1, SinkAlive
  <2>. QED  BY <2>6, <2>7
<1>7. CASE Drain \/ FlushOverflow
  <2>1. /\ up /\ up' = up /\ hand = <<>> /\ hand' = overflow /\ overflow' = <<>>
        /\ UNCHANGED <<queue, stored, accepted, refused>>
    BY <1>7 DEF Drain, FlushOverflow, At, outcome
  <2>2. InMemory' = InMemory
    BY <2>1, ShortLists DEF InMemory
  <2>. QED  BY <1>1, <2>1, <2>2
<1>8. CASE DrainShutdown \/ GetNothing \/ FlushEnds
  <2>1. /\ up /\ up' = up
        /\ UNCHANGED <<queue, overflow, hand, stored, accepted, refused>>
    BY <1>8 DEF DrainShutdown, GetNothing, FlushEnds, At, outcome
  <2>. QED  BY <1>1, <2>1 DEF InMemory
<1>9. ASSUME NEW w \in Writes, GetWrite(w) \/ FlushWrite(w)
      PROVE  Sink!Next \/ UNCHANGED Sink!sinkVars
  <2>1. /\ up /\ up' = up /\ w \in queue /\ queue' = queue \ {w}
        /\ hand = <<>> /\ hand' = <<w>>
        /\ UNCHANGED <<overflow, stored, accepted, refused>>
    BY <1>9 DEF GetWrite, FlushWrite, At, Urgent, outcome
  <2>2. Elements(hand) = {} /\ Elements(hand') = {w}
    BY <2>1, ShortLists
  <2>3. InMemory' = InMemory
    BY <2>1, <2>2 DEF InMemory
  <2>. QED  BY <1>1, <2>1, <2>3
<1>10. CASE ProcessEnds
  <2>1. /\ up /\ up' = FALSE
        /\ UNCHANGED <<queue, overflow, hand, stored, accepted, refused>>
    BY <1>10 DEF ProcessEnds, outcome
  <2>2. InMemory \subseteq Writes /\ Fresh \subseteq Writes
        /\ stored \cap (InMemory \cup Fresh) = {}
    BY <1>0 DEF Fresh
  <2>3. Sink!Die
    BY <2>1, <2>2 DEF Sink!Die, Fresh
  <2>. QED  BY <2>3 DEF Sink!Next
<1>11. CASE UNCHANGED vars
  BY <1>11 DEF vars, outcome, Sink!sinkVars, InMemory
<1>. QED
  BY <1>2, <1>3, <1>4, <1>5, <1>6, <1>7, <1>8, <1>9, <1>10, <1>11
     DEF Next, Producer, Worker

(* Every step of the queue is a step the sink promises, or none that it    *)
(* sees, for every number of writes and every size of queue and list.      *)
THEOREM ImplementsSink == Spec => Sink!Init /\ [][Sink!Next]_(Sink!sinkVars)
  BY TypeInit, TypeNext, PlacesInit, PlacesNext, SinkInit, SinkStep, PTL DEF Spec
===============================================================================
