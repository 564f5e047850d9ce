--------------------------- MODULE AsyncWriteQueue ---------------------------
(***************************************************************************)
(* AsyncSQLiteQueue: the service's event loop hands writes to a bounded    *)
(* priority queue, with an overflow list for HIGH ones, and a daemon thread*)
(* executes them.  The event loop's thread is the only producer; a step is *)
(* what one of the two threads does under one lock (the queue's mutex, the *)
(* overflow lock) or one execution of a write.                             *)
(*                                                                         *)
(* A definition marked VARIANT is the one after it with one plausible      *)
(* mistake; no action uses it.                                             *)
(***************************************************************************)
EXTENDS Integers, FiniteSets, Sequences

CONSTANTS
  High, Medium, Low,   \* the writes of each WritePriority
  QueueSize,           \* max_queue_size
  OverflowSize,        \* _max_overflow_size
  None                 \* the producer is not inside enqueue

ASSUME SizesAssumption == QueueSize \in Nat \ {0} /\ OverflowSize \in Nat \ {0}
ASSUME PrioritiesAssumption ==
  /\ IsFiniteSet(High) /\ IsFiniteSet(Medium) /\ IsFiniteSet(Low)
  /\ High \cap Medium = {} /\ High \cap Low = {} /\ Medium \cap Low = {}
  /\ None \notin High \cup Medium \cup Low

Writes == High \cup Medium \cup Low

Elements(s) == {s[i] : i \in DOMAIN s}

VARIABLES
  running,    \* _running
  shutdown,   \* _shutdown_event
  queue,      \* _queue: a heap, which keeps no order within a priority
  overflow,   \* _overflow, oldest first
  hand,       \* writes the worker took out and has not executed yet
  worker,     \* where the worker is once hand is empty
  producer,   \* where the producer is: in enqueue, in stop, or neither
  item,       \* the write it is enqueueing
  up,         \* the process runs
  (* what became of the writes *)
  stored,     \* executed
  failed,     \* raised in _execute_write
  refused,    \* enqueue returned False
  displaced,  \* popped from the overflow list
  accepted    \* enqueue returned True

vars == <<running, shutdown, queue, overflow, hand, worker, producer, item, up,
          stored, failed, refused, displaced, accepted>>

outcome == <<stored, failed, refused, displaced, accepted>>

TypeOK ==
  /\ running \in BOOLEAN
  /\ shutdown \in BOOLEAN
  /\ queue \in SUBSET Writes /\ Cardinality(queue) <= QueueSize
  /\ overflow \in Seq(High) /\ Len(overflow) <= OverflowSize
  /\ hand \in Seq(Writes)
  /\ worker \in {"new", "drain", "get", "flushOverflow", "flush", "exited"}
  /\ producer \in {"idle", "spill", "wait", "join", "stopped"}
  /\ item \in Writes \cup {None}
  /\ up \in BOOLEAN
  /\ {stored, failed, refused, displaced, accepted} \subseteq SUBSET Writes

Init ==
  /\ running = FALSE
  /\ shutdown = FALSE
  /\ queue = {}
  /\ overflow = <<>>
  /\ hand = <<>>
  /\ worker = "new"
  /\ producer = "idle"
  /\ item = None
  /\ up = TRUE
  /\ stored = {}
  /\ failed = {}
  /\ refused = {}
  /\ displaced = {}
  /\ accepted = {}

-------------------------------------------------------------------------------
(* The producer.                                                           *)

New(w) ==
  /\ up
  /\ producer \in {"idle", "stopped"}
  /\ w \in Writes \ (accepted \cup refused)

StartWorker ==
  /\ up
  /\ worker = "new"
  /\ running' = TRUE
  /\ worker' = "drain"
  /\ UNCHANGED <<shutdown, queue, overflow, hand, producer, item, up, outcome>>

(* "not running, dropping write"                                           *)
EnqueueNotRunning(w) ==
  /\ New(w)
  /\ ~running
  /\ refused' = refused \cup {w}
  /\ UNCHANGED <<running, shutdown, queue, overflow, hand, worker, producer,
                 item, up, stored, failed, displaced, accepted>>

(* VARIANT: qsize() > maxsize                                              *)
FullOffByOne == Cardinality(queue) > QueueSize

Full == Cardinality(queue) >= QueueSize

EnqueuePut(w) ==
  /\ New(w)
  /\ running
  /\ ~Full
  /\ queue' = queue \cup {w}
  /\ accepted' = accepted \cup {w}
  /\ UNCHANGED <<running, shutdown, overflow, hand, worker, producer, item, up,
                 stored, failed, refused, displaced>>

(* queue.Full: a LOW write is dropped, the others take a second step.      *)
EnqueueFull(w) ==
  /\ New(w)
  /\ running
  /\ Full
  /\ IF w \in Low
       THEN refused' = refused \cup {w} /\ UNCHANGED <<producer, item>>
       ELSE /\ producer' = IF w \in High THEN "spill" ELSE "wait"
            /\ item' = w
            /\ UNCHANGED refused
  /\ UNCHANGED <<running, shutdown, queue, overflow, hand, worker, up, stored,
                 failed, displaced, accepted>>

(* VARIANT: the oldest entry popped below the limit                        *)
SpillEarly ==
  /\ up
  /\ producer = "spill"
  /\ IF Len(overflow) >= OverflowSize - 1 /\ overflow # <<>>
       THEN /\ overflow' = Append(Tail(overflow), item)
            /\ displaced' = displaced \cup {Head(overflow)}
       ELSE overflow' = Append(overflow, item) /\ UNCHANGED displaced
  /\ accepted' = accepted \cup {item}
  /\ producer' = "idle"
  /\ item' = None
  /\ UNCHANGED <<running, shutdown, queue, hand, worker, up, stored, failed,
                 refused>>

(* with self._overflow_lock: at capacity the oldest entry makes room.      *)
Spill ==
  /\ up
  /\ producer = "spill"
  /\ IF Len(overflow) >= OverflowSize
       THEN /\ overflow' = Append(Tail(overflow), item)
            /\ displaced' = displaced \cup {Head(overflow)}
       ELSE overflow' = Append(overflow, item) /\ UNCHANGED displaced
  /\ accepted' = accepted \cup {item}
  /\ producer' = "idle"
  /\ item' = None
  /\ UNCHANGED <<running, shutdown, queue, hand, worker, up, stored, failed,
                 refused>>

(* put(write, timeout=0.1): room was made in time, or not.                 *)
WaitedPut ==
  /\ up
  /\ producer = "wait"
  /\ ~Full
  /\ queue' = queue \cup {item}
  /\ accepted' = accepted \cup {item}
  /\ producer' = "idle"
  /\ item' = None
  /\ UNCHANGED <<running, shutdown, overflow, hand, worker, up, stored, failed,
                 refused, displaced>>

WaitedInVain ==
  /\ up
  /\ producer = "wait"
  /\ Full
  /\ refused' = refused \cup {item}
  /\ producer' = "idle"
  /\ item' = None
  /\ UNCHANGED <<running, shutdown, queue, overflow, hand, worker, up, stored,
                 failed, displaced, accepted>>

Stop ==
  /\ up
  /\ producer = "idle"
  /\ running
  /\ shutdown' = TRUE
  /\ producer' = "join"
  /\ UNCHANGED <<running, queue, overflow, hand, worker, item, up, outcome>>

(* join(timeout): the worker is done, or has taken longer.                 *)
StopReturns ==
  /\ up
  /\ producer = "join"
  /\ running' = FALSE
  /\ producer' = "stopped"
  /\ UNCHANGED <<shutdown, queue, overflow, hand, worker, item, up, outcome>>

-------------------------------------------------------------------------------
(* The worker.                                                             *)

Execute(ok) ==
  /\ up
  /\ hand # <<>>
  /\ hand' = Tail(hand)
  /\ IF ok THEN stored' = stored \cup {Head(hand)} /\ UNCHANGED failed
           ELSE failed' = failed \cup {Head(hand)} /\ UNCHANGED stored
  /\ UNCHANGED <<running, shutdown, queue, overflow, worker, producer, item, up,
                 refused, displaced, accepted>>

At(place) == up /\ hand = <<>> /\ worker = place

(* VARIANT: the overflow list copied and not cleared                       *)
DrainCopies ==
  /\ At("drain")
  /\ ~shutdown
  /\ hand' = overflow
  /\ worker' = "get"
  /\ UNCHANGED <<running, shutdown, queue, overflow, producer, item, up, outcome>>

(* The loop's test, then the overflow list taken in one go.                *)
Drain ==
  /\ At("drain")
  /\ ~shutdown
  /\ hand' = overflow
  /\ overflow' = <<>>
  /\ worker' = "get"
  /\ UNCHANGED <<running, shutdown, queue, producer, item, up, outcome>>

DrainShutdown ==
  /\ At("drain")
  /\ shutdown
  /\ worker' = "flushOverflow"
  /\ UNCHANGED <<running, shutdown, queue, overflow, hand, producer, item, up, outcome>>

(* The smallest elements of the heap.                                      *)
Urgent ==
  IF queue \cap High # {} THEN queue \cap High
  ELSE IF queue \cap Medium # {} THEN queue \cap Medium
  ELSE queue

GetWrite(w) ==
  /\ At("get")
  /\ w \in Urgent
  /\ queue' = queue \ {w}
  /\ hand' = <<w>>
  /\ worker' = "drain"
  /\ UNCHANGED <<running, shutdown, overflow, producer, item, up, outcome>>

(* get(timeout=0.5) raises queue.Empty                                     *)
GetNothing ==
  /\ At("get")
  /\ queue = {}
  /\ worker' = "drain"
  /\ UNCHANGED <<running, shutdown, queue, overflow, hand, producer, item, up, outcome>>

FlushOverflow ==
  /\ At("flushOverflow")
  /\ hand' = overflow
  /\ overflow' = <<>>
  /\ worker' = "flush"
  /\ UNCHANGED <<running, shutdown, queue, producer, item, up, outcome>>

(* No enqueue can add to what is flushed: its thread is inside stop(), and *)
(* when that has returned _running is False.                               *)
FlushWrite(w) ==
  /\ At("flush")
  /\ w \in Urgent
  /\ queue' = queue \ {w}
  /\ hand' = <<w>>
  /\ UNCHANGED <<running, shutdown, overflow, worker, producer, item, up, outcome>>

FlushEnds ==
  /\ At("flush")
  /\ queue = {}
  /\ worker' = "exited"
  /\ UNCHANGED <<running, shutdown, queue, overflow, hand, producer, item, up, outcome>>

(* The process ends, by itself after stop() or by a crash; the thread is a *)
(* daemon and ends with it.                                                *)
ProcessEnds ==
  /\ up
  /\ up' = FALSE
  /\ UNCHANGED <<running, shutdown, queue, overflow, hand, worker, producer,
                 item, outcome>>

-------------------------------------------------------------------------------
Producer ==
  \/ StartWorker
  \/ \E w \in Writes : EnqueueNotRunning(w) \/ EnqueuePut(w) \/ EnqueueFull(w)
  \/ Spill
  \/ WaitedPut
  \/ WaitedInVain
  \/ Stop
  \/ StopReturns

Worker ==
  \/ \E ok \in BOOLEAN : Execute(ok)
  \/ Drain
  \/ DrainShutdown
  \/ \E w \in Writes : GetWrite(w) \/ FlushWrite(w)
  \/ GetNothing
  \/ FlushOverflow
  \/ FlushEnds

Next == Producer \/ Worker \/ ProcessEnds

Spec == Init /\ [][Next]_vars

(* The thread is scheduled and each of its writes ends, with an exception  *)
(* if the database stays locked.                                           *)
FairSpec == Spec /\ WF_vars(Worker)

-------------------------------------------------------------------------------
InMemory == queue \cup Elements(overflow) \cup Elements(hand)

(* An accepted write is in one place, and one only: waiting in the queue,  *)
(* in the overflow list or in the worker's hand, executed, failed, or      *)
(* displaced.  So none is lost between the two threads, or executed twice. *)
OnePlace ==
  /\ accepted = InMemory \cup stored \cup failed \cup displaced
  /\ Cardinality(accepted) =
       Cardinality(queue) + Len(overflow) + Len(hand) + Cardinality(stored)
         + Cardinality(failed) + Cardinality(displaced)

(* When the worker has exited, the flush left nothing behind, whether or   *)
(* not stop() had the patience to wait for it.                             *)
FlushIsComplete == worker = "exited" => InMemory = {}

(* The queue keeps the promise of WriteSink: it displaces only when as many*)
(* writes wait as the overflow list holds, and settles every write.        *)
Sink == INSTANCE WriteSink WITH
  Capacity <- OverflowSize,
  fresh <- IF up THEN Writes \ (accepted \cup refused) ELSE {},
  pending <- IF up THEN InMemory ELSE {},
  gone <- Writes \ (stored \cup IF up THEN InMemory \cup (Writes \ (accepted \cup refused))
                                      ELSE {})

SinkSpec == Sink!Spec
===============================================================================
