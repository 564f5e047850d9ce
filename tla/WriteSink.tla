------------------------------ MODULE WriteSink ------------------------------
(***************************************************************************)
(* What the asynchronous write queue promises its callers: enqueue answers *)
(* at once that a write is accepted or refused; an accepted write reaches  *)
(* the database once, or its execution fails once; none is lost otherwise, *)
(* unless so many wait that a new one takes the place of an old one, or    *)
(* the process ends.                                                       *)
(***************************************************************************)
EXTENDS Naturals, FiniteSets

CONSTANTS Writes,
          Capacity   \* as long as fewer wait, none is displaced

VARIABLES fresh,     \* not yet handed over
          pending,   \* accepted, waiting
          stored,    \* in the database
          gone,      \* refused, displaced, failed, or lost with the process
          up         \* the process runs

sinkVars == <<fresh, pending, stored, gone, up>>

Init ==
  /\ fresh = Writes
  /\ pending = {}
  /\ stored = {}
  /\ gone = {}
  /\ up = TRUE

Accept(w) ==
  /\ w \in fresh
  /\ fresh' = fresh \ {w}
  /\ pending' = pending \cup {w}
  /\ UNCHANGED <<stored, gone, up>>

AcceptFor(w, old) ==
  /\ w \in fresh
  /\ old \in pending
  /\ Cardinality(pending) >= Capacity
  /\ fresh' = fresh \ {w}
  /\ pending' = (pending \ {old}) \cup {w}
  /\ gone' = gone \cup {old}
  /\ UNCHANGED <<stored, up>>

Refuse(w) ==
  /\ w \in fresh
  /\ fresh' = fresh \ {w}
  /\ gone' = gone \cup {w}
  /\ UNCHANGED <<pending, stored, up>>

Store(w) ==
  /\ w \in pending
  /\ pending' = pending \ {w}
  /\ stored' = stored \cup {w}
  /\ UNCHANGED <<fresh, gone, up>>

Fail(w) ==
  /\ w \in pending
  /\ pending' = pending \ {w}
  /\ gone' = gone \cup {w}
  /\ UNCHANGED <<fresh, stored, up>>

(* The process ends, and with it whatever it held in memory.               *)
Die ==
  /\ up
  /\ up' = FALSE
  /\ gone' = gone \cup pending \cup fresh
  /\ pending' = {}
  /\ fresh' = {}
  /\ UNCHANGED stored

Next ==
  \/ \E w \in Writes : Accept(w) \/ Refuse(w) \/ Store(w) \/ Fail(w)
  \/ \E w, old \in Writes : AcceptFor(w, old)
  \/ Die

(* Nothing waits for ever.                                                 *)
Settles == WF_sinkVars(\E w \in Writes : Store(w) \/ Fail(w))

Spec == Init /\ [][Next]_sinkVars /\ Settles
===============================================================================
