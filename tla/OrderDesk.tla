------------------------------ MODULE OrderDesk ------------------------------
(***************************************************************************)
(* What place_bracket promises to a service that hands it one signal at a  *)
(* time.  The call spends up to four awaits between its tests and its      *)
(* request, and one more between the request and its bookkeeping; the      *)
(* promise is that nobody notices.  An order is requested only for a       *)
(* signal that is not remembered, on a day with room for one more order,   *)
(* within the loss limit and outside the cooldown of the signal's type -   *)
(* all four at the very moment of the request, not when they were tested - *)
(* and while its answer is awaited neither the day nor its result changes. *)
(* The armed flag is no part of the promise: see StraysBounded.            *)
(***************************************************************************)
EXTENDS Naturals

CONSTANTS SignalIds, Types, MaxOrdersPerDay

VARIABLES
  remembered,   \* signals whose order was requested, until the desk forgets
  today,        \* orders placed since the day began
  lossHit,      \* the day's loss has reached its limit
  cooling,      \* types for which an order was placed a short while ago
  requests      \* the request the broker has not answered yet, if any

deskVars == <<remembered, today, lossHit, cooling, requests>>

Init ==
  /\ remembered = {}
  /\ today = 0
  /\ lossHit = FALSE
  /\ cooling = {}
  /\ requests = {}

Request(s, t) ==
  /\ requests = {}
  /\ s \notin remembered
  /\ today < MaxOrdersPerDay
  /\ ~lossHit
  /\ t \notin cooling
  /\ requests' = {[sid |-> s, type |-> t]}
  /\ remembered' = remembered \cup {s}
  /\ UNCHANGED <<today, lossHit, cooling>>

Placed(r) ==
  /\ requests' = requests \ {r}
  /\ today' = today + 1
  /\ cooling' = cooling \cup {r.type}
  /\ UNCHANGED <<remembered, lossHit>>

(* Refused by the broker, or given up; the signal stays remembered.        *)
NotPlaced(r) ==
  /\ requests' = requests \ {r}
  /\ UNCHANGED <<remembered, today, lossHit, cooling>>

Forget(s) ==
  /\ s \in remembered
  /\ \A r \in requests : r.sid # s
  /\ remembered' = remembered \ {s}
  /\ UNCHANGED <<today, lossHit, cooling, requests>>

CoolOff(t) ==
  /\ t \in cooling
  /\ cooling' = cooling \ {t}
  /\ UNCHANGED <<remembered, today, lossHit, requests>>

NewDay ==
  /\ requests = {}
  /\ today' = 0
  /\ lossHit' = FALSE
  /\ cooling' = {}
  /\ UNCHANGED <<remembered, requests>>

LossTurns ==
  /\ requests = {}
  /\ lossHit' = ~lossHit
  /\ UNCHANGED <<remembered, today, cooling, requests>>

Next ==
  \/ \E s \in SignalIds, t \in Types : Request(s, t)
  \/ \E r \in requests : Placed(r) \/ NotPlaced(r)
  \/ \E s \in SignalIds : Forget(s)
  \/ \E t \in Types : CoolOff(t)
  \/ NewDay
  \/ LossTurns

Spec == Init /\ [][Next]_deskVars
===============================================================================
