----------------------------- MODULE BrokerSession -----------------------------
(***************************************************************************)
(* The session of TradovateExecutionAdapter and TradovateClient: the token,*)
(* the WebSocket and its listener, and the four tasks that repair them     *)
(* (token renewal, listener, reconciliation loop, reconnect loop), with    *)
(* what they are there to keep: _open_orders, the orders the adapter       *)
(* believes to be open.                                                    *)
(*                                                                         *)
(* The tasks are coroutines of one event loop.  A step is the code from    *)
(* one await to the next; a REST poll of the orders is three steps, since  *)
(* the broker takes its list between the request and the reply.  Only the  *)
(* parent order of a bracket is tracked.  A definition marked VARIANT is   *)
(* the one after it with one plausible mistake; no action uses it.         *)
(***************************************************************************)
EXTENDS Naturals, FiniteSets

CONSTANTS
  Orders,             \* ids of the brackets' parent orders
  WsAttempts,         \* _max_ws_reconnect_attempts
  ReconnectAttempts   \* max_attempts of _reconnect_loop

ASSUME AttemptsAssumption ==
  WsAttempts \in Nat \ {0} /\ ReconnectAttempts \in Nat \ {0}

(* Who may be inside _poll_order_status.                                   *)
Pollers == {"loop", "reconnect", "event"}

VARIABLES
  (* TradovateExecutionAdapter *)
  phase,      \* of the connection; _connected is phase = "up"
  tracked,    \* keys of _open_orders
  old,        \* the tracked ones placed more than ten minutes ago
  cooling,    \* time.monotonic() < _rate_limit_until
  recon,      \* the task of _reconciliation_loop exists
  reconnect,  \* _reconnect_task is running
  attempt,    \* its local, 0 when it is not running
  gaveUp,     \* _reconnect_gave_up
  poll,       \* each poller's _poll_order_status
  keep,       \* the orders its reply reports as not final
  (* TradovateClient *)
  token,      \* _access_token and _token_expiry
  renewal,    \* _token_renewal_loop
  sock,       \* what the listener reads; "mute": open, not authorized
  flag,       \* _ws_connected
  listener,   \* _ws_listener_loop
  tries,      \* its reconnect attempts in a row
  (* the broker *)
  status,     \* of each order
  placing,    \* accepted orders whose id has not reached place_bracket
  events,     \* orders whose final status is in the socket
  (* history *)
  asked       \* what was tracked when each poller sent its request

adapterVars == <<phase, tracked, old, cooling, recon, reconnect, attempt, gaveUp>>
pollVars == <<poll, keep, asked>>
clientVars == <<token, renewal, sock, flag, listener, tries>>
brokerVars == <<status, placing, events>>
vars == <<phase, tracked, old, cooling, recon, reconnect, attempt, gaveUp, poll,
          keep, asked, token, renewal, sock, flag, listener, tries, status, placing, events>>

(* The reconnect loop's own variables.                                     *)
loopVars == <<reconnect, attempt, gaveUp>>

ValuesOK ==
  /\ phase \in {"new", "refused", "up", "closing", "down"}
  /\ tracked \in SUBSET Orders
  /\ old \in SUBSET Orders
  /\ attempt \in 0..ReconnectAttempts
  /\ poll \in [Pollers -> {"idle", "asked", "answered"}]
  /\ keep \in [Pollers -> SUBSET Orders]
  /\ asked \in [Pollers -> SUBSET Orders]
  /\ token \in {"none", "valid", "expired"}
  /\ renewal \in {"off", "asleep", "calling"}
  /\ sock \in {"none", "open", "mute", "broken"}
  /\ listener \in {"off", "reading", "retrying", "ended"}
  /\ tries \in 0..WsAttempts
  /\ status \in [Orders -> {"none", "working", "final"}]
  /\ placing \in SUBSET Orders
  /\ events \in SUBSET Orders

FlagsOK ==
  /\ cooling \in BOOLEAN
  /\ recon \in BOOLEAN
  /\ reconnect \in BOOLEAN
  /\ gaveUp \in BOOLEAN
  /\ flag \in BOOLEAN

TypeOK == ValuesOK /\ FlagsOK

Init ==
  /\ phase = "new" /\ tracked = {} /\ old = {} /\ cooling = FALSE
  /\ recon = FALSE /\ reconnect = FALSE /\ attempt = 0 /\ gaveUp = FALSE
  /\ poll = [p \in Pollers |-> "idle"]
  /\ keep = [p \in Pollers |-> {}] /\ asked = [p \in Pollers |-> {}]
  /\ token = "none" /\ renewal = "off"
  /\ sock = "none" /\ flag = FALSE /\ listener = "off" /\ tries = 0
  /\ status = [o \in Orders |-> "none"] /\ placing = {} /\ events = {}

Authenticated == token = "valid"
Polling(p) == poll[p] # "idle"

(* The request of _poll_order_status.                                      *)
Ask(p) ==
  /\ poll' = [poll EXCEPT ![p] = "asked"]
  /\ asked' = [asked EXCEPT ![p] = tracked]
  /\ UNCHANGED keep

(* self._open_orders without the orders of S.                              *)
Untrack(S) == tracked' = tracked \ S /\ old' = old \ S

-----------------------------------------------------------------------------
(* VARIANT: the count of the listener's attempts starts past its limit.    *)
ConnectUntyped(ws) ==
  /\ phase = "new" /\ phase' = "up"
  /\ token' = "valid" /\ renewal' = "asleep" /\ recon' = TRUE
  /\ sock' = CASE ws = "ok" -> "open" [] ws = "mute" -> "mute" [] OTHER -> "none"
  /\ flag' \in BOOLEAN /\ (flag' <=> ws \in {"ok", "half"})
  /\ listener' = IF ws \in {"ok", "mute"} THEN "reading" ELSE "off"
  /\ tries' = WsAttempts + 1
  /\ UNCHANGED <<tracked, old, cooling, loopVars, pollVars, brokerVars>>
(* TradovateExecutionAdapter.connect, called once by the service.  During  *)
(* its awaits no other task of this module exists but the renewal's sleep. *)
(* A WebSocket that does not start is tolerated ("fail"); one that breaks  *)
(* after the authorization leaves _ws_connected set and nobody reading     *)
(* ("half"); one whose second frame is no answer is read all the same.     *)
Connect(ws) ==
  /\ phase = "new" /\ phase' = "up"
  /\ token' = "valid" /\ renewal' = "asleep" /\ recon' = TRUE
  /\ sock' = CASE ws = "ok" -> "open" [] ws = "mute" -> "mute" [] OTHER -> "none"
  /\ flag' \in BOOLEAN /\ (flag' <=> ws \in {"ok", "half"})
  /\ listener' = IF ws \in {"ok", "mute"} THEN "reading" ELSE "off"
  /\ UNCHANGED <<tracked, old, cooling, loopVars, pollVars, tries, brokerVars>>

(* An error of the client or of the WebSocket's authorization: the service *)
(* goes on without the adapter and never calls connect again.              *)
ConnectRefused ==
  /\ phase = "new" /\ phase' = "refused"
  /\ UNCHANGED <<tracked, old, cooling, recon, loopVars, pollVars, clientVars, brokerVars>>

-----------------------------------------------------------------------------
(* TradovateClient: the token.  The loop calls every 75 minutes, also      *)
(* after a failure.                                                        *)
RenewalWakes ==
  /\ renewal = "asleep" /\ renewal' = "calling"
  /\ UNCHANGED <<adapterVars, pollVars, token, sock, flag, listener, tries, brokerVars>>

(* The renewal or, when it failed, the authentication succeeds.            *)
Renewed ==
  /\ renewal = "calling" /\ renewal' = "asleep" /\ token' = "valid"
  /\ UNCHANGED <<adapterVars, pollVars, sock, flag, listener, tries, brokerVars>>

(* VARIANT: the exception leaves the loop.                                 *)
RenewalFailsForGood ==
  /\ renewal = "calling" /\ renewal' = "off"
  /\ UNCHANGED <<adapterVars, pollVars, token, sock, flag, listener, tries, brokerVars>>
RenewalFails ==
  /\ renewal = "calling" /\ renewal' = "asleep"
  /\ UNCHANGED <<adapterVars, pollVars, token, sock, flag, listener, tries, brokerVars>>

TokenExpires ==
  /\ token = "valid" /\ token' = "expired"
  /\ UNCHANGED <<adapterVars, pollVars, renewal, sock, flag, listener, tries, brokerVars>>

-----------------------------------------------------------------------------
(* TradovateClient: the WebSocket.                                         *)
SocketBreaks ==
  /\ sock \in {"open", "mute"} /\ sock' = "broken" /\ events' = {}
  /\ UNCHANGED <<adapterVars, pollVars, token, renewal, flag, listener, tries, status, placing>>

ListenerNotices ==
  /\ listener = "reading" /\ sock = "broken"
  /\ listener' = "retrying" /\ tries' = 0 /\ flag' = FALSE /\ sock' = "none"
  /\ UNCHANGED <<adapterVars, pollVars, token, renewal, brokerVars>>

(* An attempt that succeeds, and the post_reconnect_poll that              *)
(* _handle_ws_event starts.  A server that does not answer the             *)
(* authorization leaves the flag as it was.  Bound: one poll of this kind  *)
(* at a time.                                                              *)
SocketReopened(mute) ==
  /\ listener = "retrying" /\ Authenticated /\ ~Polling("event")
  /\ listener' = "reading" /\ tries' = 0
  /\ sock' = (IF mute THEN "mute" ELSE "open")
  /\ flag' = (IF mute THEN flag ELSE TRUE)
  /\ IF cooling THEN UNCHANGED pollVars ELSE Ask("event")
  /\ UNCHANGED <<adapterVars, token, renewal, brokerVars>>

(* An attempt that fails, perhaps after the flag was set; after the last   *)
(* one the listener is gone.                                               *)
AttemptFails(half) ==
  /\ listener = "retrying" /\ tries' = tries + 1
  /\ half => Authenticated
  /\ listener' = (IF tries' = WsAttempts THEN "ended" ELSE "retrying")
  /\ flag' = (tries' < WsAttempts /\ (half \/ flag))
  /\ UNCHANGED <<adapterVars, pollVars, token, renewal, sock, brokerVars>>

(* An order event with a final status.                                     *)
Deliver(o) ==
  /\ listener = "reading" /\ sock = "open" /\ o \in events
  /\ events' = events \ {o} /\ Untrack({o})
  /\ UNCHANGED <<phase, cooling, recon, loopVars, pollVars, clientVars, status, placing>>

-----------------------------------------------------------------------------
(* _reconciliation_loop and _reconnect_loop.                               *)

(* The second half of a pass of the reconciliation loop.                   *)
CheckSession ==
  IF phase = "up" /\ Authenticated
  THEN gaveUp' = FALSE /\ UNCHANGED <<reconnect, attempt>>
  ELSE IF ~reconnect /\ ~gaveUp
       THEN reconnect' = TRUE /\ attempt' = 1 /\ UNCHANGED gaveUp
       ELSE UNCHANGED loopVars

(* The loop wakes: it polls when the WebSocket is down and an order is     *)
(* open, unless a cooldown is active.                                      *)
ReconWakes ==
  /\ recon /\ ~Polling("loop") /\ phase = "up"
  /\ IF ~flag /\ tracked # {} /\ ~cooling
     THEN Ask("loop") /\ UNCHANGED loopVars
     ELSE CheckSession /\ UNCHANGED pollVars
  /\ UNCHANGED <<phase, tracked, old, cooling, recon, clientVars, brokerVars>>

(* while attempt < max_attempts.  Giving up also disarms the adapter and    *)
(* writes kill_request.flag, whose effect OperatorControl describes.       *)
NextAttempt ==
  IF phase = "up" /\ Authenticated
  THEN reconnect' = FALSE /\ attempt' = 0 /\ UNCHANGED gaveUp
  ELSE IF attempt < ReconnectAttempts
       THEN attempt' = attempt + 1 /\ UNCHANGED <<reconnect, gaveUp>>
       ELSE reconnect' = FALSE /\ attempt' = 0 /\ gaveUp' = TRUE

(* The reconnect loop wakes: connect() returns True at once, _connected    *)
(* being still set; what re-authenticates is the poll that follows.        *)
ReconnectWakes ==
  /\ reconnect /\ ~Polling("reconnect") /\ phase = "up"
  /\ IF cooling
     THEN reconnect' = FALSE /\ attempt' = 0 /\ UNCHANGED <<gaveUp, pollVars>>
     ELSE Ask("reconnect") /\ UNCHANGED loopVars
  /\ UNCHANGED <<phase, tracked, old, cooling, recon, clientVars, brokerVars>>

(* What the caller of _poll_order_status does when it returns ...          *)
AfterPoll(p) ==
  CASE p = "loop" -> CheckSession /\ UNCHANGED recon
    [] p = "reconnect" -> /\ reconnect' = FALSE /\ attempt' = 0
                          /\ UNCHANGED <<recon, gaveUp>>
    [] OTHER -> UNCHANGED <<recon, loopVars>>

(* ... and when an exception it does not catch comes out of it.  VARIANT:  *)
(* the reconciliation loop ends.                                           *)
AfterEscapeLoopEnds(p) ==
  CASE p = "loop" -> recon' = FALSE /\ UNCHANGED loopVars
    [] p = "reconnect" -> NextAttempt /\ UNCHANGED recon
    [] OTHER -> UNCHANGED <<recon, loopVars>>
AfterEscape(p) ==
  CASE p = "reconnect" -> NextAttempt /\ UNCHANGED recon
    [] OTHER -> UNCHANGED <<recon, loopVars>>

(* GET /order/list: an answer 401 to an expired token authenticates first. *)
BrokerLists(p) ==
  /\ poll[p] = "asked" /\ token # "none"
  /\ poll' = [poll EXCEPT ![p] = "answered"]
  /\ keep' = [keep EXCEPT ![p] = {o \in Orders : status[o] = "working"}]
  /\ token' = "valid"
  /\ UNCHANGED <<adapterVars, asked, renewal, sock, flag, listener, tries, brokerVars>>

PollDone(p) ==
  /\ poll' = [poll EXCEPT ![p] = "idle"]
  /\ keep' = [keep EXCEPT ![p] = {}]
  /\ asked' = [asked EXCEPT ![p] = {}]

(* The reply: orders it does not list or reports as final are dropped, and *)
(* so is what is older than ten minutes.                                   *)
PollReply(p) ==
  /\ poll[p] = "answered" /\ PollDone(p)
  /\ Untrack((Orders \ keep[p]) \cup old)
  /\ AfterPoll(p)
  /\ UNCHANGED <<phase, cooling, clientVars, brokerVars>>

(* VARIANT: an answer that is no list is read as an empty one.             *)
PollFailsEmpty(p) ==
  /\ poll[p] = "asked" /\ PollDone(p)
  /\ Untrack(Orders)
  /\ AfterPoll(p)
  /\ UNCHANGED <<phase, cooling, clientVars, brokerVars>>
(* An error that is caught, or an answer that is no list.                  *)
PollFails(p) ==
  /\ poll[p] = "asked" /\ PollDone(p)
  /\ AfterPoll(p)
  /\ UNCHANGED <<phase, tracked, old, cooling, clientVars, brokerVars>>

PollLimited(p) ==
  /\ poll[p] = "asked" /\ token # "none" /\ PollDone(p)
  /\ cooling' = TRUE
  /\ AfterPoll(p)
  /\ UNCHANGED <<phase, tracked, old, clientVars, brokerVars>>

(* TradovateAuthError (the authentication after a 401 failed) and aiohttp's*)
(* own errors are not caught.                                              *)
PollEscapes(p) ==
  /\ poll[p] = "asked" /\ PollDone(p)
  /\ AfterEscape(p)
  /\ UNCHANGED <<phase, tracked, old, cooling, clientVars, brokerVars>>

-----------------------------------------------------------------------------
(* Other calls of the adapter.                                             *)

(* place_bracket has an order accepted; later the id reaches it, or its    *)
(* request is given up.                                                    *)
OrderAccepted(o) ==
  /\ phase = "up" /\ Authenticated /\ status[o] = "none"
  /\ status' = [status EXCEPT ![o] = "working"] /\ placing' = placing \cup {o}
  /\ UNCHANGED <<adapterVars, pollVars, clientVars, events>>
OrderTracked(o) ==
  /\ o \in placing /\ placing' = placing \ {o}
  /\ tracked' = tracked \cup {o}
  /\ UNCHANGED <<phase, old, cooling, recon, loopVars, pollVars, clientVars, status, events>>
OrderAbandoned(o) ==
  /\ o \in placing /\ placing' = placing \ {o}
  /\ UNCHANGED <<adapterVars, pollVars, clientVars, status, events>>

(* The broker fills, cancels, rejects or expires the order.                *)
Final(o) ==
  /\ status[o] = "working" /\ status' = [status EXCEPT ![o] = "final"]
  /\ events' = IF sock = "open" THEN events \cup {o} ELSE events
OrderFinal(o) ==
  /\ Final(o)
  /\ UNCHANGED <<adapterVars, pollVars, clientVars, placing>>
CancelOrder(o) ==
  /\ token # "none" /\ token' = "valid" /\ o \in tracked
  /\ Final(o) /\ Untrack({o})
  /\ UNCHANGED <<phase, cooling, recon, loopVars, pollVars, renewal, sock, flag, listener,
                 tries, placing>>
OrderAges(o) ==
  /\ o \in tracked \ old /\ old' = old \cup {o}
  /\ UNCHANGED <<phase, tracked, cooling, recon, loopVars, pollVars, clientVars, brokerVars>>

(* get_positions gets a 429, or is called again during the cooldown.       *)
PositionsLimited ==
  /\ phase = "up" /\ Authenticated /\ ~cooling /\ cooling' = TRUE
  /\ UNCHANGED <<phase, tracked, old, recon, loopVars, pollVars, clientVars, brokerVars>>
CooldownEnds ==
  /\ cooling /\ cooling' = FALSE
  /\ UNCHANGED <<phase, tracked, old, recon, loopVars, pollVars, clientVars, brokerVars>>

(* disconnect: _connected is cleared and the reconnect task cancelled and  *)
(* awaited; then the reconciliation task, and the client's tasks and       *)
(* socket.  A post_reconnect_poll is not cancelled.                        *)
Disconnect ==
  /\ phase = "up" /\ phase' = "closing"
  /\ reconnect' = FALSE /\ attempt' = 0
  /\ PollDone("reconnect")
  /\ UNCHANGED <<tracked, old, cooling, recon, gaveUp, clientVars, brokerVars>>
Disconnected ==
  /\ phase = "closing" /\ phase' = "down"
  /\ recon' = FALSE /\ PollDone("loop")
  /\ token' = "none" /\ renewal' = "off"
  /\ sock' = "none" /\ flag' = FALSE /\ listener' = "off" /\ tries' = 0
  /\ events' = {}
  /\ UNCHANGED <<tracked, old, cooling, loopVars, status, placing>>

-----------------------------------------------------------------------------
PollStep(p) ==
  BrokerLists(p) \/ PollReply(p) \/ PollFails(p) \/ PollLimited(p) \/ PollEscapes(p)

OrderStep(o) ==
  \/ Deliver(o) \/ OrderAccepted(o) \/ OrderTracked(o) \/ OrderAbandoned(o)
  \/ OrderFinal(o) \/ CancelOrder(o) \/ OrderAges(o)

Next ==
  \/ \E ws \in {"ok", "mute", "half", "fail"} : Connect(ws)
  \/ ConnectRefused
  \/ RenewalWakes \/ Renewed \/ RenewalFails \/ TokenExpires
  \/ SocketBreaks \/ ListenerNotices
  \/ \E b \in BOOLEAN : SocketReopened(b) \/ AttemptFails(b)
  \/ ReconWakes \/ ReconnectWakes
  \/ \E p \in Pollers : PollStep(p)
  \/ \E o \in Orders : OrderStep(o)
  \/ PositionsLimited \/ CooldownEnds
  \/ Disconnect \/ Disconnected

Spec == Init /\ [][Next]_vars

(* Sleeps end and requests get an answer of some kind.                     *)
Running ==
  /\ WF_vars(RenewalWakes)
  /\ WF_vars(ReconWakes) /\ WF_vars(ReconnectWakes)
  /\ WF_vars(ListenerNotices)
  /\ WF_vars(\E b \in BOOLEAN : SocketReopened(b) \/ AttemptFails(b))
  /\ \A p \in Pollers : WF_vars(PollStep(p))
  /\ \A o \in Orders : WF_vars(Deliver(o)) /\ WF_vars(OrderTracked(o))

(* A broker that is asked again and again answers.                         *)
Answers == SF_vars(Renewed) /\ \A p \in Pollers : SF_vars(BrokerLists(p))

FairSpec == Spec /\ Running /\ Answers

-----------------------------------------------------------------------------
(* When the listener has given up, the flag that keeps the reconciliation  *)
(* loop from polling is down (client.py:839, adapter.py:1588).             *)
GaveUpPolls == listener = "ended" => ~flag

(* An order the broker still works on, and which was tracked when a poll   *)
(* was sent, is not dropped by it unless ten minutes old; neither events   *)
(* nor cancels drop it (adapter.py:1538, 1313).                            *)
Late(o) == \E p \in Pollers : poll[p] = "answered" /\ o \notin asked[p]
LiveOrderKept ==
  [][\A o \in tracked \ tracked' : status'[o] = "working" => o \in old \/ Late(o)]_vars

(* A session whose token has expired gets a valid one again, by the        *)
(* renewal, the reconnect loop or a poll (client.py:280, adapter.py:1595). *)
AuthRestored == (phase = "up" /\ ~Authenticated) ~> (Authenticated \/ phase # "up")

(* While the WebSocket is down, orders that have become final are found by *)
(* the REST polls, once rate limiting ends, also after the listener gave   *)
(* up (adapter.py:1576).                                                   *)
DownIsPolled ==
  <>[]~cooling =>
    \A o \in Orders :
      (phase = "up" /\ o \in tracked /\ status[o] = "final")
        ~> (o \notin tracked \/ flag \/ phase # "up")
=============================================================================
