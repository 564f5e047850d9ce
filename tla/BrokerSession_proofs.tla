------------------------- MODULE BrokerSession_proofs -------------------------
(* Proofs about BrokerSession, for any orders and numbers of attempts. *)
EXTENDS BrokerSession, TLAPS

(* A listener that retries has an attempt left.                            *)
RetryInv == listener = "retrying" => tries < WsAttempts

(* What is tracked, awaited or asked about has been accepted, ...          *)
AcceptedInv ==
  /\ \A o \in tracked \cup placing : status[o] # "none"
  /\ \A p \in Pollers : \A o \in asked[p] : status[o] # "none"

(* ... so a list taken since reports it unless it is final.                *)
ListInv ==
  \A p \in Pollers :
    poll[p] = "answered" => \A o \in asked[p] : status[o] = "working" => o \in keep[p]

(* The socket only carries final statuses.                                 *)
EventsInv == \A o \in events : status[o] = "final"

IInv ==
  TypeOK /\ RetryInv /\ GaveUpPolls /\ AcceptedInv /\ ListInv /\ EventsInv

LEMMA InitIInv == Init => IInv
<1> SUFFICES ASSUME Init PROVE IInv
  OBVIOUS
<1>1. TypeOK
  <2>1. ValuesOK
    BY AttemptsAssumption DEF Init, ValuesOK
  <2>2. FlagsOK
    BY Zenon DEF Init, FlagsOK
  <2>3. QED
    BY <2>1, <2>2 DEF TypeOK
<1>2. GaveUpPolls
  BY DEF Init, GaveUpPolls
<1>3. AcceptedInv
  BY DEF Init, AcceptedInv
<1>4. ListInv
  BY DEF Init, ListInv
<1>5. RetryInv
  BY DEF Init, RetryInv
<1>6. EventsInv
  BY DEF Init, EventsInv
<1>7. QED
  BY <1>1, <1>2, <1>3, <1>4, <1>5, <1>6 DEF IInv

-----------------------------------------------------------------------------
(* Type correctness: the Boolean variables, then the others. *)

USE DEF adapterVars, pollVars, clientVars, brokerVars, loopVars

LEMMA AfterFlags ==
  ASSUME FlagsOK, NEW p \in Pollers, AfterPoll(p) \/ AfterEscape(p)
  PROVE  recon' \in BOOLEAN /\ reconnect' \in BOOLEAN /\ gaveUp' \in BOOLEAN
<1>1. (CheckSession \/ NextAttempt) => reconnect' \in BOOLEAN /\ gaveUp' \in BOOLEAN
  BY Zenon DEF CheckSession, NextAttempt, FlagsOK
<1>2. QED
  BY <1>1, Zenon DEF AfterPoll, AfterEscape, FlagsOK

LEMMA FlagsStep == FlagsOK /\ [Next]_vars => FlagsOK'
<1> SUFFICES ASSUME FlagsOK, [Next]_vars PROVE FlagsOK'
  OBVIOUS
<1>1. CASE \E ws \in {"ok", "mute", "half", "fail"} : Connect(ws)
  <2>1. PICK ws \in {"ok", "mute", "half", "fail"} : Connect(ws)
    BY <1>1
  <2>2. QED
    BY <2>1, Zenon DEF Connect, FlagsOK
<1>2. CASE ConnectRefused \/ Disconnect \/ Disconnected
  BY <1>2, Zenon DEF ConnectRefused, Disconnect, Disconnected, FlagsOK
<1>3. CASE RenewalWakes \/ Renewed \/ RenewalFails \/ TokenExpires
  BY <1>3, Zenon DEF RenewalWakes, Renewed, RenewalFails, TokenExpires, FlagsOK
<1>4. CASE SocketBreaks \/ ListenerNotices
  BY <1>4, Zenon DEF SocketBreaks, ListenerNotices, FlagsOK
<1>5. CASE \E b \in BOOLEAN : SocketReopened(b) \/ AttemptFails(b)
  BY <1>5, Zenon DEF SocketReopened, AttemptFails, FlagsOK
<1>6. CASE ReconWakes \/ ReconnectWakes
  BY <1>6, Zenon DEF ReconWakes, ReconnectWakes, CheckSession, FlagsOK
<1>7. CASE \E p \in Pollers : PollStep(p)
  <2>1. PICK p \in Pollers : PollStep(p)
    BY <1>7
  <2>2. CASE BrokerLists(p)
    BY <2>2, Zenon DEF BrokerLists, FlagsOK
  <2>3. CASE PollReply(p) \/ PollFails(p) \/ PollLimited(p) \/ PollEscapes(p)
    <3>1. recon' \in BOOLEAN /\ reconnect' \in BOOLEAN /\ gaveUp' \in BOOLEAN
      BY <2>3, AfterFlags DEF PollReply, PollFails, PollLimited, PollEscapes
    <3>2. cooling' \in BOOLEAN /\ flag' \in BOOLEAN
      BY <2>3, Zenon DEF PollReply, PollFails, PollLimited, PollEscapes, FlagsOK
    <3>3. QED
      BY <3>1, <3>2 DEF FlagsOK
  <2>4. QED
    BY <2>1, <2>2, <2>3 DEF PollStep
<1>8. CASE \E o \in Orders : OrderStep(o)
  BY <1>8, Zenon
     DEF OrderStep, Deliver, OrderAccepted, OrderTracked, OrderAbandoned, OrderFinal,
         CancelOrder, OrderAges, FlagsOK
<1>9. CASE PositionsLimited \/ CooldownEnds
  BY <1>9, Zenon DEF PositionsLimited, CooldownEnds, FlagsOK
<1>10. CASE UNCHANGED vars
  BY <1>10 DEF vars, FlagsOK
<1>11. QED
  BY <1>1, <1>2, <1>3, <1>4, <1>5, <1>6, <1>7, <1>8, <1>9, <1>10 DEF Next

LEMMA AfterAttempt ==
  ASSUME ValuesOK, NEW p \in Pollers, AfterPoll(p) \/ AfterEscape(p)
  PROVE  attempt' \in 0..ReconnectAttempts
<1>1. (CheckSession \/ NextAttempt) => attempt' \in 0..ReconnectAttempts
  BY AttemptsAssumption DEF CheckSession, NextAttempt, ValuesOK
<1>2. QED
  BY <1>1, AttemptsAssumption DEF AfterPoll, AfterEscape, ValuesOK

LEMMA AskTypes ==
  ASSUME ValuesOK, NEW p \in Pollers, Ask(p) \/ PollDone(p)
  PROVE  /\ poll' \in [Pollers -> {"idle", "asked", "answered"}]
         /\ keep' \in [Pollers -> SUBSET Orders] /\ asked' \in [Pollers -> SUBSET Orders]
  BY DEF Ask, PollDone, ValuesOK

LEMMA ValuesStep == ValuesOK /\ RetryInv /\ [Next]_vars => ValuesOK'
<1> SUFFICES ASSUME ValuesOK, RetryInv, [Next]_vars PROVE ValuesOK'
  OBVIOUS
<1>1. CASE \E ws \in {"ok", "mute", "half", "fail"} : Connect(ws)
  BY <1>1 DEF Connect, ValuesOK
<1>2. CASE ConnectRefused
  BY <1>2 DEF ConnectRefused, ValuesOK
<1>3. CASE Disconnect
  <2>1. "reconnect" \in Pollers
    BY DEF Pollers
  <2>2. QED
    BY <1>3, <2>1, AskTypes, AttemptsAssumption DEF Disconnect, ValuesOK
<1>4. CASE Disconnected
  <2>1. "loop" \in Pollers
    BY DEF Pollers
  <2>2. QED
    BY <1>4, <2>1, AskTypes, AttemptsAssumption DEF Disconnected, ValuesOK
<1>5. CASE RenewalWakes \/ Renewed \/ RenewalFails \/ TokenExpires
  BY <1>5 DEF RenewalWakes, Renewed, RenewalFails, TokenExpires, ValuesOK
<1>6. CASE SocketBreaks \/ ListenerNotices
  BY <1>6, AttemptsAssumption DEF SocketBreaks, ListenerNotices, ValuesOK
<1>7. CASE \E b \in BOOLEAN : SocketReopened(b)
  <2>1. "event" \in Pollers
    BY DEF Pollers
  <2>2. CASE Ask("event")
    BY <1>7, <2>1, <2>2, AskTypes, AttemptsAssumption DEF SocketReopened, ValuesOK
  <2>3. CASE UNCHANGED pollVars
    BY <1>7, <2>3, AttemptsAssumption DEF SocketReopened, ValuesOK
  <2>4. QED
    BY <1>7, <2>2, <2>3 DEF SocketReopened
<1>8. CASE \E b \in BOOLEAN : AttemptFails(b)
  BY <1>8, AttemptsAssumption DEF AttemptFails, RetryInv, ValuesOK
<1>9. CASE ReconWakes
  <2>1. "loop" \in Pollers
    BY DEF Pollers
  <2>2. CASE Ask("loop") /\ UNCHANGED loopVars
    BY <1>9, <2>1, <2>2, AskTypes DEF ReconWakes, ValuesOK
  <2>3. CASE CheckSession /\ UNCHANGED pollVars
    <3>1. attempt' \in 0..ReconnectAttempts
      BY <2>3, AttemptsAssumption DEF CheckSession, ValuesOK
    <3>2. QED
      BY <1>9, <2>3, <3>1 DEF ReconWakes, ValuesOK
  <2>4. QED
    BY <1>9, <2>2, <2>3 DEF ReconWakes
<1>10. CASE ReconnectWakes
  <2>1. "reconnect" \in Pollers
    BY DEF Pollers
  <2>2. CASE Ask("reconnect") /\ UNCHANGED loopVars
    BY <1>10, <2>1, <2>2, AskTypes DEF ReconnectWakes, ValuesOK
  <2>3. CASE attempt' = 0 /\ UNCHANGED pollVars
    BY <1>10, <2>3, AttemptsAssumption DEF ReconnectWakes, ValuesOK
  <2>4. QED
    BY <1>10, <2>2, <2>3 DEF ReconnectWakes
<1>11. CASE \E p \in Pollers : PollStep(p)
  <2>1. PICK p \in Pollers : PollStep(p)
    BY <1>11
  <2>2. CASE BrokerLists(p)
    BY <2>2 DEF BrokerLists, ValuesOK
  <2>3. CASE PollReply(p)
    BY <2>3, AfterAttempt, AskTypes DEF PollReply, Untrack, ValuesOK
  <2>4. CASE PollFails(p)
    BY <2>4, AfterAttempt, AskTypes DEF PollFails, ValuesOK
  <2>5. CASE PollLimited(p)
    BY <2>5, AfterAttempt, AskTypes DEF PollLimited, ValuesOK
  <2>6. CASE PollEscapes(p)
    BY <2>6, AfterAttempt, AskTypes DEF PollEscapes, ValuesOK
  <2>7. QED
    BY <2>1, <2>2, <2>3, <2>4, <2>5, <2>6 DEF PollStep
<1>12. CASE \E o \in Orders : OrderStep(o)
  <2>1. PICK o \in Orders : OrderStep(o)
    BY <1>12
  <2>2. CASE Deliver(o) \/ OrderAccepted(o) \/ OrderTracked(o)
    BY <2>2 DEF Deliver, Untrack, OrderAccepted, OrderTracked, ValuesOK
  <2>3. CASE OrderAbandoned(o) \/ OrderAges(o)
    BY <2>3 DEF OrderAbandoned, OrderAges, ValuesOK
  <2>4. CASE OrderFinal(o)
    BY <2>4 DEF OrderFinal, Final, ValuesOK
  <2>5. CASE CancelOrder(o)
    BY <2>5 DEF CancelOrder, Final, Untrack, ValuesOK
  <2>6. QED
    BY <2>1, <2>2, <2>3, <2>4, <2>5 DEF OrderStep
<1>13. CASE PositionsLimited \/ CooldownEnds
  BY <1>13 DEF PositionsLimited, CooldownEnds, ValuesOK
<1>14. CASE UNCHANGED vars
  BY <1>14 DEF vars, ValuesOK
<1>15. QED
  BY <1>1, <1>2, <1>3, <1>4, <1>5, <1>6, <1>7, <1>8, <1>9, <1>10, <1>11, <1>12, <1>13,
     <1>14 DEF Next

LEMMA TypesStep == TypeOK /\ RetryInv /\ [Next]_vars => TypeOK'
  BY FlagsStep, ValuesStep DEF TypeOK

-----------------------------------------------------------------------------
(* The listener. *)

(* Only these steps write its variables.                                   *)
LEMMA ListenerFrame ==
  ASSUME [Next]_vars
  PROVE  \/ UNCHANGED <<listener, tries, flag>>
         \/ \E ws \in {"ok", "mute", "half", "fail"} : Connect(ws)
         \/ ListenerNotices \/ Disconnected
         \/ \E b \in BOOLEAN : SocketReopened(b) \/ AttemptFails(b)
<1>1. CASE ConnectRefused \/ Disconnect \/ ReconWakes \/ ReconnectWakes
  BY <1>1 DEF ConnectRefused, Disconnect, ReconWakes, ReconnectWakes
<1>2. CASE RenewalWakes \/ Renewed \/ RenewalFails \/ TokenExpires \/ SocketBreaks
  BY <1>2 DEF RenewalWakes, Renewed, RenewalFails, TokenExpires, SocketBreaks
<1>3. CASE \E p \in Pollers : PollStep(p)
  BY <1>3
     DEF PollStep, BrokerLists, PollReply, PollFails, PollLimited, PollEscapes
<1>4. CASE \E o \in Orders : OrderStep(o)
  BY <1>4
     DEF OrderStep, Deliver, OrderAccepted, OrderTracked, OrderAbandoned, OrderFinal,
         CancelOrder, OrderAges
<1>5. CASE PositionsLimited \/ CooldownEnds
  BY <1>5 DEF PositionsLimited, CooldownEnds
<1>6. CASE UNCHANGED vars
  BY <1>6 DEF vars
<1>7. QED
  BY <1>1, <1>2, <1>3, <1>4, <1>5, <1>6 DEF Next

LEMMA RetryStep == ValuesOK /\ RetryInv /\ [Next]_vars => RetryInv'
<1> SUFFICES ASSUME ValuesOK, RetryInv, [Next]_vars PROVE RetryInv'
  OBVIOUS
<1>1. CASE \E b \in BOOLEAN : AttemptFails(b)
  BY <1>1, AttemptsAssumption DEF AttemptFails, RetryInv, ValuesOK
<1>2. CASE \E b \in BOOLEAN : SocketReopened(b)
  BY <1>2 DEF SocketReopened, RetryInv
<1>3. CASE \E ws \in {"ok", "mute", "half", "fail"} : Connect(ws)
  BY <1>3 DEF Connect, RetryInv
<1>4. CASE ListenerNotices \/ Disconnected
  BY <1>4, AttemptsAssumption DEF ListenerNotices, Disconnected, RetryInv
<1>5. CASE UNCHANGED <<listener, tries, flag>>
  BY <1>5 DEF RetryInv
<1>6. QED
  BY <1>1, <1>2, <1>3, <1>4, <1>5, ListenerFrame

LEMMA GaveUpStep == ValuesOK /\ RetryInv /\ GaveUpPolls /\ [Next]_vars => GaveUpPolls'
<1> SUFFICES ASSUME ValuesOK, RetryInv, GaveUpPolls, [Next]_vars PROVE GaveUpPolls'
  OBVIOUS
<1>1. CASE \E b \in BOOLEAN : AttemptFails(b)
  <2>1. PICK b \in BOOLEAN : AttemptFails(b)
    BY <1>1
  <2>2. listener' = "ended" => tries' = WsAttempts
    BY <2>1 DEF AttemptFails
  <2>3. tries' = WsAttempts => ~(tries' < WsAttempts)
    BY AttemptsAssumption
  <2>4. QED
    BY <2>1, <2>2, <2>3, Zenon DEF AttemptFails, GaveUpPolls
<1>2. CASE \E b \in BOOLEAN : SocketReopened(b)
  BY <1>2 DEF SocketReopened, GaveUpPolls
<1>3. CASE \E ws \in {"ok", "mute", "half", "fail"} : Connect(ws)
  BY <1>3 DEF Connect, GaveUpPolls
<1>4. CASE ListenerNotices \/ Disconnected
  BY <1>4 DEF ListenerNotices, Disconnected, GaveUpPolls
<1>5. CASE UNCHANGED <<listener, tries, flag>>
  BY <1>5 DEF GaveUpPolls
<1>6. QED
  BY <1>1, <1>2, <1>3, <1>4, <1>5, ListenerFrame

-----------------------------------------------------------------------------
(* The orders. *)

LEMMA OrdersStep ==
  ASSUME ValuesOK, NEW o \in Orders, OrderStep(o), AcceptedInv
  PROVE  /\ \A x \in Orders : status[x] # "none" => status'[x] # "none"
         /\ \A x \in tracked' \cup placing' : status'[x] # "none"
         /\ \A x \in Orders :
              status'[x] = "working" => status[x] \in {"none", "working"}
         /\ UNCHANGED pollVars
<1>1. CASE Deliver(o)
  BY <1>1 DEF Deliver, Untrack, ValuesOK, AcceptedInv
<1>2. CASE OrderAccepted(o)
  BY <1>2 DEF OrderAccepted, ValuesOK, AcceptedInv
<1>3. CASE OrderTracked(o)
  BY <1>3 DEF OrderTracked, ValuesOK, AcceptedInv
<1>4. CASE OrderAbandoned(o)
  BY <1>4 DEF OrderAbandoned, ValuesOK, AcceptedInv
<1>5. CASE OrderFinal(o)
  BY <1>5 DEF OrderFinal, Final, ValuesOK, AcceptedInv
<1>6. CASE CancelOrder(o)
  BY <1>6 DEF CancelOrder, Final, Untrack, ValuesOK, AcceptedInv
<1>7. CASE OrderAges(o)
  BY <1>7 DEF OrderAges, ValuesOK, AcceptedInv
<1>8. QED
  BY <1>1, <1>2, <1>3, <1>4, <1>5, <1>6, <1>7 DEF OrderStep

(* What the other steps do to the orders ...                               *)
LEMMA OtherStep ==
  ASSUME ValuesOK, [Next]_vars, ~\E o \in Orders : OrderStep(o)
  PROVE  UNCHANGED <<status, placing>> /\ tracked' \subseteq tracked
<1>1. CASE \E ws \in {"ok", "mute", "half", "fail"} : Connect(ws)
  BY <1>1 DEF Connect
<1>2. CASE ConnectRefused \/ Disconnect \/ Disconnected
  BY <1>2 DEF ConnectRefused, Disconnect, Disconnected
<1>3. CASE RenewalWakes \/ Renewed \/ RenewalFails \/ TokenExpires
  BY <1>3 DEF RenewalWakes, Renewed, RenewalFails, TokenExpires
<1>4. CASE SocketBreaks \/ ListenerNotices
  BY <1>4 DEF SocketBreaks, ListenerNotices
<1>5. CASE \E b \in BOOLEAN : SocketReopened(b) \/ AttemptFails(b)
  BY <1>5 DEF SocketReopened, AttemptFails
<1>6. CASE ReconWakes \/ ReconnectWakes
  BY <1>6 DEF ReconWakes, ReconnectWakes
<1>7. CASE \E p \in Pollers : PollStep(p)
  BY <1>7
     DEF PollStep, BrokerLists, PollReply, PollFails, PollLimited, PollEscapes, Untrack
<1>8. CASE PositionsLimited \/ CooldownEnds
  BY <1>8 DEF PositionsLimited, CooldownEnds
<1>9. CASE UNCHANGED vars
  BY <1>9 DEF vars
<1>10. QED
  BY <1>1, <1>2, <1>3, <1>4, <1>5, <1>6, <1>7, <1>8, <1>9 DEF Next

(* ... and every step to a poll.                                           *)
LEMMA PollFrame ==
  ASSUME [Next]_vars
  PROVE  \/ UNCHANGED pollVars
         \/ \E p \in Pollers : Ask(p) \/ PollDone(p) \/ BrokerLists(p)
<1>1. CASE \E ws \in {"ok", "mute", "half", "fail"} : Connect(ws)
  BY <1>1 DEF Connect
<1>2. CASE ConnectRefused \/ Disconnect \/ Disconnected
  BY <1>2 DEF ConnectRefused, Disconnect, Disconnected, Pollers
<1>3. CASE RenewalWakes \/ Renewed \/ RenewalFails \/ TokenExpires
  BY <1>3 DEF RenewalWakes, Renewed, RenewalFails, TokenExpires
<1>4. CASE SocketBreaks \/ ListenerNotices
  BY <1>4 DEF SocketBreaks, ListenerNotices
<1>5. CASE \E b \in BOOLEAN : SocketReopened(b) \/ AttemptFails(b)
  BY <1>5 DEF SocketReopened, AttemptFails, Pollers
<1>6. CASE ReconWakes \/ ReconnectWakes
  BY <1>6 DEF ReconWakes, ReconnectWakes, Pollers
<1>7. CASE \E p \in Pollers : PollStep(p)
  BY <1>7 DEF PollStep, PollReply, PollFails, PollLimited, PollEscapes
<1>8. CASE \E o \in Orders : OrderStep(o)
  BY <1>8
     DEF OrderStep, Deliver, OrderAccepted, OrderTracked, OrderAbandoned, OrderFinal,
         CancelOrder, OrderAges
<1>9. CASE PositionsLimited \/ CooldownEnds
  BY <1>9 DEF PositionsLimited, CooldownEnds
<1>10. CASE UNCHANGED vars
  BY <1>10 DEF vars
<1>11. QED
  BY <1>1, <1>2, <1>3, <1>4, <1>5, <1>6, <1>7, <1>8, <1>9, <1>10 DEF Next

(* What is asked for was tracked, now or before.                           *)
LEMMA AskedFrame ==
  ASSUME ValuesOK, [Next]_vars, NEW p \in Pollers
  PROVE  asked'[p] \subseteq asked[p] \cup tracked
<1>1. CASE UNCHANGED pollVars
  BY <1>1
<1>2. CASE \E q \in Pollers : Ask(q) \/ PollDone(q) \/ BrokerLists(q)
  BY <1>2 DEF Ask, PollDone, BrokerLists, ValuesOK
<1>3. QED
  BY <1>1, <1>2, PollFrame

LEMMA AcceptedStep == ValuesOK /\ AcceptedInv /\ [Next]_vars => AcceptedInv'
<1> SUFFICES ASSUME ValuesOK, AcceptedInv, [Next]_vars PROVE AcceptedInv'
  OBVIOUS
<1>1. tracked \subseteq Orders /\ \A p \in Pollers : asked[p] \subseteq Orders
  BY DEF ValuesOK
<1>2. CASE \E o \in Orders : OrderStep(o)
  <2>1. PICK o \in Orders : OrderStep(o)
    BY <1>2
  <2>2. QED
    BY <1>1, <2>1, OrdersStep DEF AcceptedInv
<1>3. CASE ~\E o \in Orders : OrderStep(o)
  BY <1>3, OtherStep, AskedFrame DEF AcceptedInv
<1>4. QED
  BY <1>2, <1>3

LEMMA ListStep == ValuesOK /\ AcceptedInv /\ ListInv /\ [Next]_vars => ListInv'
<1> SUFFICES ASSUME ValuesOK, AcceptedInv, ListInv, [Next]_vars,
                    NEW p \in Pollers, poll'[p] = "answered",
                    NEW o \in asked'[p], status'[o] = "working"
             PROVE  o \in keep'[p]
  BY DEF ListInv
<1>1. asked[p] \subseteq Orders
  BY DEF ValuesOK
<1>2. CASE UNCHANGED pollVars
  <2>1. status[o] # "none"
    BY <1>2 DEF AcceptedInv
  <2>2. status[o] = "working"
    BY <1>1, <1>2, <2>1, OrdersStep, OtherStep
  <2>3. QED
    BY <1>2, <2>2 DEF ListInv
<1>3. CASE \E q \in Pollers : Ask(q) \/ PollDone(q)
  <2>1. PICK q \in Pollers : Ask(q) \/ PollDone(q)
    BY <1>3
  <2>2. q # p /\ poll[p] = "answered" /\ asked'[p] = asked[p] /\ keep'[p] = keep[p]
    BY <2>1 DEF Ask, PollDone, ValuesOK
  <2>3. status[o] # "none"
    BY <2>2 DEF AcceptedInv
  <2>4. status[o] = "working"
    BY <1>1, <2>2, <2>3, OrdersStep, OtherStep
  <2>5. QED
    BY <2>2, <2>4 DEF ListInv
<1>4. CASE \E q \in Pollers : BrokerLists(q)
  <2>1. PICK q \in Pollers : BrokerLists(q)
    BY <1>4
  <2>2. asked' = asked /\ status' = status
    BY <2>1 DEF BrokerLists
  <2>3. CASE q = p
    BY <1>1, <2>1, <2>2, <2>3 DEF BrokerLists, ValuesOK
  <2>4. CASE q # p
    BY <2>1, <2>2, <2>4 DEF BrokerLists, ValuesOK, ListInv
  <2>5. QED
    BY <2>3, <2>4
<1>5. QED
  BY <1>2, <1>3, <1>4, PollFrame

LEMMA EventsStep == ValuesOK /\ EventsInv /\ [Next]_vars => EventsInv'
<1> SUFFICES ASSUME ValuesOK, EventsInv, [Next]_vars PROVE EventsInv'
  OBVIOUS
<1>1. events \subseteq Orders
  BY DEF ValuesOK
<1>2. CASE \E o \in Orders : OrderStep(o)
  <2>1. PICK o \in Orders : OrderStep(o)
    BY <1>2
  <2>2. CASE Deliver(o) \/ OrderTracked(o) \/ OrderAbandoned(o) \/ OrderAges(o)
    BY <2>2 DEF Deliver, OrderTracked, OrderAbandoned, OrderAges, EventsInv
  <2>3. CASE OrderAccepted(o)
    BY <1>1, <2>3 DEF OrderAccepted, ValuesOK, EventsInv
  <2>4. CASE Final(o)
    BY <1>1, <2>4 DEF Final, ValuesOK, EventsInv
  <2>5. QED
    BY <2>1, <2>2, <2>3, <2>4 DEF OrderStep, OrderFinal, CancelOrder
<1>3. CASE ~\E o \in Orders : OrderStep(o)
  <2>1. events' \subseteq events
    <3>1. CASE \E ws \in {"ok", "mute", "half", "fail"} : Connect(ws)
      BY <3>1 DEF Connect
    <3>2. CASE ConnectRefused \/ Disconnect \/ Disconnected
      BY <3>2 DEF ConnectRefused, Disconnect, Disconnected
    <3>3. CASE RenewalWakes \/ Renewed \/ RenewalFails \/ TokenExpires
      BY <3>3 DEF RenewalWakes, Renewed, RenewalFails, TokenExpires
    <3>4. CASE SocketBreaks \/ ListenerNotices
      BY <3>4 DEF SocketBreaks, ListenerNotices
    <3>5. CASE \E b \in BOOLEAN : SocketReopened(b) \/ AttemptFails(b)
      BY <3>5 DEF SocketReopened, AttemptFails
    <3>6. CASE ReconWakes \/ ReconnectWakes
      BY <3>6 DEF ReconWakes, ReconnectWakes
    <3>7. CASE \E p \in Pollers : PollStep(p)
      BY <3>7
         DEF PollStep, BrokerLists, PollReply, PollFails, PollLimited, PollEscapes
    <3>8. CASE PositionsLimited \/ CooldownEnds
      BY <3>8 DEF PositionsLimited, CooldownEnds
    <3>9. CASE UNCHANGED vars
      BY <3>9 DEF vars
    <3>10. QED
      BY <1>3, <3>1, <3>2, <3>3, <3>4, <3>5, <3>6, <3>7, <3>8, <3>9 DEF Next
  <2>2. QED
    BY <1>3, <2>1, OtherStep DEF EventsInv
<1>4. QED
  BY <1>2, <1>3

LEMMA IInvStep == IInv /\ [Next]_vars => IInv'
  BY TypesStep, RetryStep, GaveUpStep, AcceptedStep, ListStep, EventsStep DEF IInv, TypeOK

LEMMA IInvAlways == Spec => []IInv
<1>1. QED
  BY InitIInv, IInvStep, PTL DEF Spec

(* Every variable keeps its type.                                          *)
THEOREM TypesCorrect == Spec => []TypeOK
<1>1. IInv => TypeOK
  BY DEF IInv
<1>2. QED
  BY <1>1, IInvAlways, PTL

(* When the listener has used up its attempts, _ws_connected is false, so  *)
(* that the reconciliation loop polls (client.py:839).                     *)
THEOREM ListenerEndsPolled == Spec => []GaveUpPolls
<1>1. IInv => GaveUpPolls
  BY DEF IInv
<1>2. QED
  BY <1>1, IInvAlways, PTL

-----------------------------------------------------------------------------
(* A working order leaves _open_orders only by age, or by a poll that was  *)
(* sent before it was tracked (adapter.py:1538).                           *)
LEMMA DropStep ==
  ASSUME IInv, [Next]_vars, NEW o \in tracked \ tracked', status'[o] = "working"
  PROVE  o \in old \/ Late(o)
<1>1. o \in Orders /\ ValuesOK /\ AcceptedInv /\ status[o] # "none"
  BY DEF IInv, TypeOK, ValuesOK, AcceptedInv
<1>2. CASE \E x \in Orders : OrderStep(x)
  <2>1. PICK x \in Orders : OrderStep(x)
    BY <1>2
  <2>2. status[o] = "working"
    BY <1>1, <2>1, OrdersStep
  <2>3. CASE Deliver(x)
    BY <2>2, <2>3 DEF Deliver, Untrack, IInv, EventsInv
  <2>4. CASE CancelOrder(x)
    BY <1>1, <2>4 DEF CancelOrder, Final, Untrack, ValuesOK
  <2>5. QED
    BY <2>1, <2>3, <2>4
       DEF OrderStep, OrderAccepted, OrderTracked, OrderAbandoned, OrderFinal, OrderAges
<1>3. CASE \E p \in Pollers : PollReply(p)
  <2>1. PICK p \in Pollers : PollReply(p)
    BY <1>3
  <2>2. status[o] = "working" /\ poll[p] = "answered" /\ (o \in old \/ o \notin keep[p])
    BY <1>1, <2>1 DEF PollReply, Untrack
  <2>3. QED
    BY <2>1, <2>2 DEF IInv, ListInv, Late
<1>4. CASE ~(\E x \in Orders : OrderStep(x)) /\ ~(\E p \in Pollers : PollReply(p))
  <2>1. tracked' = tracked
    <3>1. CASE \E ws \in {"ok", "mute", "half", "fail"} : Connect(ws)
      BY <3>1 DEF Connect
    <3>2. CASE ConnectRefused \/ Disconnect \/ Disconnected
      BY <3>2 DEF ConnectRefused, Disconnect, Disconnected
    <3>3. CASE RenewalWakes \/ Renewed \/ RenewalFails \/ TokenExpires
      BY <3>3 DEF RenewalWakes, Renewed, RenewalFails, TokenExpires
    <3>4. CASE SocketBreaks \/ ListenerNotices
      BY <3>4 DEF SocketBreaks, ListenerNotices
    <3>5. CASE \E b \in BOOLEAN : SocketReopened(b) \/ AttemptFails(b)
      BY <3>5 DEF SocketReopened, AttemptFails
    <3>6. CASE ReconWakes \/ ReconnectWakes
      BY <3>6 DEF ReconWakes, ReconnectWakes
    <3>7. CASE \E p \in Pollers :
                 BrokerLists(p) \/ PollFails(p) \/ PollLimited(p) \/ PollEscapes(p)
      BY <3>7 DEF BrokerLists, PollFails, PollLimited, PollEscapes
    <3>8. CASE PositionsLimited \/ CooldownEnds
      BY <3>8 DEF PositionsLimited, CooldownEnds
    <3>9. CASE UNCHANGED vars
      BY <3>9 DEF vars
    <3>10. QED
      BY <1>4, <3>1, <3>2, <3>3, <3>4, <3>5, <3>6, <3>7, <3>8, <3>9 DEF Next, PollStep
  <2>2. QED
    BY <2>1
<1>5. QED
  BY <1>2, <1>3, <1>4

THEOREM WorkingOrdersKept == Spec => LiveOrderKept
<1>1. IInv /\ [Next]_vars
        => [\A o \in tracked \ tracked' : status'[o] = "working" => o \in old \/ Late(o)]_vars
  BY DropStep
<1>2. QED
  BY <1>1, IInvAlways, PTL DEF Spec, LiveOrderKept

=============================================================================
