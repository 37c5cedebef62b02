-------------------------- MODULE MobileOrders_proofs --------------------------
(***************************************************************************)
(* Proofs about how the mobile app keeps up with an order, for any number  *)
(* of events and connections: the variables keep their types, a signed-in  *)
(* customer is always listened for, the socket the app knows is its own,   *)
(* what a screen shows is no older than what the app was told, and while a *)
(* socket is open the payment shown is the payment there is.  The last     *)
(* rests on what happened since the app was told: everything that changes  *)
(* the payment is announced, or done by the customer's own requests, which *)
(* read everything again when they end, or by an attempt to pay that the   *)
(* app gave up, which the property excepts.                                *)
(***************************************************************************)
EXTENDS MobileOrders, FiniteSetTheorems, SequenceTheorems, TLAPS

SocketType == [id : 1..MaxSockets, at : {"token", "connecting", "open", "dead"},
               due : BOOLEAN, mine : BOOLEAN]
Row == [order : OrderStatus, payment : PaymentStatus]
ReadType(n) == [data : 0..n, since : 0..n, old : BOOLEAN, owed : BOOLEAN]

\* The connections of the session, by their numbers, and the timers that run.
Ours == {i \in 1..MaxSockets : \E s \in sockets : s.id = i /\ s.mine}
Timers == IF timer THEN loose + 1 ELSE loose

\* Connections are numbered as they begin.  One that closes leaves a timer, and a timer
\* begins a new one.
SocketsInv ==
  /\ \A s \in sockets : s.id <= connects /\ (s.mine => signedIn)
  /\ \A s, t \in sockets : s.id = t.id => s = t
  /\ Cardinality(Ours) + Timers <= connects
  /\ KnownSocketIsOurs

\* What the requests that are out, and those given up, can still do to the order: the
\* bound on its versions.  An attempt to pay commits twice.
PayMoves ==
  IF pay = "none" THEN 0 ELSE IF pay \in {"reading", "retrying"} THEN 2 ELSE 1
CancelMoves == IF cancel = "out" THEN 1 ELSE 0
LateMoves == 2 * asked + begun
Budget == Latest + PayMoves + CancelMoves + LateMoves <= 2 * events + 1

\* Against the news n: a read that is out began after it or is owed another; one that was
\* answered has it, or is owed, or is read again when it is shown.
Fresh(r, n, shown) ==
  /\ r.since # 0 => r.owed \/ r.since >= n
  /\ r.since = 0 => r.owed \/ r.data = 0 \/ r.data >= n \/ (r.old /\ ~shown)

ReadsInv ==
  /\ \A k \in Keys : Fresh(q[k], told[k], Mounted(k))
  /\ ~signedIn => \A k \in Keys : q[k] = NoRead

Hearing == \E s \in sockets : s.at = "open" /\ s.mine /\ ~s.due

\* Since the app was told, the payment has not changed, but by what an attempt that was
\* given up did without an event.
HeardAll ==
  Hearing /\ pay = "none" =>
    /\ told["payment"] # 0
    /\ \A v \in told["payment"]..Latest : v >= unsaid => was[v].payment = srv.payment

IInv == TypeOK /\ SocketsInv /\ Budget /\ ReadsInv /\ HeardAll /\ AlwaysListening

-----------------------------------------------------------------------------
(* The socket. *)

NetTypes ==
  /\ sockets \subseteq SocketType
  /\ wsRef \in 0..MaxSockets /\ timer \in BOOLEAN /\ loose \in 0..MaxSockets
  /\ gaveUp \in BOOLEAN /\ connects \in 0..MaxSockets

NetInv == NetTypes /\ SocketsInv /\ AlwaysListening /\ signedIn \in BOOLEAN

LEMMA OursFinite ==
  IsFiniteSet(Ours) /\ Cardinality(Ours) \in Nat /\ Cardinality(Ours)' \in Nat
<1>1. IsFiniteSet(1..MaxSockets)
  BY FS_Interval, OrdersAssumption
<1>2. IsFiniteSet(Ours)
  BY <1>1, FS_Subset DEF Ours
<1>3. IsFiniteSet(Ours')
  BY <1>1, FS_Subset DEF Ours
<1> QED
  BY <1>2, <1>3, FS_CardinalityType

LEMMA TimersCount ==
  /\ loose \in Nat => Timers \in Nat /\ loose <= Timers
  /\ loose' \in Nat => Timers' \in Nat /\ loose' <= Timers'
<1>1. loose \in Nat => Timers \in Nat /\ loose <= Timers
  <2>1. Timers \in {loose, loose + 1}
    BY DEF Timers
  <2> QED
    BY <2>1
<1>2. ASSUME NEW n \in Nat, loose' = n PROVE Timers' \in Nat /\ loose' <= Timers'
  <2>1. Timers' \in {n, n + 1}
    BY <1>2 DEF Timers
  <2> QED
    BY <1>2, <2>1
<1> QED
  BY <1>1, <1>2

\* A socket goes on under its number.
LEMMA SocketMoves ==
  ASSUME NetInv, NEW s \in sockets, NEW t \in SocketType, t.id = s.id, t.mine = s.mine, Change(s, t),
         UNCHANGED <<timer, loose, gaveUp, connects, signedIn>>,
         wsRef' = wsRef \/ (s.mine /\ wsRef' = s.id)
  PROVE  NetInv'
<1>0. s \in SocketType /\ s.id \in 1..connects
  BY OrdersAssumption DEF NetInv, NetTypes, SocketsInv, SocketType
<1>1. Ours' = Ours
  BY DEF Change, Ours
<1>2. NetTypes'
  BY <1>0 DEF NetInv, NetTypes, Change, SocketType
<1>3. SocketsInv'
  BY <1>0, <1>1 DEF NetInv, SocketsInv, Change, Timers, KnownSocketIsOurs
<1>4. AlwaysListening'
  BY DEF NetInv, AlwaysListening, Change
<1> QED
  BY <1>2, <1>3, <1>4 DEF NetInv

\* A socket that waits for a token goes.
LEMMA SocketGivenUp ==
  ASSUME NetInv, NEW s \in sockets, sockets' = sockets \ {s}, gaveUp' = (gaveUp \/ s.mine),
         UNCHANGED <<wsRef, timer, loose, connects, signedIn>>
  PROVE  NetInv'
<1>0. s \in SocketType
  BY DEF NetInv, NetTypes
<1>1. Ours' \subseteq Ours
  BY DEF Ours
<1>2. Cardinality(Ours)' <= Cardinality(Ours) /\ Cardinality(Ours)' \in Nat
  BY <1>1, OursFinite, FS_Subset, FS_CardinalityType
<1>3. NetTypes'
  BY <1>0 DEF NetInv, NetTypes, SocketType
<1>4. SocketsInv'
  BY <1>2, OursFinite, OrdersAssumption DEF NetInv, NetTypes, SocketsInv, Timers, KnownSocketIsOurs
<1>5. AlwaysListening'
  BY DEF NetInv, AlwaysListening
<1> QED
  BY <1>3, <1>4, <1>5 DEF NetInv

\* A socket closes and leaves a timer.
LEMMA SocketCloses ==
  ASSUME NetInv, NEW s \in sockets, Closed(s), UNCHANGED signedIn
  PROVE  NetInv'
<1>0. s \in SocketType /\ \A t \in sockets : t.id = s.id => t = s
  BY DEF NetInv, NetTypes, SocketsInv
<1>1. /\ sockets' = sockets \ {s} /\ UNCHANGED <<wsRef, gaveUp, connects>>
      /\ timer' \in BOOLEAN /\ loose' \in Nat /\ (s.mine => timer')
      /\ Timers' = Timers + (IF s.mine THEN 1 ELSE 0)
  <2>1. timer \in BOOLEAN /\ loose \in Nat /\ s.mine \in BOOLEAN
    BY <1>0, OrdersAssumption DEF NetInv, NetTypes, SocketType
  <2>2. CASE s.mine
    BY <2>1, <2>2 DEF Closed, Timers
  <2>3. CASE ~s.mine
    BY <2>1, <2>3 DEF Closed, Timers
  <2> QED
    BY <2>1, <2>2, <2>3
<1>2. Cardinality(Ours)' + (IF s.mine THEN 1 ELSE 0) = Cardinality(Ours)
  <2>1. CASE s.mine
    <3>1. s.id \in Ours
      BY <1>0, <2>1 DEF Ours, SocketType
    <3>2. Ours' = Ours \ {s.id}
      BY <1>0, <1>1 DEF Ours
    <3>3. Cardinality(Ours \ {s.id}) = Cardinality(Ours) - 1
      BY <3>1, OursFinite, FS_RemoveElement
    <3> QED
      BY <2>1, <3>2, <3>3, OursFinite
  <2>2. CASE ~s.mine
    <3>1. Ours' = Ours
      BY <1>1, <2>2 DEF Ours
    <3> QED
      BY <2>2, <3>1, OursFinite
  <2> QED
    BY <2>1, <2>2
<1>3. Cardinality(Ours)' \in Nat /\ Timers \in Int
  <2>1. loose \in Int
    BY OrdersAssumption DEF NetInv, NetTypes
  <2> QED
    BY <2>1, OursFinite DEF Timers
<1>4. Cardinality(Ours)' + Timers' <= connects'
  BY <1>1, <1>2, <1>3, OursFinite, OrdersAssumption DEF NetInv, NetTypes, SocketsInv
<1>5. loose' <= connects' /\ connects' <= MaxSockets
  BY <1>1, <1>3, <1>4, OrdersAssumption DEF Timers, NetInv, NetTypes
<1>6. NetTypes'
  BY <1>1, <1>5, OrdersAssumption DEF NetInv, NetTypes
<1>7. SocketsInv'
  BY <1>1, <1>4 DEF NetInv, SocketsInv, KnownSocketIsOurs
<1>8. AlwaysListening'
  BY <1>0, <1>1, OrdersAssumption DEF NetInv, NetTypes, AlwaysListening, Closed
<1> QED
  BY <1>6, <1>7, <1>8 DEF NetInv

\* The backend sends an event.
LEMMA SocketsAnnounced ==
  ASSUME NetInv, Announced, UNCHANGED <<wsRef, timer, loose, gaveUp, connects, signedIn>>
  PROVE  NetInv' /\ ~Hearing'
<1> DEFINE After(s) == [s EXCEPT !.due = s.due \/ s.at = "open"]
<1>0. \A s \in sockets : s \in SocketType
  BY DEF NetInv, NetTypes
<1>1. \A s \in sockets : /\ After(s) \in SocketType /\ After(s).id = s.id /\ After(s).mine = s.mine
                         /\ After(s).at = s.at /\ (s.at = "open" => After(s).due)
  BY <1>0 DEF SocketType
<1>2. sockets' = {After(s) : s \in sockets}
  BY DEF Announced
<1> HIDE DEF After
<1>3. Ours' = Ours
  BY <1>1, <1>2 DEF Ours
<1>4. NetTypes'
  BY <1>1, <1>2 DEF NetInv, NetTypes
<1>5. SocketsInv'
  BY <1>1, <1>2, <1>3 DEF NetInv, SocketsInv, Timers, KnownSocketIsOurs
<1>6. AlwaysListening'
  BY <1>1, <1>2 DEF NetInv, AlwaysListening
<1>7. ~Hearing'
  BY <1>1, <1>2 DEF Hearing
<1> QED
  BY <1>4, <1>5, <1>6, <1>7 DEF NetInv

\* A connection is begun, in place of a timer or at a sign-in.
LEMMA SocketBegins ==
  ASSUME NetInv, Connect(sockets), signedIn' = TRUE, UNCHANGED wsRef,
         timer' \in BOOLEAN, loose' \in Nat, Timers' <= Timers
  PROVE  NetInv' /\ (Hearing' => Hearing)
<1> DEFINE new == Socket(connects + 1)
<1>0. /\ connects \in Nat /\ connects < MaxSockets /\ connects' = connects + 1 /\ MaxSockets \in Nat
      /\ sockets' = sockets \cup {new} /\ gaveUp' = FALSE /\ Timers \in Nat
  BY OrdersAssumption DEF Connect, NetInv, NetTypes, Timers
<1>1. new \in SocketType /\ new.id = connects + 1 /\ new.mine = TRUE /\ new.at = "token"
  BY <1>0 DEF Socket, SocketType
<1> HIDE DEF new
<1>2. \A s \in sockets : s \in SocketType /\ s.id <= connects
  BY DEF NetInv, NetTypes, SocketsInv
<1>3. Ours' = Ours \cup {connects + 1}
  BY <1>0, <1>1 DEF Ours
<1>4. Cardinality(Ours)' <= Cardinality(Ours) + 1
  <2>1. /\ Cardinality(Ours \cup {connects + 1}) =
              IF connects + 1 \in Ours THEN Cardinality(Ours) ELSE Cardinality(Ours) + 1
        /\ Cardinality(Ours) \in Nat
    BY OursFinite, FS_AddElement
  <2>2. Cardinality(Ours)' = Cardinality(Ours \cup {connects + 1})
    BY <1>3
  <2> QED
    BY <2>1, <2>2
<1>5. Timers' \in Nat /\ Cardinality(Ours)' + Timers' <= connects'
  <2>1. Timers' \in Nat /\ Cardinality(Ours) + Timers <= connects
    BY TimersCount DEF NetInv, SocketsInv
  <2> QED
    BY <1>0, <1>4, <2>1, OursFinite
<1>6. loose' <= MaxSockets
  <2>1. loose' <= Timers'
    BY TimersCount
  <2> QED
    BY <1>0, <1>5, <2>1, OursFinite
<1>7. NetTypes'
  <2>1. sockets' \subseteq SocketType /\ wsRef' \in 0..MaxSockets /\ gaveUp' \in BOOLEAN
    BY <1>0, <1>1 DEF NetInv, NetTypes
  <2>2. loose' \in 0..MaxSockets /\ connects' \in 0..MaxSockets
    BY <1>0, <1>6
  <2> QED
    BY <2>1, <2>2 DEF NetTypes
<1>8. SocketsInv'
  <2>1. \A s \in sockets' : s.id <= connects' /\ (s.mine => signedIn')
    BY <1>0, <1>1, <1>2 DEF SocketType
  <2>2. \A s, t \in sockets' : s.id = t.id => s = t
    BY <1>0, <1>1, <1>2 DEF NetInv, SocketsInv, SocketType
  <2>3. KnownSocketIsOurs'
    BY <1>0, <1>1 DEF NetInv, SocketsInv, KnownSocketIsOurs
  <2> QED
    BY <1>5, <2>1, <2>2, <2>3 DEF SocketsInv
<1>9. AlwaysListening'
  BY <1>0, <1>1 DEF AlwaysListening
<1> QED
  BY <1>0, <1>1, <1>7, <1>8, <1>9 DEF NetInv, Hearing

\* The session ends: what is left belongs to nobody.
LEMMA SocketsOrphaned ==
  ASSUME NetInv, signedIn' = FALSE, wsRef' = 0, timer' = FALSE, loose' = 0, UNCHANGED <<gaveUp, connects>>,
         sockets' = {[s EXCEPT !.mine = FALSE] : s \in {t \in sockets : t.id # wsRef}}
  PROVE  NetInv' /\ ~Hearing'
<1> DEFINE After(s) == [s EXCEPT !.mine = FALSE]
<1>0. \A s \in sockets : s \in SocketType
  BY DEF NetInv, NetTypes
<1>1. \A s \in sockets : After(s) \in SocketType /\ After(s).id = s.id /\ After(s).mine = FALSE
  BY <1>0 DEF SocketType
<1>2. sockets' = {After(s) : s \in {t \in sockets : t.id # wsRef}}
  OBVIOUS
<1> HIDE DEF After
<1>3. Ours' = {}
  BY <1>1, <1>2 DEF Ours
<1>4. Cardinality(Ours)' + Timers' <= connects'
  <2>1. Cardinality(Ours)' = 0 /\ Timers' = 0
    BY <1>3, FS_EmptySet DEF Timers
  <2>2. connects' \in Nat
    BY OrdersAssumption DEF NetInv, NetTypes
  <2> QED
    BY <2>1, <2>2
<1>5. NetTypes'
  <2>1. sockets' \subseteq SocketType /\ gaveUp' \in BOOLEAN /\ connects' \in 0..MaxSockets
    BY <1>1, <1>2 DEF NetInv, NetTypes
  <2>2. 0 \in 0..MaxSockets
    BY OrdersAssumption
  <2> QED
    BY <2>1, <2>2 DEF NetTypes
<1>6. SocketsInv'
  <2>1. \A s \in sockets' : s.id # 0 /\ s.id <= connects' /\ ~s.mine
    BY <1>0, <1>1, <1>2 DEF NetInv, SocketsInv, SocketType
  <2>2. \A s, t \in sockets' : s.id = t.id => s = t
    BY <1>1, <1>2 DEF NetInv, SocketsInv
  <2> QED
    BY <1>4, <2>1, <2>2 DEF SocketsInv, KnownSocketIsOurs
<1> QED
  BY <1>1, <1>2, <1>5, <1>6 DEF NetInv, AlwaysListening, Hearing

-----------------------------------------------------------------------------
(* What the order was. *)

WasTypes == was \in Seq(Row) /\ Latest >= 1

WasAfter == was' = was \/ \E r \in Row : was' = Append(was, r)

LEMMA LatestNat == ASSUME WasTypes PROVE Latest \in Nat /\ srv \in Row
BY DEF WasTypes, Latest, srv

LEMMA OneMore ==
  ASSUME WasTypes, NEW r \in Row, was' = Append(was, r)
  PROVE  /\ WasTypes' /\ Latest' = Latest + 1 /\ was'[Latest + 1] = r
         /\ \A v \in 1..Latest : was'[v] = was[v]
<1>1. /\ Append(was, r) \in Seq(Row) /\ Len(Append(was, r)) = Len(was) + 1
      /\ \A v \in 1..Len(was) : Append(was, r)[v] = was[v]
      /\ Append(was, r)[Len(was) + 1] = r
  BY AppendProperties DEF WasTypes
<1> QED
  BY <1>1, LatestNat DEF WasTypes, Latest

LEMMA HistoryGrows ==
  ASSUME WasTypes, WasAfter
  PROVE  /\ WasTypes' /\ Latest' \in Nat /\ Latest' \in {Latest, Latest + 1}
         /\ \A v \in 1..Latest : was'[v] = was[v]
<1>1. CASE was' = was
  BY <1>1, LatestNat DEF WasTypes, Latest
<1>2. ASSUME NEW r \in Row, was' = Append(was, r)
      PROVE  /\ WasTypes' /\ Latest' \in Nat /\ Latest' \in {Latest, Latest + 1}
             /\ \A v \in 1..Latest : was'[v] = was[v]
  <2>1. WasTypes' /\ Latest' = Latest + 1 /\ Latest \in Nat /\ \A v \in 1..Latest : was'[v] = was[v]
    BY <1>2, OneMore, LatestNat
  <2> QED
    BY <2>1
<1> QED
  BY <1>1, <1>2 DEF WasAfter

LEMMA BecomesRow ==
  ASSUME NEW order \in OrderStatus, NEW payment \in PaymentStatus, Becomes(order, payment)
  PROVE  \E r \in Row : r.payment = payment /\ r.order = order /\ was' = Append(was, r)
<1>1. [order |-> order, payment |-> payment] \in Row
  BY DEF Row
<1> QED
  BY <1>1 DEF Becomes

\* An answer of the gateway is taken and announced, or there was none.
LEMMA SettlesStep ==
  ASSUME WasTypes, Settles
  PROVE  /\ srv.payment = "PROCESSING" /\ captured' = FALSE /\ Announced
         /\ \E r \in Row : r.payment = "PAID" /\ was' = Append(was, r)
<1>1. PICK order \in OrderStatus : Becomes(order, "PAID")
  BY LatestNat DEF Settles, Row, OrderStatus
<1>2. \E r \in Row : r.payment = "PAID" /\ was' = Append(was, r)
  BY <1>1, BecomesRow DEF PaymentStatus
<1> QED
  BY <1>2 DEF Settles

LEMMA VerifiedStep ==
  ASSUME WasTypes, Verified
  PROVE  /\ \/ UNCHANGED <<was, captured, sockets>>
            \/ /\ srv.payment = "PROCESSING" /\ captured' = FALSE /\ Announced
               /\ \E r \in Row : r.payment = "PAID" /\ was' = Append(was, r)
         /\ WasAfter
<1>1. CASE UNCHANGED <<was, captured, sockets>>
  BY <1>1 DEF WasAfter
<1>2. CASE Settles
  BY <1>2, SettlesStep DEF WasAfter
<1> QED
  BY <1>1, <1>2 DEF Verified

LEMMA NewAttemptStep ==
  ASSUME WasTypes, NewAttempt \/ Rejected
  PROVE  \E r \in Row : was' = Append(was, r)
<1>1. srv.order \in OrderStatus /\ "PROCESSING" \in PaymentStatus /\ "FAILED" \in PaymentStatus
  BY LatestNat DEF Row, PaymentStatus
<1> QED
  BY <1>1, BecomesRow DEF NewAttempt, Rejected

\* An attempt that was given up: what changes the payment is announced, or noted.
LEMMA LateStep ==
  ASSUME WasTypes, LateBegins \/ LateEnds
  PROVE  /\ \/ UNCHANGED <<was, unsaid>>
            \/ Announced /\ UNCHANGED unsaid
            \/ unsaid' = Latest' /\ \E r \in Row : was' = Append(was, r)
         /\ WasAfter
         /\ Announced \/ UNCHANGED sockets
         /\ captured' \in {captured, FALSE}
<1>1. CASE LateBegins
  BY <1>1, NewAttemptStep DEF LateBegins, WasAfter, net
<1>2. CASE LateEnds
  <2>1. CASE Verified /\ UNCHANGED unsaid
    BY <2>1, VerifiedStep
  <2>2. CASE Rejected /\ unsaid' = Latest'
    BY <2>2, NewAttemptStep DEF Rejected, WasAfter
  <2>3. CASE UNCHANGED <<was, captured, sockets, unsaid>>
    BY <2>3 DEF WasAfter
  <2> QED
    BY <1>2, <2>1, <2>2, <2>3 DEF LateEnds
<1> QED
  BY <1>1, <1>2

\* An order that moves on without the customer: what changes the payment is announced.
LEMMA OthersStep ==
  ASSUME WasTypes, OthersChange
  PROVE  /\ \E r \in Row : was' = Append(was, r) /\ (r.payment = srv.payment \/ Announced)
         /\ Announced \/ UNCHANGED sockets
         /\ captured' \in {captured, FALSE} /\ UNCHANGED unsaid
<1>1. srv.order \in OrderStatus /\ srv.payment \in PaymentStatus
  BY LatestNat DEF Row
<1>2. CASE Settles
  BY <1>2, SettlesStep DEF OthersChange
<1>3. CASE ~Settles
  <2>1. \E order \in OrderStatus, payment \in PaymentStatus :
           Becomes(order, payment) /\ (payment = srv.payment \/ Announced)
    BY <1>1, <1>3 DEF OthersChange, OrderTransitions, OrderStatus, PaymentStatus
  <2>2. \E r \in Row : was' = Append(was, r) /\ (r.payment = srv.payment \/ Announced)
    BY <2>1, BecomesRow
  <2> QED
    BY <1>3, <2>2 DEF OthersChange
<1> QED
  BY <1>2, <1>3

LEMMA ServeCancelStep ==
  ASSUME WasTypes, ServeCancel
  PROVE  \/ (\E r \in Row : r.payment = srv.payment /\ was' = Append(was, r)) /\ Announced /\ cancel' = "ok"
         \/ UNCHANGED <<was, sockets>> /\ cancel' = "refused"
<1>1. "CANCELLED" \in OrderStatus /\ srv.payment \in PaymentStatus
  BY LatestNat DEF Row, OrderStatus
<1> QED
  BY <1>1, BecomesRow DEF ServeCancel

LEMMA StepHistory == ASSUME WasTypes, [Next]_vars PROVE WasAfter
<1>1. CASE OthersChange
  BY <1>1, OthersStep DEF WasAfter
<1>2. CASE ServeCancel
  BY <1>2, ServeCancelStep DEF WasAfter
<1>3. CASE VerifyAnswered \/ CheckAnswered
  BY <1>3, VerifiedStep DEF VerifyAnswered, CheckAnswered
<1>4. CASE RetryServed \/ InitiateAnswered
  BY <1>4, VerifiedStep, NewAttemptStep DEF RetryServed, InitiateAnswered, WasAfter
<1>5. CASE PayFails
  BY <1>5, VerifiedStep, NewAttemptStep DEF PayFails, WasAfter
<1>5a. CASE LateBegins \/ LateEnds
  BY <1>5a, LateStep
<1>6. ASSUME NEW s \in sockets, TokenArrives(s) \/ Opens(s) \/ Hears(s) \/ TokenFails(s) \/ Breaks(s) \/ Dies(s)
      PROVE  WasAfter
  BY <1>6 DEF TokenArrives, Opens, Hears, TokenFails, Breaks, Dies, backend, WasAfter
<1>7. ASSUME NEW k \in Keys, Refetch(k) \/ ReadArrives(k) \/ ReadFails(k)
      PROVE  WasAfter
  BY <1>7 DEF Refetch, ReadArrives, ReadFails, backend, WasAfter
<1>8. CASE \/ Poll \/ OpenOrder \/ LeaveOrder \/ Heartbeat \/ TimerFires \/ ToBackground \/ ToForeground
           \/ SignOut \/ SignIn \/ PushArrives \/ Cancel \/ CancelAnswered \/ CancelFails
           \/ PressPay \/ PaymentRead \/ CheckoutAnswered \/ SheetCloses \/ UNCHANGED vars
  BY <1>8 DEF Poll, OpenOrder, LeaveOrder, Heartbeat, TimerFires, ToBackground, ToForeground, SignOut, SignIn,
     PushArrives, Cancel, CancelAnswered, CancelFails, PressPay, PaymentRead, CheckoutAnswered, SheetCloses,
     vars, backend, WasAfter
<1> QED
  BY <1>1, <1>2, <1>3, <1>4, <1>5, <1>5a, <1>6, <1>7, <1>8 DEF Next, AnySocket

-----------------------------------------------------------------------------
(* What a step does to the sockets, and to what the app has heard. *)

HeardAfter ==
  \/ ~Hearing'
  \/ pay' # "none"
  \/ Refresh(Keys, Latest') /\ UNCHANGED signedIn
  \/ /\ Hearing' => Hearing
     /\ UNCHANGED told /\ pay = "none"
     /\ \/ UNCHANGED <<was, unsaid>>
        \/ unsaid' = Latest' /\ \E r \in Row : was' = Append(was, r)
        \/ UNCHANGED unsaid /\ \E r \in Row : was' = Append(was, r) /\ r.payment = srv.payment

NetAfter == NetInv' /\ HeardAfter

LEMMA NetStill ==
  ASSUME NetInv, UNCHANGED <<net, signedIn>>
  PROVE  NetInv' /\ Hearing' = Hearing
<1>1. Ours' = Ours /\ Timers' = Timers
  BY DEF net, Ours, Timers
<1> QED
  BY <1>1 DEF NetInv, NetTypes, SocketsInv, KnownSocketIsOurs, AlwaysListening, net, Hearing

\* Steps that leave the sockets, the news and the order alone.
LEMMA QuietStep ==
  ASSUME NetInv, UNCHANGED <<net, signedIn, told, was, unsaid>>, pay' = pay \/ pay' # "none"
  PROVE  NetAfter
BY NetStill DEF NetAfter, HeardAfter

\* A change of the order is announced, or the sockets are left alone.
LEMMA SocketsAfterChange ==
  ASSUME NetInv, Announced \/ UNCHANGED sockets, UNCHANGED <<wsRef, timer, loose, gaveUp, connects, signedIn>>
  PROVE  NetInv' /\ (Hearing' => Hearing) /\ (Announced => ~Hearing')
BY SocketsAnnounced, NetStill DEF net

\* A token arrives, a socket opens, an event is heard, a socket dies.
LEMMA MovingStep ==
  ASSUME NetInv, NEW s \in sockets, TokenArrives(s) \/ Opens(s) \/ Hears(s) \/ Dies(s)
  PROVE  NetAfter
<1>0. s \in SocketType
  BY DEF NetInv, NetTypes
<1>1. CASE TokenArrives(s) /\ ~s.mine
  <2>1. /\ sockets' = sockets \ {s} /\ gaveUp' = (gaveUp \/ s.mine)
        /\ UNCHANGED <<wsRef, timer, loose, connects, signedIn, told, was, unsaid, pay>>
    BY <1>1 DEF TokenArrives, backend, app, NetInv, NetTypes
  <2>2. NetInv'
    BY <2>1, SocketGivenUp
  <2> QED
    BY <2>1, <2>2 DEF NetAfter, HeardAfter, Hearing
<1>2. CASE TokenArrives(s) /\ s.mine
  <2> DEFINE t == [s EXCEPT !.at = "connecting"]
  <2>1. t \in SocketType /\ t.id = s.id /\ t.mine = s.mine /\ t.at = "connecting"
    BY <1>0 DEF SocketType
  <2>2. /\ Change(s, t) /\ wsRef' = s.id
        /\ UNCHANGED <<timer, loose, gaveUp, connects, signedIn, told, was, unsaid, pay>>
    BY <1>2 DEF TokenArrives, backend, app
  <2> HIDE DEF t
  <2>3. NetInv'
    BY <1>2, <2>1, <2>2, SocketMoves
  <2> QED
    BY <2>1, <2>2, <2>3 DEF NetAfter, HeardAfter, Hearing, Change
<1>3. CASE Opens(s) \/ Hears(s)
  <2> DEFINE t == IF Opens(s) THEN [s EXCEPT !.at = "open"] ELSE [s EXCEPT !.due = FALSE]
  <2>1. t \in SocketType /\ t.id = s.id /\ t.mine = s.mine
    BY <1>0 DEF SocketType
  <2>2. Change(s, t) /\ UNCHANGED <<wsRef, timer, loose, gaveUp, connects, signedIn, was>>
    BY <1>3 DEF Opens, Hears, backend, app
  <2> HIDE DEF t
  <2>3. NetInv'
    BY <2>1, <2>2, SocketMoves
  <2>4. Invalidate(Keys)
    BY <1>3 DEF Opens, Hears
  <2>5. Refresh(Keys, Latest')
    BY <2>2, <2>4 DEF Invalidate, Latest
  <2> QED
    BY <2>2, <2>3, <2>5 DEF NetAfter, HeardAfter
<1>4. CASE Dies(s)
  <2> DEFINE t == [s EXCEPT !.at = "dead", !.due = FALSE]
  <2>1. t \in SocketType /\ t.id = s.id /\ t.mine = s.mine /\ t.at = "dead"
    BY <1>0 DEF SocketType
  <2>2. /\ Change(s, t)
        /\ UNCHANGED <<wsRef, timer, loose, gaveUp, connects, signedIn, told, was, unsaid, pay>>
    BY <1>4 DEF Dies, backend, app
  <2> HIDE DEF t
  <2>3. NetInv'
    BY <2>1, <2>2, SocketMoves
  <2> QED
    BY <2>1, <2>2, <2>3 DEF NetAfter, HeardAfter, Hearing, Change
<1> QED
  BY <1>1, <1>2, <1>3, <1>4

\* A token fails, a socket breaks or is found dead.
LEMMA ClosingStep ==
  ASSUME NetInv, NEW s \in sockets,
         TokenFails(s) \/ (Closed(s) /\ UNCHANGED <<signedIn, told, was, unsaid, pay>>)
  PROVE  NetAfter
<1>1. CASE TokenFails(s)
  <2>1. /\ sockets' = sockets \ {s} /\ gaveUp' = (gaveUp \/ s.mine)
        /\ UNCHANGED <<wsRef, timer, loose, connects, signedIn, told, was, unsaid, pay>>
    BY <1>1 DEF TokenFails, backend, app
  <2>2. NetInv'
    BY <2>1, SocketGivenUp
  <2> QED
    BY <2>1, <2>2 DEF NetAfter, HeardAfter, Hearing
<1>2. CASE Closed(s) /\ UNCHANGED <<signedIn, told, was, unsaid, pay>>
  <2>1. NetInv'
    BY <1>2, SocketCloses
  <2> QED
    BY <1>2, <2>1 DEF NetAfter, HeardAfter, Hearing, Closed
<1> QED
  BY <1>1, <1>2

LEMMA TimerCleared ==
  ASSUME loose \in Nat, timer' = FALSE, UNCHANGED loose
  PROVE  Timers' <= Timers /\ timer' \in BOOLEAN /\ loose' \in Nat
<1>1. Timers' = loose
  BY DEF Timers
<1>2. loose <= Timers
  BY TimersCount
<1> QED
  BY <1>1, <1>2

LEMMA ConnectingStep ==
  ASSUME NetInv, TimerFires \/ ToForeground \/ SignIn
  PROVE  NetAfter
<1>0. loose \in Nat /\ timer \in BOOLEAN
  BY OrdersAssumption DEF NetInv, NetTypes
<1>1. CASE /\ Connect(sockets) /\ signedIn' = TRUE /\ UNCHANGED <<wsRef, was, unsaid>>
           /\ timer' \in BOOLEAN /\ loose' \in Nat /\ Timers' <= Timers
           /\ (UNCHANGED <<told, pay>>) \/ (Invalidate(Keys) /\ UNCHANGED signedIn)
  <2>1. NetInv' /\ (Hearing' => Hearing)
    BY <1>1, SocketBegins
  <2>2. Invalidate(Keys) => Refresh(Keys, Latest')
    BY <1>1 DEF Invalidate, Latest
  <2> QED
    BY <1>1, <2>1, <2>2 DEF NetAfter, HeardAfter
<1>2. CASE TimerFires
  <2>1. Timers' <= Timers /\ timer' \in BOOLEAN /\ loose' \in Nat
    <3>1. CASE timer /\ timer' = FALSE /\ UNCHANGED loose
      BY <1>0, <3>1, TimerCleared
    <3>2. CASE loose > 0 /\ loose' = loose - 1 /\ UNCHANGED timer
      BY <1>0, <3>2 DEF Timers
    <3> QED
      BY <1>2, <3>1, <3>2 DEF TimerFires
  <2> QED
    BY <1>1, <1>2, <2>1 DEF TimerFires, backend, app, NetInv
<1>3. CASE SignIn
  <2>1. Timers' <= Timers /\ timer' \in BOOLEAN /\ loose' \in Nat
    BY <1>0, <1>3 DEF SignIn, Timers
  <2> QED
    BY <1>1, <1>3, <2>1 DEF SignIn, backend
<1>4. CASE ToForeground
  <2>1. CASE ~signedIn
    BY <1>4, <2>1, QuietStep DEF ToForeground, backend, net
  <2>2. CASE signedIn /\ TakenForOpen
    <3>1. UNCHANGED <<net, signedIn, was>> /\ Invalidate(Keys)
      BY <1>4, <2>2 DEF ToForeground, backend, net
    <3>2. Refresh(Keys, Latest')
      BY <3>1 DEF Invalidate, Latest
    <3> QED
      BY <3>1, <3>2, NetStill DEF NetAfter, HeardAfter
  <2>3. CASE signedIn /\ ~TakenForOpen
    <3>1. Timers' <= Timers /\ timer' \in BOOLEAN /\ loose' \in Nat
      BY <1>0, <1>4, <2>3, TimerCleared DEF ToForeground
    <3> QED
      BY <1>1, <1>4, <2>3, <3>1 DEF ToForeground, backend, NetInv
  <2> QED
    BY <2>1, <2>2, <2>3 DEF NetInv
<1> QED
  BY <1>2, <1>3, <1>4

\* A request of the customer, and the backend.
LEMMA RequestStep ==
  ASSUME NetInv, WasTypes,
         \/ VerifyAnswered \/ RetryServed \/ InitiateAnswered
         \/ CheckoutAnswered \/ CheckAnswered \/ PayFails
  PROVE  NetAfter
<1>1. Announced \/ UNCHANGED sockets
  BY VerifiedStep
  DEF VerifyAnswered, RetryServed, InitiateAnswered, Rejected, CheckoutAnswered, CheckAnswered, PayFails, net
<1>2. UNCHANGED <<wsRef, timer, loose, gaveUp, connects, signedIn>>
  BY DEF VerifyAnswered, RetryServed, InitiateAnswered, CheckoutAnswered, CheckAnswered, PayFails, net, app
<1>3. pay' = "none" => Refresh(Keys, Latest')
  BY DEF VerifyAnswered, RetryServed, InitiateAnswered, CheckoutAnswered, CheckAnswered, PayFails, EndsAt,
         Continues
<1> QED
  BY <1>1, <1>2, <1>3, SocketsAfterChange DEF NetAfter, HeardAfter

LEMMA BackendStep ==
  ASSUME NetInv, WasTypes, OthersChange \/ ServeCancel \/ LateBegins \/ LateEnds
  PROVE  NetAfter
<1>1. /\ Announced \/ UNCHANGED sockets
      /\ UNCHANGED <<wsRef, timer, loose, gaveUp, connects, signedIn, told, pay>>
      /\ \/ UNCHANGED <<was, unsaid>>
         \/ Announced
         \/ unsaid' = Latest' /\ \E r \in Row : was' = Append(was, r)
         \/ UNCHANGED unsaid /\ \E r \in Row : was' = Append(was, r) /\ r.payment = srv.payment
  <2>1. CASE OthersChange \/ ServeCancel
    BY <2>1, OthersStep, ServeCancelStep DEF OthersChange, ServeCancel, app
  <2>2. CASE LateBegins \/ LateEnds
    BY <2>2, LateStep DEF LateBegins, LateEnds, app, net
  <2> QED
    BY <2>1, <2>2
<1> QED
  BY <1>1, SocketsAfterChange DEF NetAfter, HeardAfter

LEMMA StepNet == ASSUME NetInv, WasTypes, [Next]_vars PROVE NetAfter
<1>1. CASE \/ Poll \/ OpenOrder \/ LeaveOrder \/ ToBackground \/ Cancel \/ CancelFails
           \/ PressPay \/ PaymentRead \/ SheetCloses \/ UNCHANGED vars
  <2>1. UNCHANGED <<net, signedIn, told, was, unsaid>> /\ (pay' = pay \/ pay' # "none")
    BY <1>1 DEF Poll, OpenOrder, LeaveOrder, ToBackground, Cancel, CancelFails, PressPay, PaymentRead,
                SheetCloses, vars, backend, app
  <2> QED
    BY <2>1, QuietStep
<1>2. ASSUME NEW k \in Keys, Refetch(k) \/ ReadArrives(k) \/ ReadFails(k) PROVE NetAfter
  <2>1. UNCHANGED <<net, signedIn, told, was, unsaid, pay>>
    BY <1>2 DEF Refetch, ReadArrives, ReadFails, backend, app
  <2> QED
    BY <2>1, QuietStep
<1>3. CASE PushArrives \/ CancelAnswered
  <2>1. UNCHANGED <<net, signedIn, was>> /\ Invalidate(Keys)
    <3>1. OrderKeys \cup {"orders"} = Keys
      BY DEF OrderKeys, Keys
    <3> QED
      BY <1>3, <3>1 DEF PushArrives, CancelAnswered, backend, app
  <2>2. Refresh(Keys, Latest')
    BY <2>1 DEF Invalidate, Latest
  <2> QED
    BY <2>1, <2>2, NetStill DEF NetAfter, HeardAfter
<1>4. ASSUME NEW s \in sockets, TokenArrives(s) \/ Opens(s) \/ Hears(s) \/ Dies(s) PROVE NetAfter
  BY <1>4, MovingStep
<1>5. ASSUME NEW s \in sockets, TokenFails(s) \/ Breaks(s) PROVE NetAfter
  BY <1>5, ClosingStep DEF Breaks, backend, app
<1>6. CASE Heartbeat
  BY <1>6, ClosingStep DEF Heartbeat, backend, app
<1>7. CASE SignOut
  <2>1. NetInv' /\ ~Hearing'
    BY <1>7, SocketsOrphaned DEF SignOut
  <2> QED
    BY <2>1 DEF NetAfter, HeardAfter
<1> QED
  BY <1>1, <1>2, <1>3, <1>4, <1>5, <1>6, <1>7, ConnectingStep, RequestStep, BackendStep DEF Next, AnySocket

-----------------------------------------------------------------------------
(* Since the app was told, the payment has not changed. *)

LEMMA HeardKept == ASSUME IInv, WasTypes, WasAfter, NetAfter PROVE HeardAll'
<1>0. /\ WasTypes' /\ Latest' \in Nat /\ Latest \in Nat
      /\ \A v \in 1..Latest : was'[v] = was[v]
  BY HistoryGrows, LatestNat
<1>1. CASE ~Hearing' \/ pay' # "none"
  BY <1>1 DEF HeardAll
<1>2. CASE Refresh(Keys, Latest') /\ UNCHANGED signedIn
  <2>1. CASE signedIn
    <3>1. told'["payment"] = Latest' /\ Latest' >= 1
      BY <1>0, <1>2, <2>1 DEF Refresh, Keys, WasTypes
    <3>2. \A v \in Latest'..Latest' : v = Latest'
      BY <1>0
    <3> QED
      BY <1>0, <3>1, <3>2 DEF HeardAll, srv
  <2>2. CASE ~signedIn
    BY <1>2, <2>2 DEF NetAfter, NetInv, SocketsInv, HeardAll, Hearing
  <2> QED
    BY <2>1, <2>2
<1>3. CASE /\ Hearing' => Hearing
           /\ UNCHANGED told /\ pay = "none"
           /\ \/ UNCHANGED <<was, unsaid>>
              \/ unsaid' = Latest' /\ \E r \in Row : was' = Append(was, r)
              \/ UNCHANGED unsaid /\ \E r \in Row : was' = Append(was, r) /\ r.payment = srv.payment
  <2> SUFFICES ASSUME Hearing'
               PROVE  /\ told'["payment"] # 0
                      /\ \A v \in told'["payment"]..Latest' : v >= unsaid' => was'[v].payment = srv'.payment
    BY DEF HeardAll
  <2>1. told["payment"] \in Nat /\ told["payment"] # 0
        /\ \A v \in told["payment"]..Latest : v >= unsaid => was[v].payment = srv.payment
    BY <1>0, <1>3 DEF IInv, TypeOK, HeardAll, Keys
  <2>2. CASE UNCHANGED <<was, unsaid>>
    BY <1>3, <2>1, <2>2 DEF srv, Latest
  <2>3. ASSUME NEW r \in Row, was' = Append(was, r), r.payment = srv.payment, UNCHANGED unsaid
        PROVE  \A v \in told["payment"]..Latest' : v >= unsaid => was'[v].payment = srv'.payment
    <3>1. Latest' = Latest + 1 /\ was'[Latest + 1] = r /\ \A v \in 1..Latest : was'[v] = was[v]
      BY <2>3, OneMore
    <3>2. srv'.payment = srv.payment
      BY <2>3, <3>1 DEF srv
    <3>3. \A v \in told["payment"]..Latest' : v \in told["payment"]..Latest \/ v = Latest + 1
      BY <1>0, <2>1, <3>1
    <3>4. \A v \in told["payment"]..Latest : v \in 1..Latest
      BY <1>0, <2>1
    <3> QED
      BY <2>1, <2>3, <3>1, <3>2, <3>3, <3>4
  <2>4. CASE unsaid' = Latest'
    <3>1. \A v \in told["payment"]..Latest' : v >= Latest' => v = Latest'
      BY <1>0, <2>1
    <3> QED
      BY <1>3, <2>1, <2>4, <3>1 DEF srv
  <2> QED
    BY <1>3, <2>1, <2>2, <2>3, <2>4
<1> QED
  BY <1>1, <1>2, <1>3 DEF NetAfter, HeardAfter

-----------------------------------------------------------------------------
(* Reads. *)

ReadsTypes ==
  /\ q \in [Keys -> ReadType(Latest)] /\ told \in [Keys -> 0..Latest]
  /\ signedIn \in BOOLEAN

ReadsOK == ReadsTypes /\ ReadsInv

LEMMA MoreReads == ASSUME NEW m \in Nat, NEW n \in Nat, m <= n, NEW r \in ReadType(m) PROVE r \in ReadType(n)
BY DEF ReadType

LEMMA StartIsFresh ==
  ASSUME NEW n \in Nat, n >= 1, NEW r \in ReadType(n), NEW m \in 0..n, NEW shown \in BOOLEAN
  PROVE  Start(r, n) \in ReadType(n) /\ Fresh(Start(r, n), m, shown)
<1> DEFINE t == Start(r, n)
<1>0. n \in 0..n
  OBVIOUS
<1>1. t \in ReadType(n) /\ t.since = n
  BY <1>0 DEF Start, ReadType
<1> HIDE DEF t
<1>2. Fresh(t, m, shown)
  BY <1>1 DEF Fresh
<1> QED
  BY <1>1, <1>2 DEF t

LEMMA RereadIsFresh ==
  ASSUME NEW n \in Nat, n >= 1, NEW k \in Keys, q[k] \in ReadType(n), Mounted(k) \in BOOLEAN
  PROVE  Reread(k, n) \in ReadType(n) /\ Fresh(Reread(k, n), n, Mounted(k))
<1> DEFINE t == Reread(k, n)
<1>1. CASE ~Mounted(k)
  <2>1. /\ t \in ReadType(n) /\ t.since = q[k].since /\ t.data = q[k].data
        /\ t.old = (q[k].data # 0) /\ t.owed = (q[k].since # 0)
    BY <1>1 DEF Reread, ReadType
  <2> HIDE DEF t
  <2>2. Fresh(t, n, Mounted(k))
    BY <1>1, <2>1 DEF Fresh
  <2> QED
    BY <2>1, <2>2 DEF t
<1>2. CASE Mounted(k) /\ q[k].data = 0 /\ q[k].since # 0
  <2>1. t \in ReadType(n) /\ t.since = q[k].since /\ t.owed = TRUE
    BY <1>2 DEF Reread, ReadType
  <2> HIDE DEF t
  <2>2. Fresh(t, n, Mounted(k))
    BY <2>1 DEF Fresh
  <2> QED
    BY <2>1, <2>2 DEF t
<1>3. CASE Mounted(k) /\ ~(q[k].data = 0 /\ q[k].since # 0)
  <2>0. n \in 0..n /\ t = [Start(q[k], n) EXCEPT !.old = TRUE]
    BY <1>3 DEF Reread
  <2>1. t \in ReadType(n) /\ t.since = n
    BY <2>0 DEF Start, ReadType
  <2> HIDE DEF t
  <2>2. Fresh(t, n, Mounted(k))
    BY <2>1 DEF Fresh
  <2> QED
    BY <2>1, <2>2 DEF t
<1> QED
  BY <1>1, <1>2, <1>3

\* Nothing is read, and nothing more is shown.
LEMMA ReadsStill ==
  ASSUME ReadsOK, WasTypes, WasAfter, UNCHANGED <<q, told, signedIn>>, screen' = screen \/ screen' = "list"
  PROVE  ReadsOK'
<1>1. Latest \in Nat /\ Latest' \in Nat /\ Latest <= Latest'
  BY HistoryGrows, LatestNat
<1>2. ReadsTypes'
  <2>1. \A k \in Keys : q'[k] \in ReadType(Latest') /\ told'[k] \in 0..Latest'
    BY <1>1, MoreReads DEF ReadsOK, ReadsTypes
  <2> QED
    BY <2>1 DEF ReadsOK, ReadsTypes
<1>3. ReadsInv'
  BY DEF ReadsOK, ReadsInv, Fresh, Mounted
<1> QED
  BY <1>2, <1>3 DEF ReadsOK

\* Everything is read again.
LEMMA ReadsRefreshed ==
  ASSUME ReadsOK, WasTypes, WasAfter, Refresh(Keys, Latest'), UNCHANGED <<signedIn, screen>>
  PROVE  ReadsOK'
<1>1. Latest \in Nat /\ Latest' \in Nat /\ Latest <= Latest' /\ Latest' >= 1
  BY HistoryGrows, LatestNat DEF WasTypes
<1>2. ASSUME NEW k \in Keys
      PROVE  /\ q'[k] \in ReadType(Latest') /\ told'[k] \in 0..Latest'
             /\ Fresh(q'[k], told'[k], Mounted(k)')
             /\ ~signedIn' => q'[k] = NoRead
  <2>1. q'[k] = Reread(k, Latest') /\ told'[k] = (IF signedIn THEN Latest' ELSE 0)
    BY DEF Refresh
  <2>2. q[k] \in ReadType(Latest') /\ Mounted(k) \in BOOLEAN /\ Mounted(k)' = Mounted(k)
    BY <1>1, MoreReads DEF ReadsOK, ReadsTypes, Mounted
  <2>3. q'[k] \in ReadType(Latest') /\ Fresh(q'[k], Latest', Mounted(k))
    BY <1>1, <2>1, <2>2, RereadIsFresh
  <2>4. CASE signedIn
    BY <1>1, <2>1, <2>2, <2>3, <2>4
  <2>5. CASE ~signedIn
    <3>1. q[k] = NoRead /\ ~Mounted(k)
      BY <2>5 DEF ReadsOK, ReadsInv, Mounted
    <3>2. q'[k] = NoRead
      <4>1. q'[k] = [NoRead EXCEPT !.old = (NoRead.data # 0), !.owed = (NoRead.since # 0)]
        BY <2>1, <3>1 DEF Reread
      <4>2. (NoRead.data # 0) = FALSE /\ (NoRead.since # 0) = FALSE
        BY DEF NoRead
      <4> QED
        BY <4>1, <4>2 DEF NoRead
    <3>3. Fresh(NoRead, 0, Mounted(k)) /\ told'[k] = 0
      BY <2>1, <2>5 DEF Fresh, NoRead
    <3> QED
      BY <1>1, <2>2, <2>3, <3>2, <3>3
  <2> QED
    BY <2>4, <2>5 DEF ReadsOK, ReadsTypes
<1>3. q' \in [Keys -> ReadType(Latest')] /\ told' \in [Keys -> 0..Latest']
  <2>1. q' = [k \in Keys |-> q'[k]] /\ told' = [k \in Keys |-> told'[k]]
    BY DEF Refresh
  <2> QED
    BY <1>2, <2>1
<1> QED
  BY <1>2, <1>3 DEF ReadsOK, ReadsTypes, ReadsInv

\* One read starts, is answered or fails.
LEMMA OneRead ==
  ASSUME ReadsOK, WasTypes, NEW k \in Keys, signedIn,
         NEW r \in ReadType(Latest), q' = [q EXCEPT ![k] = r], Fresh(r, told[k], Mounted(k)),
         UNCHANGED <<was, told, signedIn, screen>>
  PROVE  ReadsOK'
<1>1. ReadsTypes'
  BY DEF ReadsOK, ReadsTypes, Latest
<1>2. ReadsInv'
  BY DEF ReadsOK, ReadsTypes, ReadsInv, Mounted
<1> QED
  BY <1>1, <1>2 DEF ReadsOK

LEMMA ReadStep ==
  ASSUME ReadsOK, WasTypes, NEW k \in Keys,
         (k = "order" /\ Poll) \/ Refetch(k) \/ ReadArrives(k) \/ ReadFails(k)
  PROVE  ReadsOK'
<1>0. /\ q[k] \in ReadType(Latest) /\ told[k] \in 0..Latest /\ Latest \in Nat /\ Latest >= 1
      /\ Fresh(q[k], told[k], Mounted(k)) /\ Mounted(k) \in BOOLEAN /\ q \in [Keys -> ReadType(Latest)]
  BY LatestNat DEF ReadsOK, ReadsTypes, ReadsInv, WasTypes, Mounted
<1>1. UNCHANGED <<was, told, signedIn, screen>>
  BY DEF Poll, Refetch, ReadArrives, ReadFails, backend, app
<1>2. signedIn
  <2>1. q[k].since = 0 => Mounted(k)
    BY DEF Poll, Refetch, ReadArrives, ReadFails
  <2> QED
    BY <2>1 DEF Mounted, ReadsOK, ReadsTypes, ReadsInv, NoRead
<1>3. CASE (k = "order" /\ Poll) \/ Refetch(k)
  <2>1. q' = [q EXCEPT ![k] = Start(q[k], Latest)]
    BY <1>3 DEF Poll, Refetch
  <2>2. Start(q[k], Latest) \in ReadType(Latest) /\ Fresh(Start(q[k], Latest), told[k], Mounted(k))
    BY ONLY <1>0, StartIsFresh
  <2> QED
    BY <1>1, <1>2, <2>1, <2>2, OneRead
<1>4. CASE ReadArrives(k)
  <2>1. PICK v \in q[k].since..Latest : q' = [q EXCEPT ![k] = [NoRead EXCEPT !.data = v, !.owed = q[k].owed]]
    BY <1>4 DEF ReadArrives
  <2> DEFINE r == [NoRead EXCEPT !.data = v, !.owed = q[k].owed]
  <2>2. q[k].since \in 0..Latest /\ q[k].since # 0 /\ q[k].owed \in BOOLEAN
    BY <1>0, <1>4 DEF ReadType, ReadArrives
  <2>2a. 0 \in 0..Latest /\ v \in 0..Latest
    BY <1>0, <2>1, <2>2
  <2>3. r \in ReadType(Latest) /\ r.since = 0 /\ r.data = v /\ r.owed = q[k].owed
    BY <2>2, <2>2a DEF NoRead, ReadType
  <2>4. q' = [q EXCEPT ![k] = r]
    BY <2>1
  <2> HIDE DEF r
  <2>5. Fresh(r, told[k], Mounted(k))
    BY <1>0, <2>1, <2>2, <2>3 DEF Fresh
  <2> QED
    BY <1>1, <1>2, <2>3, <2>4, <2>5, OneRead
<1>5. CASE ReadFails(k)
  <2> DEFINE r == [q[k] EXCEPT !.since = 0, !.owed = TRUE]
  <2>1. q' = [q EXCEPT ![k] = r]
    BY <1>0, <1>5 DEF ReadFails, ReadType
  <2>1a. 0 \in 0..Latest
    BY <1>0
  <2>2. r \in ReadType(Latest) /\ r.since = 0 /\ r.owed = TRUE
    BY <1>0, <2>1a DEF ReadType
  <2> HIDE DEF r
  <2>3. Fresh(r, told[k], Mounted(k))
    BY <2>2 DEF Fresh
  <2> QED
    BY <1>1, <1>2, <2>1, <2>2, <2>3, OneRead
<1> QED
  BY <1>3, <1>4, <1>5

\* The order's screen opens; a session begins or ends.
LEMMA ScreenStep ==
  ASSUME ReadsOK, WasTypes, OpenOrder \/ SignIn \/ SignOut
  PROVE  ReadsOK'
<1>0. /\ Latest \in Nat /\ Latest >= 1 /\ UNCHANGED was /\ Latest' = Latest
      /\ \A k \in Keys : q[k] \in ReadType(Latest) /\ told[k] \in 0..Latest
  BY LatestNat DEF OpenOrder, SignIn, SignOut, backend, WasTypes, Latest, ReadsOK, ReadsTypes
<1>1. CASE OpenOrder
  <2>1. ASSUME NEW k \in Keys
        PROVE  q'[k] \in ReadType(Latest) /\ Fresh(q'[k], told[k], Mounted(k)')
    <3>1. Fresh(q[k], told[k], Mounted(k)) /\ Mounted(k)' = TRUE
      BY <1>1 DEF ReadsOK, ReadsInv, OpenOrder, Mounted
    <3>2. CASE k \in OrderKeys /\ q[k].since = 0 /\ (q[k].data = 0 \/ q[k].old)
      <4>1. q'[k] = Start(q[k], Latest)
        BY <1>1, <3>2 DEF OpenOrder
      <4> QED
        BY <1>0, <3>1, <4>1, StartIsFresh
    <3>3. CASE ~(k \in OrderKeys /\ q[k].since = 0 /\ (q[k].data = 0 \/ q[k].old))
      <4>1. q'[k] = q[k]
        BY <1>1, <3>3 DEF OpenOrder
      <4>2. k \notin OrderKeys => Mounted(k) = TRUE
        BY <1>1 DEF OpenOrder, Mounted
      <4>3. Fresh(q[k], told[k], TRUE)
        BY <3>1, <3>3, <4>2 DEF Fresh
      <4> QED
        BY <1>0, <3>1, <4>1, <4>3
    <3> QED
      BY <3>2, <3>3
  <2>2. q' = [k \in Keys |-> q'[k]] /\ UNCHANGED <<told, signedIn>> /\ signedIn
    BY <1>1 DEF OpenOrder
  <2>3. q' \in [Keys -> ReadType(Latest)]
    BY <2>1, <2>2
  <2> QED
    BY <1>0, <2>1, <2>2, <2>3 DEF ReadsOK, ReadsTypes, ReadsInv
<1>2. CASE SignIn
  <2>1. \A k \in Keys : q[k] = NoRead
    BY <1>2 DEF SignIn, ReadsOK, ReadsInv
  <2>2. q' = [q EXCEPT !["orders"] = Start(q["orders"], Latest)] /\ signedIn' = TRUE /\ told' = told
    BY <1>2 DEF SignIn
  <2>3. ASSUME NEW k \in Keys
        PROVE  q'[k] \in ReadType(Latest) /\ Fresh(q'[k], told[k], Mounted(k)')
    <3>1. CASE k = "orders"
      <4>1. q'[k] = Start(q[k], Latest) /\ Mounted(k)' \in BOOLEAN
        BY <2>2, <3>1 DEF ReadsOK, ReadsTypes, Mounted
      <4> QED
        BY <1>0, <4>1, StartIsFresh
    <3>2. CASE k # "orders"
      <4>1. q'[k] = NoRead
        BY <2>1, <2>2, <3>2 DEF ReadsOK, ReadsTypes
      <4>2. Fresh(NoRead, told[k], Mounted(k)')
        BY DEF Fresh, NoRead
      <4> QED
        BY <1>0, <2>1, <4>1, <4>2
    <3> QED
      BY <3>1, <3>2
  <2>4. q' \in [Keys -> ReadType(Latest)]
    BY <2>2, <2>3 DEF ReadsOK, ReadsTypes
  <2> QED
    BY <1>0, <2>2, <2>3, <2>4 DEF ReadsOK, ReadsTypes, ReadsInv
<1>3. CASE SignOut
  <2>1. q' = [k \in Keys |-> NoRead] /\ told' = [k \in Keys |-> 0] /\ signedIn' = FALSE
    BY <1>3 DEF SignOut
  <2>2. NoRead \in ReadType(Latest) /\ 0 \in 0..Latest
    BY <1>0 DEF NoRead, ReadType
  <2>3. \A k \in Keys : Fresh(NoRead, 0, Mounted(k)')
    BY DEF Fresh, NoRead
  <2> QED
    BY <1>0, <2>1, <2>2, <2>3 DEF ReadsOK, ReadsTypes, ReadsInv
<1> QED
  BY <1>1, <1>2, <1>3

LEMMA StepReads == ASSUME ReadsOK, WasTypes, WasAfter, [Next]_vars PROVE ReadsOK'
<1>1. CASE Poll \/ \E k \in Keys : Refetch(k) \/ ReadArrives(k) \/ ReadFails(k)
  BY <1>1, ReadStep DEF Keys
<1>2. CASE \/ LeaveOrder \/ Heartbeat \/ TimerFires \/ ToBackground \/ OthersChange \/ Cancel \/ ServeCancel
           \/ LateBegins \/ LateEnds \/ CancelFails \/ PressPay \/ PaymentRead \/ SheetCloses \/ UNCHANGED vars
  <2>1. UNCHANGED <<q, told, signedIn>> /\ (screen' = screen \/ screen' = "list")
    BY <1>2 DEF LeaveOrder, Heartbeat, TimerFires, ToBackground, OthersChange, Cancel, ServeCancel,
                CancelFails, LateBegins, LateEnds, PressPay, PaymentRead, SheetCloses, vars, app
  <2> QED
    BY <2>1, ReadsStill
<1>3. ASSUME NEW s \in sockets, TokenArrives(s) \/ TokenFails(s) \/ Breaks(s) \/ Dies(s) PROVE ReadsOK'
  <2>1. UNCHANGED <<q, told, signedIn, screen>>
    BY <1>3 DEF TokenArrives, TokenFails, Breaks, Dies, backend, app
  <2> QED
    BY <2>1, ReadsStill
<1>4. CASE PushArrives \/ CancelAnswered \/ ToForeground \/ \E s \in sockets : Opens(s) \/ Hears(s)
  <2>1. UNCHANGED <<was, signedIn, screen>> /\ (Invalidate(Keys) \/ UNCHANGED <<q, told>>)
    <3>1. OrderKeys \cup {"orders"} = Keys
      BY DEF OrderKeys, Keys
    <3> QED
      BY <1>4, <3>1 DEF PushArrives, CancelAnswered, ToForeground, Opens, Hears, backend, app
  <2>2. Invalidate(Keys) => Refresh(Keys, Latest')
    BY <2>1 DEF Invalidate, Latest
  <2> QED
    BY <2>1, <2>2, ReadsStill, ReadsRefreshed
<1>5. CASE \/ VerifyAnswered \/ RetryServed \/ InitiateAnswered
           \/ CheckoutAnswered \/ CheckAnswered \/ PayFails
  <2>1. UNCHANGED <<signedIn, screen>> /\ (Refresh(Keys, Latest') \/ UNCHANGED <<q, told>>)
    BY <1>5 DEF VerifyAnswered, RetryServed, InitiateAnswered, CheckoutAnswered, CheckAnswered, PayFails,
                EndsAt, Continues, app
  <2> QED
    BY <2>1, ReadsStill, ReadsRefreshed
<1> QED
  BY <1>1, <1>2, <1>3, <1>4, <1>5, ScreenStep DEF Next, AnySocket

-----------------------------------------------------------------------------
(* The requests of the customer, and how often the order can still change. *)

RestTypes ==
  /\ captured \in BOOLEAN /\ front \in BOOLEAN /\ screen \in {"list", "order"}
  /\ cancel \in {"none", "out", "ok", "refused"} /\ pay \in Busy \cup {"none", "sheet"}
  /\ asked \in Nat /\ begun \in Nat /\ events \in 0..MaxEvents

Noted == unsaid \in 0..Latest

LEMMA StepNoted == ASSUME Noted, WasTypes, WasAfter, [Next]_vars PROVE Noted'
<1>0. Latest \in Nat /\ Latest' \in {Latest, Latest + 1}
  BY HistoryGrows, LatestNat
<1>1. ASSUME unsaid' \in {unsaid, Latest'} PROVE Noted'
  BY <1>0, <1>1 DEF Noted
<1>2. CASE LateBegins \/ LateEnds
  BY <1>1, <1>2, LateStep
<1>3. CASE \/ Poll \/ OpenOrder \/ LeaveOrder \/ AnySocket \/ Heartbeat \/ TimerFires \/ ToBackground
           \/ ToForeground \/ SignOut \/ SignIn \/ PushArrives \/ UNCHANGED vars
           \/ \E k \in Keys : Refetch(k) \/ ReadArrives(k) \/ ReadFails(k)
           \/ \E s \in sockets : TokenFails(s) \/ Breaks(s) \/ Dies(s)
  BY <1>1, <1>3 DEF Poll, OpenOrder, LeaveOrder, AnySocket, TokenArrives, Opens, Hears, Heartbeat, TimerFires,
     ToBackground, ToForeground, SignOut, SignIn, PushArrives, Refetch, ReadArrives, ReadFails, TokenFails,
     Breaks, Dies, vars, backend
<1>4. CASE \/ OthersChange \/ Cancel \/ ServeCancel \/ CancelAnswered \/ CancelFails \/ PressPay
           \/ PaymentRead \/ VerifyAnswered \/ RetryServed \/ InitiateAnswered \/ CheckoutAnswered
           \/ SheetCloses \/ CheckAnswered \/ PayFails
  BY <1>1, <1>4 DEF OthersChange, Cancel, ServeCancel, CancelAnswered, CancelFails, PressPay, PaymentRead,
     VerifyAnswered, RetryServed, InitiateAnswered, CheckoutAnswered, SheetCloses, CheckAnswered, PayFails,
     backend
<1> QED
  BY <1>2, <1>3, <1>4 DEF Next

LEMMA MovesNat ==
  /\ PayMoves \in 0..2 /\ CancelMoves \in 0..1
  /\ \E p \in 0..2 : PayMoves' = p
  /\ \E c \in 0..1 : CancelMoves' = c
BY DEF PayMoves, CancelMoves

LEMMA LateNat == (RestTypes => LateMoves \in Nat) /\ (RestTypes' => \E m \in Nat : LateMoves' = m)
<1>1. RestTypes => LateMoves \in Nat
  BY DEF RestTypes, LateMoves
<1>2. ASSUME NEW a \in Nat, NEW b \in Nat, asked' = a, begun' = b
      PROVE  \E m \in Nat : LateMoves' = m
  BY <1>2 DEF LateMoves
<1>3. RestTypes' => asked' \in Nat /\ begun' \in Nat
  BY DEF RestTypes
<1> QED
  BY <1>1, <1>2, <1>3

\* A step that no event pays for takes a change from what the requests can still do.
LEMMA Unpaid ==
  ASSUME WasTypes, RestTypes, Budget, UNCHANGED events,
         NEW l \in Nat, NEW p \in Nat, NEW c \in Nat, NEW m \in Nat,
         Latest' = l, PayMoves' = p, CancelMoves' = c, LateMoves' = m,
         l + p + c + m <= Latest + PayMoves + CancelMoves + LateMoves
  PROVE  Budget' /\ events' \in 0..MaxEvents
<1>1. Latest \in Nat /\ events \in Nat
  BY LatestNat, OrdersAssumption DEF RestTypes
<1>2. l + p + c + m <= 2 * events + 1
  BY <1>1, MovesNat, LateNat DEF Budget
<1> QED
  BY <1>2 DEF RestTypes, Budget

\* An event pays for two.
LEMMA PaidByEvent ==
  ASSUME WasTypes, RestTypes, Budget, Event,
         NEW l \in Nat, NEW p \in Nat, NEW c \in Nat, NEW m \in Nat,
         Latest' = l, PayMoves' = p, CancelMoves' = c, LateMoves' = m,
         l + p + c + m <= Latest + PayMoves + CancelMoves + LateMoves + 2
  PROVE  Budget' /\ events' \in 0..MaxEvents
<1>1. Latest \in Nat
  BY LatestNat
<1>2. events \in Nat /\ events' = events + 1 /\ events + 1 \in 0..MaxEvents
  BY OrdersAssumption DEF RestTypes, Event
<1>3. l + p + c + m <= 2 * (events + 1) + 1
  BY <1>1, <1>2, MovesNat, LateNat DEF Budget
<1> QED
  BY <1>2, <1>3 DEF Budget

RestAfter == RestTypes' /\ Budget'

\* Giving up a request moves what it can still do from the one to the other.
LEMMA GivenUp ==
  ASSUME RestTypes, GivesUp \/ UNCHANGED <<asked, begun>>
  PROVE  /\ asked' \in Nat /\ begun' \in Nat /\ LateMoves' \in Nat
         /\ LateMoves' <= LateMoves + PayMoves
         /\ UNCHANGED <<asked, begun>> => LateMoves' = LateMoves
<1>1. CASE UNCHANGED <<asked, begun>>
  BY <1>1, MovesNat DEF RestTypes, LateMoves
<1>2. CASE GivesUp
  BY <1>2 DEF GivesUp, RestTypes, LateMoves, PayMoves
<1> QED
  BY <1>1, <1>2

\* Neither the order nor a request changes, but one may be given up.
LEMMA NothingSpent ==
  ASSUME WasTypes, RestTypes, Budget, UNCHANGED <<was, captured, cancel>>,
         \/ pay' = pay /\ UNCHANGED <<asked, begun>>
         \/ pay' = "none" /\ (GivesUp \/ UNCHANGED <<asked, begun>>),
         front' \in BOOLEAN, screen' \in {"list", "order"}, UNCHANGED events \/ Event
  PROVE  RestAfter
<1>1. PICK p \in 0..2 : PayMoves' = p
  BY MovesNat
<1>2. CancelMoves' = CancelMoves /\ Latest' = Latest /\ Latest \in Nat
  BY LatestNat DEF Latest, CancelMoves
<1>3. CancelMoves \in Nat /\ p \in Nat /\ PayMoves \in Nat /\ LateMoves \in Nat
  BY MovesNat, LateNat
<1>4. PICK m \in Nat : LateMoves' = m /\ p + m <= PayMoves + LateMoves
  <2>1. CASE pay' = pay /\ UNCHANGED <<asked, begun>>
    <3>1. p = PayMoves /\ LateMoves' = LateMoves
      BY <1>1, <2>1 DEF PayMoves, LateMoves
    <3> QED
      BY <1>3, <3>1
  <2>2. CASE pay' = "none" /\ (GivesUp \/ UNCHANGED <<asked, begun>>)
    <3>1. p = 0
      BY <1>1, <2>2 DEF PayMoves
    <3> QED
      BY <1>3, <2>2, <3>1, GivenUp
  <2> QED
    BY <2>1, <2>2
<1>5. Budget' /\ events' \in 0..MaxEvents
  <2>1. Latest + p + CancelMoves + m <= Latest + PayMoves + CancelMoves + LateMoves
    BY <1>2, <1>3, <1>4
  <2>2. Latest + p + CancelMoves + m <= Latest + PayMoves + CancelMoves + LateMoves + 2
    BY <1>2, <1>3, <2>1
  <2> QED
    BY <1>1, <1>2, <1>3, <1>4, <2>1, <2>2, Unpaid, PaidByEvent
<1>6. asked' \in Nat /\ begun' \in Nat
  BY GivenUp
<1> QED
  BY <1>5, <1>6 DEF RestAfter, RestTypes

LEMMA CancelStep ==
  ASSUME WasTypes, RestTypes, Budget, WasAfter, Cancel \/ ServeCancel \/ CancelAnswered \/ CancelFails
  PROVE  RestAfter
<1>1. /\ UNCHANGED <<captured, front, screen, pay>> /\ cancel' \in {"none", "out", "ok", "refused"}
      /\ PayMoves' = PayMoves /\ LateMoves' = LateMoves /\ UNCHANGED <<asked, begun>>
  BY DEF Cancel, ServeCancel, CancelAnswered, CancelFails, backend, app, PayMoves, LateMoves
<1>2. Latest \in Nat /\ PayMoves \in Nat /\ CancelMoves \in Nat /\ LateMoves \in Nat
  BY LatestNat, MovesNat, LateNat
<1>3. PICK l \in {Latest, Latest + 1} : Latest' = l
  BY HistoryGrows
<1>4. PICK c \in 0..1 : CancelMoves' = c
  BY MovesNat
<1>5. CASE Cancel
  <2>1. CancelMoves = 0 /\ c = 1 /\ l = Latest /\ Event
    BY <1>3, <1>4, <1>5 DEF Cancel, backend, CancelMoves, Latest
  <2>2. l + PayMoves + c + LateMoves <= Latest + PayMoves + CancelMoves + LateMoves + 2
    BY <1>2, <2>1
  <2> QED
    BY <1>1, <1>2, <1>3, <1>4, <2>1, <2>2, PaidByEvent DEF RestAfter, RestTypes
<1>6. CASE ServeCancel
  <2>1. CancelMoves = 1 /\ c = 0 /\ UNCHANGED events
    BY <1>4, <1>6 DEF ServeCancel, CancelMoves
  <2>2. l + PayMoves + c + LateMoves <= Latest + PayMoves + CancelMoves + LateMoves /\ l \in Nat
    BY <1>2, <1>3, <2>1
  <2> QED
    BY <1>1, <1>2, <1>3, <1>4, <2>1, <2>2, Unpaid DEF RestAfter, RestTypes
<1>7. CASE CancelAnswered \/ CancelFails
  <2>1. c = 0 /\ l = Latest /\ (UNCHANGED events \/ Event)
    BY <1>3, <1>4, <1>7 DEF CancelAnswered, CancelFails, backend, CancelMoves, Latest
  <2>2. l + PayMoves + c + LateMoves <= Latest + PayMoves + CancelMoves + LateMoves
    BY <1>2, <2>1
  <2>3. l + PayMoves + c + LateMoves <= Latest + PayMoves + CancelMoves + LateMoves + 2
    BY <1>2, <2>1
  <2> QED
    BY <1>1, <1>2, <1>3, <1>4, <2>1, <2>2, <2>3, Unpaid, PaidByEvent DEF RestAfter, RestTypes
<1> QED
  BY <1>5, <1>6, <1>7

\* A request of a payment goes on: what it does to the order it can do no more.
LEMMA PayStep ==
  ASSUME WasTypes, RestTypes, Budget, WasAfter,
         \/ PressPay \/ PaymentRead \/ VerifyAnswered \/ RetryServed \/ InitiateAnswered
         \/ CheckoutAnswered \/ SheetCloses \/ CheckAnswered \/ PayFails
  PROVE  RestAfter
<1>1. UNCHANGED <<front, screen, cancel>> /\ CancelMoves' = CancelMoves
  BY DEF PressPay, PaymentRead, VerifyAnswered, RetryServed, InitiateAnswered, CheckoutAnswered, SheetCloses,
         CheckAnswered, PayFails, app, CancelMoves
<1>2. captured' \in BOOLEAN
  BY VerifiedStep
  DEF PressPay, PaymentRead, VerifyAnswered, RetryServed, InitiateAnswered, Rejected, CheckoutAnswered,
      SheetCloses, CheckAnswered, PayFails, RestTypes, backend
<1>3. pay' \in Busy \cup {"none", "sheet"}
  BY DEF PressPay, PaymentRead, VerifyAnswered, RetryServed, InitiateAnswered, CheckoutAnswered, SheetCloses,
         CheckAnswered, PayFails, EndsAt, Continues, Busy
<1>4. Latest \in Nat /\ PayMoves \in Nat /\ CancelMoves \in Nat /\ LateMoves \in Nat
  BY LatestNat, MovesNat, LateNat
<1>5. PICK l \in {Latest, Latest + 1} : Latest' = l
  BY HistoryGrows
<1>6. PICK p \in 0..2 : PayMoves' = p
  BY MovesNat
<1>7. l \in Nat /\ p \in Nat
  BY <1>4, <1>5
<1>8. ASSUME UNCHANGED <<events, asked, begun>>, l + p <= Latest + PayMoves
      PROVE  RestAfter
  <2>1. LateMoves' = LateMoves
    BY <1>8 DEF LateMoves
  <2>2. l + p + CancelMoves + LateMoves <= Latest + PayMoves + CancelMoves + LateMoves
    BY <1>4, <1>7, <1>8
  <2>3. Budget' /\ events' \in 0..MaxEvents
    BY <1>1, <1>4, <1>5, <1>6, <1>7, <1>8, <2>1, <2>2, Unpaid
  <2> QED
    BY <1>1, <1>2, <1>3, <1>8, <2>3 DEF RestAfter, RestTypes
<1>9. ASSUME Event, UNCHANGED <<asked, begun>>, l + p <= Latest + PayMoves + 2
      PROVE  RestAfter
  <2>1. LateMoves' = LateMoves
    BY <1>9 DEF LateMoves
  <2>2. l + p + CancelMoves + LateMoves <= Latest + PayMoves + CancelMoves + LateMoves + 2
    BY <1>4, <1>7, <1>9
  <2>3. Budget' /\ events' \in 0..MaxEvents
    BY <1>1, <1>4, <1>5, <1>6, <1>7, <1>9, <2>1, <2>2, PaidByEvent
  <2> QED
    BY <1>1, <1>2, <1>3, <1>9, <2>3 DEF RestAfter, RestTypes
<1>10. CASE PressPay
  <2>1. PayMoves = 0 /\ p = 2 /\ l = Latest /\ Event /\ UNCHANGED <<asked, begun>>
    BY <1>5, <1>6, <1>10 DEF PressPay, PayMoves, Latest, backend
  <2> QED
    BY <1>4, <1>9, <2>1
<1>11. CASE PaymentRead \/ CheckoutAnswered \/ SheetCloses
  <2>1. p <= PayMoves /\ l = Latest /\ UNCHANGED <<events, asked, begun>>
    BY <1>5, <1>6, <1>11 DEF PaymentRead, CheckoutAnswered, SheetCloses, EndsAt, PayMoves, Latest, backend
  <2> QED
    BY <1>4, <1>7, <1>8, <2>1
<1>12. CASE RetryServed
  <2>1. PayMoves = 2 /\ p <= 1 /\ UNCHANGED <<events, asked, begun>>
    BY <1>6, <1>12 DEF RetryServed, PayMoves, EndsAt
  <2> QED
    BY <1>4, <1>5, <1>7, <1>8, <2>1
<1>13. CASE CheckAnswered \/ (InitiateAnswered /\ Rejected /\ EndsAt("none"))
  <2>1. PayMoves = 1 /\ p = 0 /\ UNCHANGED <<events, asked, begun>>
    BY <1>6, <1>13 DEF CheckAnswered, InitiateAnswered, PayMoves, EndsAt
  <2> QED
    BY <1>4, <1>5, <1>7, <1>8, <2>1
<1>14. CASE Verified /\ Continues /\ (VerifyAnswered \/ InitiateAnswered)
  <2>1. PayMoves = 1 /\ p <= 1 /\ UNCHANGED <<events, asked, begun>>
    BY <1>6, <1>14 DEF VerifyAnswered, InitiateAnswered, Continues, PayMoves, EndsAt
  <2>2. CASE was' = was
    <3>1. l = Latest
      BY <1>5, <2>2 DEF Latest
    <3> QED
      BY <1>4, <1>7, <1>8, <2>1, <3>1
  <2>3. ASSUME NEW r \in Row, r.payment = "PAID", was' = Append(was, r)
        PROVE  RestAfter
    <3>1. srv' = r
      BY <2>3, OneMore DEF srv
    <3>2. p = 0
      BY <1>6, <1>14, <2>3, <3>1 DEF Continues, EndsAt, PayMoves
    <3> QED
      BY <1>4, <1>5, <1>7, <1>8, <2>1, <3>2
  <2> QED
    BY <1>14, <2>2, <2>3, VerifiedStep
<1>15. CASE PayFails /\ UNCHANGED <<asked, begun>>
  <2>1. p <= PayMoves /\ Event
    BY <1>6, <1>15 DEF PayFails, PayMoves, EndsAt, Busy
  <2> QED
    BY <1>4, <1>5, <1>7, <1>9, <1>15, <2>1
<1>16. CASE PayFails /\ GivesUp /\ UNCHANGED <<was, captured, sockets>>
  <2>1. pay' = "none" /\ Event
    BY <1>16 DEF PayFails, GivesUp, EndsAt
  <2> QED
    BY <1>1, <1>16, <2>1, NothingSpent DEF RestTypes
<1>17. CASE PayFails
  BY <1>15, <1>16, <1>17 DEF PayFails
<1>18. CASE VerifyAnswered \/ InitiateAnswered
  BY <1>13, <1>14, <1>18 DEF VerifyAnswered, InitiateAnswered
<1> QED
  BY <1>10, <1>11, <1>12, <1>13, <1>17, <1>18

\* An attempt that was given up goes on: it can do one thing less.
LEMMA LateRest ==
  ASSUME WasTypes, RestTypes, Budget, WasAfter, LateBegins \/ LateEnds
  PROVE  RestAfter
<1>1. /\ UNCHANGED <<front, screen, cancel, pay, events>>
      /\ PayMoves' = PayMoves /\ CancelMoves' = CancelMoves
  BY DEF LateBegins, LateEnds, app, PayMoves, CancelMoves
<1>2. captured' \in BOOLEAN
  BY LateStep DEF RestTypes
<1>3. PICK l \in {Latest, Latest + 1} : Latest' = l
  BY HistoryGrows
<1>4. Latest \in Nat /\ PayMoves \in Nat /\ CancelMoves \in Nat /\ LateMoves \in Nat
  BY LatestNat, MovesNat, LateNat
<1>5. /\ asked' \in Nat /\ begun' \in Nat
      /\ \E m \in Nat : LateMoves' = m /\ l + m <= Latest + LateMoves
  <2>1. CASE LateBegins /\ UNCHANGED <<was, begun>>
    <3>1. l = Latest
      BY <1>3, <2>1 DEF Latest
    <3> QED
      BY <1>4, <2>1, <3>1 DEF LateBegins, RestTypes, LateMoves
  <2>2. CASE LateBegins /\ begun' = begun + 1
    BY <1>3, <1>4, <2>2 DEF LateBegins, RestTypes, LateMoves
  <2>3. CASE LateEnds
    BY <1>3, <1>4, <2>3 DEF LateEnds, RestTypes, LateMoves
  <2> QED
    BY <2>1, <2>2, <2>3 DEF LateBegins
<1>6. PICK m \in Nat : LateMoves' = m /\ l + m <= Latest + LateMoves
  BY <1>5
<1>7. l + PayMoves + CancelMoves + m <= Latest + PayMoves + CancelMoves + LateMoves /\ l \in Nat
  BY <1>3, <1>4, <1>6
<1>8. Budget' /\ events' \in 0..MaxEvents
  BY <1>1, <1>3, <1>4, <1>6, <1>7, Unpaid
<1> QED
  BY <1>1, <1>2, <1>5, <1>8 DEF RestAfter, RestTypes

LEMMA StepRest == ASSUME WasTypes, RestTypes, Budget, WasAfter, [Next]_vars PROVE RestAfter
<1>1. ASSUME NEW s \in sockets,
             TokenArrives(s) \/ Opens(s) \/ Hears(s) \/ TokenFails(s) \/ Breaks(s) \/ Dies(s)
      PROVE  RestAfter
  <2>1. UNCHANGED <<was, captured, asked, begun, cancel, pay, front, screen>> /\ (UNCHANGED events \/ Event)
    BY <1>1 DEF TokenArrives, Opens, Hears, TokenFails, Breaks, Dies, backend, app
  <2> QED
    BY <2>1, NothingSpent DEF RestTypes
<1>2. ASSUME NEW k \in Keys, Refetch(k) \/ ReadArrives(k) \/ ReadFails(k) PROVE RestAfter
  <2>1. UNCHANGED <<was, captured, asked, begun, cancel, pay, front, screen>> /\ (UNCHANGED events \/ Event)
    BY <1>2 DEF Refetch, ReadArrives, ReadFails, backend, app
  <2> QED
    BY <2>1, NothingSpent DEF RestTypes
<1>3. CASE \/ Poll \/ OpenOrder \/ LeaveOrder \/ Heartbeat \/ TimerFires \/ ToBackground \/ ToForeground
           \/ SignOut \/ SignIn \/ PushArrives \/ UNCHANGED vars
  <2>1. /\ UNCHANGED <<was, captured, cancel>> /\ (UNCHANGED events \/ Event)
        /\ \/ pay' = pay /\ UNCHANGED <<asked, begun>>
           \/ pay' = "none" /\ (GivesUp \/ UNCHANGED <<asked, begun>>)
        /\ front' \in BOOLEAN /\ screen' \in {"list", "order"}
    BY <1>3 DEF Poll, OpenOrder, LeaveOrder, Heartbeat, TimerFires, ToBackground, ToForeground, SignOut,
                SignIn, PushArrives, vars, backend, app, RestTypes
  <2> QED
    BY <2>1, NothingSpent
<1>4. CASE OthersChange
  <2>1. /\ UNCHANGED <<front, screen, cancel, pay, asked, begun>> /\ Event
        /\ PayMoves' = PayMoves /\ CancelMoves' = CancelMoves /\ LateMoves' = LateMoves
    BY <1>4 DEF OthersChange, backend, app, PayMoves, CancelMoves, LateMoves
  <2>2. captured' \in BOOLEAN
    BY <1>4, OthersStep DEF RestTypes
  <2>3. PICK l \in {Latest, Latest + 1} : Latest' = l
    BY HistoryGrows
  <2>4. /\ Latest \in Nat /\ l \in Nat /\ PayMoves \in Nat /\ CancelMoves \in Nat /\ LateMoves \in Nat
        /\ l + PayMoves + CancelMoves + LateMoves <= Latest + PayMoves + CancelMoves + LateMoves + 2
    BY <2>3, LatestNat, MovesNat, LateNat
  <2>5. Budget' /\ events' \in 0..MaxEvents
    BY <2>1, <2>3, <2>4, PaidByEvent
  <2> QED
    BY <2>1, <2>2, <2>5 DEF RestAfter, RestTypes
<1> QED
  BY <1>1, <1>2, <1>3, <1>4, CancelStep, PayStep, LateRest DEF Next, AnySocket

-----------------------------------------------------------------------------
AllParts ==
  NetInv /\ WasTypes /\ Latest \in Versions /\ ReadsOK /\ RestTypes /\ Noted /\ Budget /\ HeardAll

LEMMA Parts == (IInv <=> AllParts) /\ (IInv' <=> AllParts')
<1>1. TypeOK <=> NetTypes /\ WasTypes /\ Latest \in Versions /\ ReadsTypes /\ RestTypes /\ Noted
  BY DEF TypeOK, NetTypes, SocketType, WasTypes, Row, ReadsTypes, ReadType, RestTypes, Noted, Versions, Latest
<1>2. TypeOK' <=> NetTypes' /\ WasTypes' /\ Latest' \in Versions /\ ReadsTypes' /\ RestTypes' /\ Noted'
  BY DEF TypeOK, NetTypes, SocketType, WasTypes, Row, ReadsTypes, ReadType, RestTypes, Noted, Versions, Latest
<1> QED
  BY <1>1, <1>2 DEF IInv, AllParts, NetInv, ReadsOK, ReadsTypes

LEMMA InitHolds == Init => IInv
<1> SUFFICES ASSUME Init PROVE IInv
  OBVIOUS
<1>1. WasTypes /\ Latest = 1
  <2>1. PICK r \in Row : was = <<r>>
    BY DEF Init, Row, OrderStatus, PaymentStatus
  <2> QED
    BY <2>1 DEF WasTypes, Latest
<1>2. NetInv
  <2> DEFINE s == [id |-> 1, at |-> "token", due |-> FALSE, mine |-> TRUE]
  <2>1. sockets = {s} /\ s \in SocketType /\ 1 \in 0..MaxSockets /\ 0 \in 0..MaxSockets
    BY OrdersAssumption DEF Init, SocketType
  <2>2. Ours = {1}
    BY <2>1, OrdersAssumption DEF Ours
  <2>3. Cardinality(Ours) = 1
    BY <2>2, FS_Singleton
  <2>4. NetTypes
    BY <2>1 DEF Init, NetTypes
  <2>5. Timers = 0 /\ connects = 1
    BY DEF Init, Timers
  <2>6. SocketsInv
    BY <2>1, <2>3, <2>5 DEF Init, SocketsInv, KnownSocketIsOurs
  <2> QED
    BY <2>1, <2>4, <2>6 DEF Init, NetInv, AlwaysListening
<1>3. ReadsOK
  <2>1. ASSUME NEW k \in Keys PROVE q[k] \in ReadType(1) /\ Fresh(q[k], 0, Mounted(k))
    <3> DEFINE n == IF k = "orders" THEN 1 ELSE 0
    <3>1. q[k] = [NoRead EXCEPT !.since = n] /\ n \in 0..1 /\ 0 \in 0..1
      BY DEF Init
    <3>2. q[k] \in ReadType(1) /\ q[k].data = 0 /\ q[k].since = n
      BY <3>1 DEF NoRead, ReadType
    <3> HIDE DEF n
    <3> QED
      BY <3>1, <3>2 DEF Fresh
  <2>2. told = [k \in Keys |-> 0] /\ 0 \in 0..1 /\ signedIn = TRUE /\ q = [k \in Keys |-> q[k]]
    BY DEF Init
  <2> QED
    BY <1>1, <2>1, <2>2 DEF ReadsOK, ReadsTypes, ReadsInv
<1>4. RestTypes /\ PayMoves = 0 /\ CancelMoves = 0 /\ LateMoves = 0 /\ events = 0
  <2>1. 0 \in 0..MaxEvents
    BY OrdersAssumption
  <2>2. asked = 0 /\ begun = 0 /\ LateMoves = 0
    BY DEF Init, LateMoves
  <2>3. asked \in Nat /\ begun \in Nat
    BY <2>2
  <2> QED
    BY <2>1, <2>2, <2>3 DEF Init, RestTypes, PayMoves, CancelMoves
<1>5. Budget /\ Latest \in Versions
  BY <1>1, <1>4, OrdersAssumption DEF Budget, Versions
<1>6. HeardAll /\ Noted
  BY <1>1 DEF Init, HeardAll, Hearing, Noted
<1> QED
  BY <1>1, <1>2, <1>3, <1>4, <1>5, <1>6, Parts DEF AllParts

LEMMA NextHolds == IInv /\ [Next]_vars => IInv'
<1> SUFFICES ASSUME IInv, [Next]_vars PROVE IInv'
  OBVIOUS
<1>0. NetInv /\ WasTypes /\ ReadsOK /\ RestTypes /\ Noted /\ Budget
  BY Parts DEF AllParts
<1>1. WasAfter
  BY <1>0, StepHistory
<1>2. WasTypes' /\ Latest' \in Nat
  BY <1>0, <1>1, HistoryGrows
<1>3. NetAfter
  BY <1>0, StepNet
<1>4. HeardAll'
  BY <1>0, <1>1, <1>3, HeardKept
<1>5. ReadsOK'
  BY <1>0, <1>1, StepReads
<1>6. RestTypes' /\ Budget' /\ Noted'
  BY <1>0, <1>1, StepRest, StepNoted DEF RestAfter
<1>7. Latest' \in Versions
  <2>1. PICK l \in {Latest, Latest + 1} : Latest' = l
    BY <1>0, <1>1, HistoryGrows
  <2>2. PICK p \in 0..2 : PayMoves' = p
    BY MovesNat
  <2>3. PICK c \in 0..1 : CancelMoves' = c
    BY MovesNat
  <2>4. PICK e \in 0..MaxEvents : events' = e
    BY <1>6 DEF RestTypes
  <2>4a. PICK m \in Nat : LateMoves' = m
    BY <1>6, LateNat
  <2>5. l + p + c + m <= 2 * e + 1 /\ l >= 1 /\ Latest \in Nat
    BY <1>0, <1>2, <1>6, <2>1, <2>2, <2>3, <2>4, <2>4a, LatestNat DEF Budget, WasTypes
  <2>6. l \in 1..2 * MaxEvents + 1
    BY <2>1, <2>5, OrdersAssumption
  <2> QED
    BY <2>1, <2>6 DEF Versions
<1> QED
  BY <1>2, <1>3, <1>4, <1>5, <1>6, <1>7, Parts DEF AllParts, NetAfter

LEMMA Inductive == Spec => []IInv
BY InitHolds, NextHolds, PTL DEF Spec

\* Every variable keeps its type, and the counters their bounds.
THEOREM OrdersTypeCorrect == Spec => []TypeOK
<1>1. IInv => TypeOK
  BY DEF IInv
<1> QED
  BY <1>1, Inductive, PTL

\* A customer who is signed in is never left without a socket, a timer or a connection on
\* its way, unless there was no token.
THEOREM ListeningNeverStops == Spec => []AlwaysListening
<1>1. IInv => AlwaysListening
  BY DEF IInv
<1> QED
  BY <1>1, Inductive, PTL

\* The socket in wsRef is one of the session that is signed in, never a stranger's.
THEOREM KnownSocketNeverStrange == Spec => []KnownSocketIsOurs
<1>1. IInv => KnownSocketIsOurs
  BY DEF IInv, SocketsInv
<1> QED
  BY <1>1, Inductive, PTL

\* A screen whose reads were answered shows what the app was told, or newer.
THEOREM ToldAlwaysShown == Spec => []ToldIsShown
<1>1. IInv => ToldIsShown
  <2> SUFFICES ASSUME IInv, NEW k \in Keys, Settled(k)
               PROVE  q[k].data >= told[k]
    BY DEF ToldIsShown
  <2>1. Fresh(q[k], told[k], Mounted(k))
    BY DEF IInv, ReadsInv
  <2> QED
    BY <2>1 DEF Fresh, Settled
<1> QED
  BY <1>1, Inductive, PTL

\* While an open socket has nothing more to say, the payment shown is the one there is,
\* or an attempt to pay that the app gave up has changed it without an event.
THEOREM ConnectedAlwaysCurrent == Spec => []ConnectedIsCurrent
<1>1. IInv => ConnectedIsCurrent
  <2> SUFFICES ASSUME IInv, Hearing, Settled("payment"), pay = "none", q["payment"].data >= unsaid
               PROVE  Paid("payment") = srv.payment
    BY DEF ConnectedIsCurrent, Hearing
  <2>1. /\ Fresh(q["payment"], told["payment"], Mounted("payment")) /\ "payment" \in Keys
        /\ told["payment"] \in 0..Latest /\ q["payment"].data \in 0..Latest /\ Latest \in Nat
    BY Parts, LatestNat DEF AllParts, ReadsOK, ReadsTypes, ReadsInv, ReadType, Keys
  <2>2. q["payment"].data >= told["payment"]
    BY <2>1 DEF Fresh, Settled
  <2>3. q["payment"].data \in told["payment"]..Latest
    BY <2>1, <2>2
  <2> QED
    BY <2>3 DEF IInv, HeardAll, Paid
<1> QED
  BY <1>1, Inductive, PTL
=============================================================================
