---------------------------- MODULE MobileOrders ----------------------------
(***************************************************************************)
(* How the mobile app keeps up with one order of its customer.  Three      *)
(* reads are cached: the order, which is read again every ten seconds      *)
(* while its screen is open, its payment, and the list of orders, which    *)
(* are not.  A socket tells of changes; it may die unnoticed, is connected *)
(* again after a pause, and every connection and every return to the app   *)
(* reads everything again.  The customer cancels, or pays again for an     *)
(* order whose payment failed, while the backend and the gateway move on.  *)
(* A new attempt to pay commits twice, before and after the gateway is     *)
(* asked, and goes on when the app has given up its request.  The other    *)
(* requests of a payment are served and answered in one step.  The app has *)
(* one request of a payment out at a time.                                 *)
(* A definition named Slip_... is a plausible mistake in the one that      *)
(* follows it, kept to show that a property catches it.                    *)
(***************************************************************************)
EXTENDS Integers, Sequences, FiniteSets, OrderStates

CONSTANTS
  MaxEvents,   \* bound: changes, taps, failures, and times away or signed out
  MaxSockets   \* bound: connections that are begun

\* The first connection is begun when the app starts.
ASSUME OrdersAssumption ==
  MaxEvents \in Nat /\ MaxSockets \in Nat \ {0}

VARIABLES
  was,        \* what the order and its payment were in the database, the latest last
  captured,   \* the customer paid and the backend does not know yet
  asked, begun,  \* attempts to pay that the app gave up: not begun, between two commits
  unsaid,     \* history: the newest change that one of these made without an event
  q,          \* per cached read: its data, the read that is out, and whether it is old
  told,       \* history: per read the newest change the app heard of
  signedIn, front,  \* the session; the app is in the foreground
  screen,     \* the list, or the order's own screen above it
  sockets,    \* connections, from the wait for a token on
  wsRef,      \* the one the app knows of
  timer,      \* reconnectTimerRef is set
  loose,      \* timers that a later one replaced there
  gaveUp,     \* history: no token for the last connection
  connects,   \* connections that were begun
  cancel, pay,   \* the customer's requests: where they are
  events

net == <<sockets, wsRef, timer, loose, gaveUp, connects>>
app == <<signedIn, front, screen>>
backend == <<was, captured, asked, begun, unsaid>>
vars == <<backend, q, told, net, app, cancel, pay, events>>

Keys == {"order", "payment", "orders"}
OrderKeys == {"order", "payment"}    \* what ["order", id] is a prefix of

\* Versions are numbered; `data' is the one a read brought, `since' the one there was
\* when the read that is out began, and 0 is none.
Latest == Len(was)
srv == was[Latest]
Paid(k) == was[q[k].data].payment
Order(k) == was[q[k].data].order

NoRead == [data |-> 0, since |-> 0, old |-> FALSE, owed |-> FALSE]

Busy == {"reading", "verifying", "retrying", "initiating", "opening", "confirming", "checking"}

Versions == 1..2 * MaxEvents + 1

TypeOK ==
  /\ was \in Seq([order : OrderStatus, payment : PaymentStatus]) /\ Latest \in Versions
  /\ captured \in BOOLEAN /\ asked \in Nat /\ begun \in Nat /\ unsaid \in 0..Latest
  /\ q \in [Keys -> [data : 0..Latest, since : 0..Latest, old : BOOLEAN, owed : BOOLEAN]]
  /\ told \in [Keys -> 0..Latest]
  /\ signedIn \in BOOLEAN /\ front \in BOOLEAN /\ screen \in {"list", "order"}
  /\ sockets \subseteq [id : 1..MaxSockets, at : {"token", "connecting", "open", "dead"},
                        due : BOOLEAN, mine : BOOLEAN]
  /\ wsRef \in 0..MaxSockets /\ timer \in BOOLEAN /\ loose \in 0..MaxSockets
  /\ gaveUp \in BOOLEAN /\ connects \in 0..MaxSockets
  /\ cancel \in {"none", "out", "ok", "refused"}
  /\ pay \in Busy \cup {"none", "sheet"}
  /\ events \in 0..MaxEvents

Init ==
  /\ \E status \in {<<"PENDING", "PROCESSING">>, <<"PENDING", "FAILED">>, <<"CONFIRMED", "PAID">>} :
       was = <<[order |-> status[1], payment |-> status[2]]>>
  /\ captured = FALSE /\ asked = 0 /\ begun = 0 /\ unsaid = 0
  /\ q = [k \in Keys |-> [NoRead EXCEPT !.since = IF k = "orders" THEN 1 ELSE 0]]
  /\ told = [k \in Keys |-> 0]
  /\ signedIn = TRUE /\ front = TRUE /\ screen = "list"
  /\ sockets = {[id |-> 1, at |-> "token", due |-> FALSE, mine |-> TRUE]}
  /\ wsRef = 0 /\ timer = FALSE /\ loose = 0 /\ gaveUp = FALSE /\ connects = 1
  /\ cancel = "none" /\ pay = "none" /\ events = 0

Event == events < MaxEvents /\ events' = events + 1

-----------------------------------------------------------------------------
(* Reads. *)

\* The list stays mounted under the order's screen.
Mounted(k) == signedIn /\ (k \in OrderKeys => screen = "order")

Start(r, now) == [r EXCEPT !.since = now, !.owed = FALSE]

\* invalidateQueries: what is shown is read again, and a read that is out starts anew
\* but for the very first, which is joined; what is not shown becomes old.
Reread(k, now) ==
  LET r == q[k] IN
  IF ~Mounted(k) THEN [r EXCEPT !.old = (r.data # 0), !.owed = (r.since # 0)]
  ELSE IF r.data = 0 /\ r.since # 0 THEN [r EXCEPT !.owed = TRUE]
  ELSE [Start(r, now) EXCEPT !.old = TRUE]

Refresh(keys, now) ==
  /\ q' = [k \in Keys |-> IF k \in keys THEN Reread(k, now) ELSE q[k]]
  /\ told' = [k \in Keys |-> IF signedIn THEN now ELSE 0]

Invalidate(keys) == Refresh(keys, Latest)

\* readyState: a socket that died is still taken for open, one that is being
\* connected, or waits for its token, is not.
TakenForOpen == \E s \in sockets : s.id = wsRef /\ s.at \in {"open", "dead"}

Slip_Poll ==
  /\ Mounted("order") /\ front /\ q["order"].since = 0 /\ ~TakenForOpen
  /\ q' = [q EXCEPT !["order"] = Start(@, Latest)]
  /\ UNCHANGED <<backend, told, net, app, cancel, pay, events>>

\* useOrder: asked for every ten seconds, but not in the background.
Poll ==
  /\ Mounted("order") /\ front /\ q["order"].since = 0
  /\ q' = [q EXCEPT !["order"] = Start(@, Latest)]
  /\ UNCHANGED <<backend, told, net, app, cancel, pay, events>>

\* The list is pulled down, or something older than thirty seconds is shown again.
Refetch(k) ==
  /\ Mounted(k) /\ front /\ q[k].since = 0 /\ Event
  /\ q' = [q EXCEPT ![k] = Start(@, Latest)]
  /\ UNCHANGED <<backend, told, net, app, cancel, pay>>

\* An answer is what there was at some moment while the read was out.
ReadArrives(k) ==
  /\ q[k].since # 0
  /\ \E v \in q[k].since..Latest : q' = [q EXCEPT ![k] = [NoRead EXCEPT !.data = v, !.owed = q[k].owed]]
  /\ UNCHANGED <<backend, told, net, app, cancel, pay, events>>

ReadFails(k) ==
  /\ q[k].since # 0 /\ Event
  /\ q' = [q EXCEPT ![k].since = 0, ![k].owed = TRUE]
  /\ UNCHANGED <<backend, told, net, app, cancel, pay>>

\* OrdersScreen: a row opens the order, whose reads start unless they are fresh.
OpenOrder ==
  /\ signedIn /\ front /\ screen = "list" /\ q["orders"].data # 0
  /\ screen' = "order"
  /\ q' = [k \in Keys |->
             IF k \in OrderKeys /\ q[k].since = 0 /\ (q[k].data = 0 \/ q[k].old)
             THEN Start(q[k], Latest) ELSE q[k]]
  /\ UNCHANGED <<backend, told, net, signedIn, front, cancel, pay, events>>

LeaveOrder ==
  /\ front /\ screen = "order" /\ pay # "sheet" /\ cancel = "none"
  /\ screen' = "list"
  /\ UNCHANGED <<backend, q, told, net, signedIn, front, cancel, pay, events>>

-----------------------------------------------------------------------------
(* The socket. *)

Socket(id) == [id |-> id, at |-> "token", due |-> FALSE, mine |-> TRUE]
Change(s, t) == sockets' = (sockets \ {s}) \cup {t}

\* connect(): a token is waited for first.
Connect(left) ==
  /\ connects < MaxSockets
  /\ connects' = connects + 1
  /\ sockets' = left \cup {Socket(connects + 1)}
  /\ gaveUp' = FALSE

\* The session may have ended meanwhile; whatever socket the app knew is forgotten.
TokenArrives(s) ==
  /\ s.at = "token"
  /\ IF s.mine THEN Change(s, [s EXCEPT !.at = "connecting"]) /\ wsRef' = s.id
               ELSE sockets' = sockets \ {s} /\ UNCHANGED wsRef
  /\ UNCHANGED <<backend, q, told, timer, loose, gaveUp, connects, app, cancel, pay, events>>

\* Without a token connect() returns, and nothing tries again.
TokenFails(s) ==
  /\ s.at = "token" /\ Event
  /\ sockets' = sockets \ {s}
  /\ gaveUp' = (gaveUp \/ s.mine)
  /\ UNCHANGED <<backend, q, told, wsRef, timer, loose, connects, app, cancel, pay>>

Slip_Opens(s) ==
  /\ s.at = "connecting"
  /\ Change(s, [s EXCEPT !.at = "open"])
  /\ UNCHANGED <<backend, q, told, wsRef, timer, loose, gaveUp, connects, app, cancel, pay, events>>

\* onopen reads everything again.
Opens(s) ==
  /\ s.at = "connecting"
  /\ Change(s, [s EXCEPT !.at = "open"])
  /\ Invalidate(Keys)
  /\ UNCHANGED <<backend, wsRef, timer, loose, gaveUp, connects, app, cancel, pay, events>>

\* onmessage: an event names the order.
Hears(s) ==
  /\ s.at = "open" /\ s.due
  /\ Change(s, [s EXCEPT !.due = FALSE])
  /\ Invalidate(Keys)
  /\ UNCHANGED <<backend, wsRef, timer, loose, gaveUp, connects, app, cancel, pay, events>>

Slip_Closed(s) ==
  /\ sockets' = sockets \ {s}
  /\ timer' = (timer \/ (s.mine /\ s.at = "open"))
  /\ UNCHANGED <<loose, wsRef, gaveUp, connects>>

\* onclose: another try in three seconds; a timer that was set is replaced, not cleared.
Closed(s) ==
  /\ sockets' = sockets \ {s}
  /\ IF s.mine THEN timer' = TRUE /\ loose' = loose + (IF timer THEN 1 ELSE 0)
               ELSE UNCHANGED <<timer, loose>>
  /\ UNCHANGED <<wsRef, gaveUp, connects>>

Breaks(s) ==
  /\ s.at \in {"connecting", "open"} /\ Event
  /\ Closed(s)
  /\ UNCHANGED <<backend, q, told, app, cancel, pay>>

\* A proxy drops it, and nobody is told.
Dies(s) ==
  /\ s.at = "open" /\ Event
  /\ Change(s, [s EXCEPT !.at = "dead", !.due = FALSE])
  /\ UNCHANGED <<backend, q, told, wsRef, timer, loose, gaveUp, connects, app, cancel, pay>>

\* The watchdog: no frame for fifty seconds.  It looks at the socket the app knows.
Heartbeat ==
  /\ signedIn /\ front
  /\ \E s \in sockets : s.id = wsRef /\ s.at = "dead" /\ Closed(s)
  /\ UNCHANGED <<backend, q, told, app, cancel, pay, events>>

TimerFires ==
  /\ signedIn /\ front
  /\ \/ timer /\ timer' = FALSE /\ UNCHANGED loose
     \/ loose > 0 /\ loose' = loose - 1 /\ UNCHANGED timer
  /\ Connect(sockets)
  /\ UNCHANGED <<backend, q, told, wsRef, app, cancel, pay, events>>

ToBackground ==
  /\ front /\ Event
  /\ front' = FALSE
  /\ UNCHANGED <<backend, q, told, net, signedIn, screen, cancel, pay>>

ToForeground ==
  /\ ~front
  /\ front' = TRUE
  /\ IF ~signedIn \/ TakenForOpen THEN UNCHANGED <<sockets, timer, gaveUp, connects>>
     ELSE timer' = FALSE /\ Connect(sockets)
  /\ IF signedIn THEN Invalidate(Keys) ELSE UNCHANGED <<q, told>>
  /\ UNCHANGED <<backend, wsRef, loose, signedIn, screen, cancel, pay, events>>

\* What the app no longer waits for may still be done.
GivesUp ==
  \/ pay = "retrying" /\ asked' = asked + 1 /\ UNCHANGED begun
  \/ pay = "initiating" /\ begun' = begun + 1 /\ UNCHANGED asked

\* The effect's cleanup: the socket the app knows is closed, the last timer cleared,
\* and react-query forgets everything.
SignOut ==
  /\ signedIn /\ front /\ screen = "list" /\ Event
  /\ signedIn' = FALSE
  /\ sockets' = {[s EXCEPT !.mine = FALSE] : s \in {t \in sockets : t.id # wsRef}}
  /\ wsRef' = 0 /\ timer' = FALSE /\ loose' = 0
  /\ q' = [k \in Keys |-> NoRead] /\ told' = [k \in Keys |-> 0]
  /\ pay' = "none" /\ (GivesUp \/ UNCHANGED <<asked, begun>>)
  /\ UNCHANGED <<was, captured, unsaid, gaveUp, connects, front, screen, cancel>>

SignIn ==
  /\ ~signedIn /\ front
  /\ signedIn' = TRUE
  /\ Connect(sockets)
  /\ q' = [q EXCEPT !["orders"] = Start(@, Latest)]
  /\ UNCHANGED <<backend, told, wsRef, timer, loose, front, screen, cancel, pay, events>>

\* A notification is received while the app is open.
PushArrives ==
  /\ front /\ Event
  /\ Invalidate(Keys)
  /\ UNCHANGED <<backend, net, app, cancel, pay>>

-----------------------------------------------------------------------------
(* The backend: it commits, then sends the event. *)

Becomes(order, payment) == was' = Append(was, [order |-> order, payment |-> payment])

Announced == sockets' = {[s EXCEPT !.due = s.due \/ s.at = "open"] : s \in sockets}

\* A payment that arrives confirms its order, unless the reservation ran out; an order
\* that is cancelled or expired stays so.  (The refund it is owed is not shown here.)
Settles ==
  /\ srv.payment = "PROCESSING" /\ captured' = FALSE /\ Announced
  /\ \E order \in IF srv.order = "PENDING" THEN {"CONFIRMED", "EXPIRED"} ELSE {srv.order} :
       Becomes(order, "PAID")

\* verify, confirm, and the second half of an attempt: the backend asks the gateway.
Verified ==
  IF captured /\ srv.payment = "PROCESSING" THEN Settles ELSE UNCHANGED <<was, captured, sockets>>

\* _initiate_upi: a payment that failed is PROCESSING again before the gateway is asked.
NewAttempt == srv.payment \in CanRetryPayment /\ Becomes(srv.order, "PROCESSING")

\* _fail_unresolved_attempt: a gateway that rejects the attempt; nobody is told.
Rejected ==
  srv.payment = "PROCESSING" /\ Becomes(srv.order, "FAILED") /\ UNCHANGED <<captured, sockets>>

\* An attempt the app gave up comes to the backend, which may refuse it.
LateBegins ==
  /\ asked > 0 /\ asked' = asked - 1
  /\ IF srv.payment \in CanRetryPayment
     THEN NewAttempt /\ begun' = begun + 1 /\ unsaid' = Latest'
     ELSE UNCHANGED <<was, begun, unsaid>>
  /\ UNCHANGED <<captured, q, told, net, app, cancel, pay, events>>

\* The gateway takes it, rejects it, or does not answer.
LateEnds ==
  /\ begun > 0 /\ begun' = begun - 1
  /\ \/ Verified /\ UNCHANGED unsaid
     \/ Rejected /\ unsaid' = Latest'
     \/ UNCHANGED <<was, captured, sockets, unsaid>>
  /\ UNCHANGED <<asked, q, told, wsRef, timer, loose, gaveUp, connects, app, cancel, pay, events>>

\* Gateway and staff, or a cancellation the app gave up.  An order that expires is
\* announced by nobody.
OthersChange ==
  /\ Event
  /\ \/ Settles
     \/ /\ UNCHANGED captured
        /\ \/ srv.payment = "PROCESSING" /\ Becomes(srv.order, "FAILED") /\ Announced
           \/ /\ \E to \in OrderTransitions[srv.order] \ {"CONFIRMED", "EXPIRED"} :
                    Becomes(to, srv.payment)
              /\ Announced
           \/ srv.order = "PENDING" /\ Becomes("EXPIRED", srv.payment) /\ UNCHANGED sockets
  /\ UNCHANGED <<asked, begun, unsaid, q, told, wsRef, timer, loose, gaveUp, connects, app>>
  /\ UNCHANGED <<cancel, pay>>

-----------------------------------------------------------------------------
(* The customer cancels. *)

\* isOrderCancellable
Cancellable(status) == status \in {"PENDING", "CONFIRMED"}

\* The screen asks for a reason, an alert for a confirmation; the button waits.
Cancel ==
  /\ front /\ Mounted("order") /\ cancel = "none" /\ pay # "sheet" /\ Event
  /\ q["order"].data # 0 /\ Cancellable(Order("order"))
  /\ cancel' = "out"
  /\ UNCHANGED <<backend, q, told, net, app, pay>>

ServeCancel ==
  /\ cancel = "out"
  /\ \/ /\ CanMove(OrderTransitions, srv.order, "CANCELLED")
        /\ Becomes("CANCELLED", srv.payment) /\ Announced
        /\ cancel' = "ok"
     \/ /\ srv.order # "PENDING"
        /\ cancel' = "refused" /\ UNCHANGED <<was, sockets>>
  /\ UNCHANGED <<captured, asked, begun, unsaid, q, told, wsRef, timer, loose, gaveUp, connects>>
  /\ UNCHANGED <<app, pay, events>>

Slip_CancelAnswered ==
  /\ cancel = "ok"
  /\ q' = [k \in Keys |-> IF k = "orders" THEN Reread(k, Latest) ELSE q[k]]
  /\ told' = [k \in Keys |-> Latest]
  /\ cancel' = "none"
  /\ UNCHANGED <<backend, net, app, pay, events>>

\* useCancelOrder onSuccess: both keys are read again.
CancelAnswered ==
  /\ cancel = "ok"
  /\ Invalidate(OrderKeys \cup {"orders"})
  /\ cancel' = "none"
  /\ UNCHANGED <<backend, net, app, pay, events>>

\* A refusal, or no answer, is a toast.
CancelFails ==
  /\ \/ cancel = "refused" /\ UNCHANGED events
     \/ cancel \in {"out", "ok"} /\ Event
  /\ cancel' = "none"
  /\ UNCHANGED <<backend, q, told, net, app, pay>>

-----------------------------------------------------------------------------
(* The customer pays again. *)

\* The payment card has the button while the order as it was last read is unpaid.
PayOffered ==
  /\ q["order"].data # 0 /\ q["payment"].data # 0
  /\ Order("order") = "PENDING"
  /\ Paid("payment") \in {"PROCESSING", "FAILED", "EXPIRED"}

PressPay ==
  /\ front /\ Mounted("payment") /\ PayOffered /\ pay = "none" /\ cancel = "none" /\ Event
  /\ pay' = "reading"
  /\ UNCHANGED <<backend, q, told, net, app, cancel>>

\* The finally of every step: whatever happened, everything is read again.
EndsAt(stage) == pay' = stage /\ Refresh(Keys, Latest')

PaymentRead ==
  /\ pay = "reading"
  /\ pay' = IF srv.payment = "PROCESSING" THEN "verifying" ELSE "retrying"
  /\ UNCHANGED <<backend, q, told, net, app, cancel, events>>

\* A payment that is not paid gets its checkout.
Continues ==
  IF srv'.payment = "PAID" THEN EndsAt("none") ELSE pay' = "opening" /\ UNCHANGED <<q, told>>

VerifyAnswered ==
  /\ pay = "verifying"
  /\ Verified /\ Continues
  /\ UNCHANGED <<asked, begun, unsaid, wsRef, timer, loose, gaveUp, connects, app, cancel, events>>

\* retry: in another status than failed it is an error on the card.
RetryServed ==
  /\ pay = "retrying"
  /\ IF srv.payment \in CanRetryPayment
     THEN NewAttempt /\ pay' = "initiating" /\ UNCHANGED <<q, told>>
     ELSE UNCHANGED was /\ EndsAt("none")
  /\ UNCHANGED <<captured, asked, begun, unsaid, net, app, cancel, events>>

\* The same request goes on: it may have been paid already, or is rejected.
InitiateAnswered ==
  /\ pay = "initiating"
  /\ \/ Verified /\ Continues
     \/ Rejected /\ EndsAt("none")
  /\ UNCHANGED <<asked, begun, unsaid, wsRef, timer, loose, gaveUp, connects, app, cancel, events>>

\* The checkout opens the sheet, if the screen is still there.
CheckoutAnswered ==
  /\ pay = "opening" /\ UNCHANGED backend
  /\ IF srv.payment = "PROCESSING" /\ srv.order = "PENDING" /\ Mounted("payment")
     THEN EndsAt("sheet") ELSE EndsAt("none")
  /\ UNCHANGED <<net, app, cancel, events>>

\* The sheet reports the payment, or closes, paid or not.
SheetCloses ==
  /\ pay = "sheet"
  /\ \/ captured' = TRUE /\ pay' \in {"confirming", "checking"}
     \/ pay' = "checking" /\ UNCHANGED captured
  /\ UNCHANGED <<was, asked, begun, unsaid, q, told, net, app, cancel, events>>

CheckAnswered ==
  /\ pay \in {"confirming", "checking"}
  /\ Verified
  /\ EndsAt("none")
  /\ UNCHANGED <<asked, begun, unsaid, wsRef, timer, loose, gaveUp, connects, app, cancel, events>>

\* A request fails, served or not; an attempt that was given up may go on.  Only the
\* check before a new checkout is passed over.
PayFails ==
  /\ pay \in Busy /\ Event
  /\ \/ UNCHANGED <<was, captured, sockets, asked, begun>>
     \/ /\ \/ pay \in {"verifying", "confirming", "checking", "initiating"} /\ Verified
           \/ pay = "initiating" /\ Rejected
        /\ UNCHANGED <<asked, begun>>
     \/ GivesUp /\ UNCHANGED <<was, captured, sockets>>
  /\ IF pay = "verifying" THEN pay' = "opening" /\ UNCHANGED <<q, told>> ELSE EndsAt("none")
  /\ UNCHANGED <<unsaid, wsRef, timer, loose, gaveUp, connects, app, cancel>>

-----------------------------------------------------------------------------
AnySocket == \E s \in sockets : TokenArrives(s) \/ Opens(s) \/ Hears(s)

Next ==
  \/ Poll \/ OpenOrder \/ LeaveOrder
  \/ \E k \in Keys : Refetch(k) \/ ReadArrives(k) \/ ReadFails(k)
  \/ AnySocket
  \/ \E s \in sockets : TokenFails(s) \/ Breaks(s) \/ Dies(s)
  \/ Heartbeat \/ TimerFires \/ ToBackground \/ ToForeground \/ SignOut \/ SignIn
  \/ PushArrives \/ OthersChange \/ LateBegins \/ LateEnds
  \/ Cancel \/ ServeCancel \/ CancelAnswered \/ CancelFails
  \/ PressPay \/ PaymentRead \/ VerifyAnswered \/ RetryServed \/ InitiateAnswered
  \/ CheckoutAnswered \/ SheetCloses \/ CheckAnswered \/ PayFails

Spec == Init /\ [][Next]_vars

\* The app polls and every request is answered, or failed after fifteen seconds.
Fairness ==
  /\ WF_vars(Poll)
  /\ \A k \in Keys : WF_vars(ReadArrives(k))

FairSpec == Spec /\ Fairness

-----------------------------------------------------------------------------
(* Properties. *)

Settled(k) == Mounted(k) /\ q[k].since = 0 /\ q[k].data # 0 /\ ~q[k].owed

\* What a screen shows when its reads have been answered is no older than what the
\* app was told, by an event or by the answer to what the customer did: what is open
\* is read again after it, what is not is read when it is opened.  (A first read that
\* was out then is not started anew, and a read may fail: those are owed.)
ToldIsShown == \A k \in Keys : Settled(k) => q[k].data >= told[k]

\* While a socket is open and has no event on its way, the payment shown is the
\* payment there is: what was missed without one is made up when it opens.  Except for
\* an attempt to pay that the app gave up after fifteen seconds (client.ts:81): it makes
\* the payment PROCESSING, and FAILED again, without an event (payment.py:784-797,
\* 883-917), and a payment read before that stays on the screen.
ConnectedIsCurrent ==
  (\E s \in sockets : s.at = "open" /\ s.mine /\ ~s.due) /\ Settled("payment") /\ pay = "none"
  /\ q["payment"].data >= unsaid
    => Paid("payment") = srv.payment

\* As long as the customer is signed in there is a socket, or one is being connected,
\* or a timer will connect one, unless no token was to be had.
AlwaysListening ==
  signedIn /\ ~gaveUp => timer \/ loose > 0 \/ \E s \in sockets : s.mine

\* The socket that the app knows, closes and sends its heartbeat on is one of the
\* session that is signed in; a token that arrives late does not replace it.
KnownSocketIsOurs == \A s \in sockets : s.id = wsRef => signedIn /\ s.mine

Watching == signedIn /\ front /\ screen = "order"

\* The order's screen comes to show the order as it is, whatever becomes of the
\* socket, the events and the notifications (useOrders.ts:24).
OrderTracked == <>[]Watching => <>[](q["order"].data = Latest)

\* An order that is paid, cancelled or expired is not offered for payment for long,
\* even when the payment that is shown is old.
OfferWithdrawn == <>[](Watching /\ srv.order # "PENDING") => <>[]~PayOffered

\* useRealtimeSync.ts:38-42 has polling keep tracking correct through a socket that is
\* down; the payment and the refund are not polled, and a socket that found no token
\* is not connected again.
PaymentTracked ==
  WF_vars(AnySocket) /\ WF_vars(TimerFires) /\ WF_vars(Heartbeat) /\ <>[]Watching
    => <>[](q["payment"].data # 0 /\ Paid("payment") = srv.payment)

\* The hook keeps one socket, in wsRef; a return to the app while one is being
\* connected begins a second.
OneSocket == Cardinality({s \in sockets : s.mine /\ s.at # "token"}) <= 1
=============================================================================
