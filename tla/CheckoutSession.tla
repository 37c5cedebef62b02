--------------------------- MODULE CheckoutSession ---------------------------
(***************************************************************************)
(* Pay-first checkout of one customer: a session is priced from the cart   *)
(* and paid at the gateway before any order exists; _finalize, run by the  *)
(* app's callback, the customer's re-check, the webhook and the reconcile  *)
(* loop, makes the order, attaches the payment, or gives the money back.   *)
(* A worker is one such run.  _finalize is not one transaction: placing    *)
(* the order, attaching the payment, verify_payment and the last update    *)
(* each commit, and the session lock it started under is gone after the    *)
(* first commit.  An action is one transaction.  A customer has one open   *)
(* cart at a time and a cart at most one order, so an order is named by    *)
(* its cart; a cart is checked out once its order exists.  Reservations    *)
(* and the payment's own attempts are OrderLifecycle's.                    *)
(***************************************************************************)
EXTENDS Integers

CONSTANTS
  Workers,       \* concurrent runs of _finalize
  MaxSessions,   \* bound: checkout sessions the customer opens
  MaxCarts,      \* bound: carts the customer fills
  MaxPrice       \* bound: largest total of a cart

ASSUME BoundsAssumption == {MaxSessions, MaxCarts, MaxPrice} \subseteq Nat \ {0}

VARIABLES
  cart,      \* the latest cart
  total,     \* what a cart costs; 0 when it is empty
  order,     \* orders.status of the cart's order; CANCELLED and EXPIRED are VOID
  payOf,     \* whose gateway order the order's payment points at
  paid,      \* that payment is PAID
  owed,      \* a refund row waits for the admin's approval
  session,   \* checkout_sessions rows
  money,     \* what the gateway holds for the session
  job        \* what each worker does next, for which session and order

vars == <<cart, total, order, payOf, paid, owed, session, money, job>>
orderVars == <<order, payOf, paid, owed>>

Carts    == 1..MaxCarts
Sessions == 1..MaxSessions

NoPayment == 0
Cod       == -1   \* a payment the customer made for the order itself

Idle == [step |-> "idle", s |-> 0, c |-> 0, held |-> FALSE]
Job(step, s, c, held) == [step |-> step, s |-> s, c |-> c, held |-> held]
Unborn == [status |-> "NONE", amount |-> 0, cart |-> 0, order |-> 0]

TypeOK ==
  /\ cart \in Carts
  /\ total \in [Carts -> 0..MaxPrice]
  /\ order \in [Carts -> {"NONE", "PENDING", "CONFIRMED", "VOID"}]
  /\ payOf \in [Carts -> {NoPayment, Cod} \cup Sessions]
  /\ paid \in [Carts -> BOOLEAN]
  /\ owed \in [Carts -> BOOLEAN]
  /\ session \in [Sessions -> [
       status : {"NONE", "PENDING", "COMPLETED", "REFUNDED", "REFUND_FAILED"},
       amount : 0..MaxPrice, cart : 0..MaxCarts, order : 0..MaxCarts]]
  /\ money \in [Sessions -> {"unpaid", "captured", "refunding", "refunded"}]
  /\ job \in [Workers -> [
       step : {"idle", "attach", "verify", "complete", "refund"},
       s : 0..MaxSessions, c : 0..MaxCarts, held : BOOLEAN]]

Init ==
  /\ cart = 1
  /\ total = [c \in Carts |-> 0]
  /\ order = [c \in Carts |-> "NONE"]
  /\ payOf = [c \in Carts |-> NoPayment]
  /\ paid = [c \in Carts |-> FALSE]
  /\ owed = [c \in Carts |-> FALSE]
  /\ session = [s \in Sessions |-> Unborn]
  /\ money = [s \in Sessions |-> "unpaid"]
  /\ job = [w \in Workers |-> Idle]

(* Row locks a worker keeps from one of its steps to the next.  A worker   *)
(* that found the order instead of placing it has not committed yet.       *)
SessionFree(s) == \A w \in Workers : ~(job[w].held /\ job[w].s = s)
CartFree == \A w \in Workers : ~(job[w].held /\ job[w].c = cart)

-----------------------------------------------------------------------------
(* The customer. *)

(* Items are added, removed or repriced. *)
ChangeCart ==
  /\ order[cart] = "NONE"
  /\ \E t \in 0..MaxPrice : total' = [total EXCEPT ![cart] = t]
  /\ UNCHANGED <<cart, orderVars, session, money, job>>

(* After a checkout the customer opens a new cart, empty at first. *)
NewCart ==
  /\ order[cart] # "NONE"
  /\ cart < MaxCarts
  /\ cart' = cart + 1
  /\ UNCHANGED <<total, orderVars, session, money, job>>

(* start: an open session of the same cart and amount is used again.       *)
Start(s) ==
  /\ session[s].status = "NONE"
  /\ \A r \in Sessions : r < s => session[r].status # "NONE"
  /\ order[cart] = "NONE" /\ total[cart] > 0
  /\ ~\E r \in Sessions : /\ session[r].status = "PENDING"
                          /\ session[r].cart = cart
                          /\ session[r].amount = total[cart]
  /\ session' = [session EXCEPT ![s] =
       [status |-> "PENDING", amount |-> total[cart], cart |-> cart, order |-> 0]]
  /\ UNCHANGED <<cart, total, orderVars, money, job>>

(* The customer pays the session's gateway order, whenever he likes. *)
Pay(s) ==
  /\ session[s].status # "NONE"
  /\ money[s] = "unpaid"
  /\ money' = [money EXCEPT ![s] = "captured"]
  /\ UNCHANGED <<cart, total, orderVars, session, job>>

(* The ordinary checkout and payment of the order, without a session. *)
PlaceDirectly ==
  /\ CartFree
  /\ order[cart] = "NONE" /\ total[cart] > 0
  /\ order' = [order EXCEPT ![cart] = "PENDING"]
  /\ UNCHANGED <<cart, total, payOf, paid, owed, session, money, job>>

PayDirectly(c) ==
  /\ order[c] = "PENDING"
  /\ payOf[c] = NoPayment
  /\ payOf' = [payOf EXCEPT ![c] = Cod]
  /\ order' = [order EXCEPT ![c] = "CONFIRMED"]
  /\ UNCHANGED <<cart, total, paid, owed, session, money, job>>

Slip_VoidKeepsMoney(c) ==
  /\ order[c] \in {"PENDING", "CONFIRMED"}
  /\ order' = [order EXCEPT ![c] = "VOID"]
  /\ UNCHANGED <<cart, total, payOf, paid, owed, session, money, job>>

(* Cancelled, or expired by the sweep. *)
Void(c) ==
  /\ order[c] \in {"PENDING", "CONFIRMED"}
  /\ order' = [order EXCEPT ![c] = "VOID"]
  /\ owed' = [owed EXCEPT ![c] = @ \/ paid[c]]
  /\ UNCHANGED <<cart, total, payOf, paid, session, money, job>>

-----------------------------------------------------------------------------
(* _finalize, up to its first commit: the session is locked and PENDING,   *)
(* the gateway says it is paid, and checkout locks the latest cart.        *)

Slip_TrustClient(s) == TRUE

(* query_status: a refunded payment also counts as captured. *)
PaidAtGateway(s) == money[s] # "unpaid"

CanFinalize(w, s) ==
  /\ job[w] = Idle
  /\ session[s].status = "PENDING"
  /\ PaidAtGateway(s)
  /\ SessionFree(s) /\ CartFree

(* The cart still costs what was paid: the order is placed and committed,  *)
(* which gives up the locks.                                               *)
PlaceOrder(w, s) ==
  /\ CanFinalize(w, s)
  /\ order[cart] = "NONE" /\ total[cart] = session[s].amount
  /\ order' = [order EXCEPT ![cart] = "PENDING"]
  /\ job' = [job EXCEPT ![w] = Job("attach", s, cart, FALSE)]
  /\ UNCHANGED <<cart, total, payOf, paid, owed, session, money>>

Slip_FindOnlyOwn(w, s) ==
  /\ CanFinalize(w, s)
  /\ order[cart] # "NONE" /\ payOf[cart] = s
  /\ job' = [job EXCEPT ![w] = Job("attach", s, cart, TRUE)]
  /\ UNCHANGED <<cart, total, orderVars, session, money>>

(* The cart is already checked out, and its order carries no payment yet   *)
(* or this session's.  What the order costs is not compared.               *)
FindOrder(w, s) ==
  /\ CanFinalize(w, s)
  /\ order[cart] # "NONE" /\ payOf[cart] \in {NoPayment, s}
  /\ job' = [job EXCEPT ![w] = Job("attach", s, cart, TRUE)]
  /\ UNCHANGED <<cart, total, orderVars, session, money>>

(* No order for this money: the cart is empty, costs something else, is    *)
(* out of stock or has lost its address, or its order is paid otherwise.   *)
RefuseOrder(w, s) ==
  /\ CanFinalize(w, s)
  /\ order[cart] # "NONE" => payOf[cart] \notin {NoPayment, s}
  /\ job' = [job EXCEPT ![w] = Job("refund", s, 0, FALSE)]
  /\ UNCHANGED <<cart, total, orderVars, session, money>>

-----------------------------------------------------------------------------
(* The later transactions of _finalize. *)

Slip_PaymentNeverTaken(s) == FALSE

(* UNIQUE (gateway_name, gateway_order_id) on payments. *)
PaymentTaken(s) == \E c \in Carts : payOf[c] = s

(* _attach_paid_payment: whatever payment the order has by now is returned *)
(* as it is, without a commit; a payment that serves another order already *)
(* makes the insert fail and ends the run with an error.                   *)
Attach(w) ==
  LET s == job[w].s  c == job[w].c IN
  /\ job[w].step = "attach"
  /\ \/ /\ payOf[c] # NoPayment
        /\ job' = [job EXCEPT ![w] = Job("verify", s, c, job[w].held)]
        /\ UNCHANGED payOf
     \/ /\ payOf[c] = NoPayment /\ PaymentTaken(s)
        /\ job' = [job EXCEPT ![w] = Idle]
        /\ UNCHANGED payOf
     \/ /\ payOf[c] = NoPayment /\ ~PaymentTaken(s)
        /\ payOf' = [payOf EXCEPT ![c] = s]
        /\ job' = [job EXCEPT ![w] = Job("verify", s, c, FALSE)]
  /\ UNCHANGED <<cart, total, order, paid, owed, session, money>>

(* The gateway's SUCCESS for the payment of order c: the order is          *)
(* confirmed, or expires because its reservation has, or was void before;  *)
(* without an order the money is owed.                                     *)
Settle(c) ==
  /\ paid' = [paid EXCEPT ![c] = TRUE]
  /\ \/ /\ order[c] = "PENDING"
        /\ order' = [order EXCEPT ![c] = "CONFIRMED"]
        /\ UNCHANGED owed
     \/ /\ order[c] \in {"PENDING", "VOID"}
        /\ order' = [order EXCEPT ![c] = "VOID"]
        /\ owed' = [owed EXCEPT ![c] = TRUE]

Unsettled(c) == payOf[c] \in Sessions /\ ~paid[c]

VerifyPayment(w) ==
  /\ job[w].step = "verify"
  /\ IF Unsettled(job[w].c) THEN Settle(job[w].c) ELSE UNCHANGED <<order, paid, owed>>
  /\ job' = [job EXCEPT ![w] = Job("complete", job[w].s, job[w].c, FALSE)]
  /\ UNCHANGED <<cart, total, payOf, session, money>>

(* payment.captured or the payment's own verify, once it is attached. *)
PaymentWebhook(c) ==
  /\ Unsettled(c)
  /\ Settle(c)
  /\ UNCHANGED <<cart, total, payOf, session, money, job>>

(* The session is locked again; its status is not looked at again. *)
Complete(w) ==
  LET s == job[w].s IN
  /\ job[w].step = "complete"
  /\ SessionFree(s)
  /\ session' = [session EXCEPT ![s].status = "COMPLETED", ![s].order = job[w].c]
  /\ job' = [job EXCEPT ![w] = Idle]
  /\ UNCHANGED <<cart, total, orderVars, money>>

-----------------------------------------------------------------------------
(* Giving the money back. *)

(* refund_payment: the gateway takes the refund for later, gives the money *)
(* back, or has the refund fail; it takes no second one.                   *)
Asked(m) == IF m = "captured" THEN {"captured", "refunding", "refunded"} ELSE {m}

(* What _try_refund writes when the gateway had m and is left with n: any  *)
(* answer that does not raise is REFUNDED, also one of a refund that is    *)
(* pending or failed.  After a call that raised the payment is looked up,  *)
(* and that may or may not tell.                                           *)
RefundVerdicts(m, n) ==
  {"REFUND_FAILED"} \cup (IF m = "captured" \/ n = "refunded" THEN {"REFUNDED"} ELSE {})

TryRefund(s) ==
  \E m \in Asked(money[s]) :
    /\ money' = [money EXCEPT ![s] = m]
    /\ \E v \in RefundVerdicts(money[s], m) : session' = [session EXCEPT ![s].status = v]

(* A refund the gateway has taken is paid out, or fails.                   *)
RefundEnds(s) ==
  /\ money[s] = "refunding"
  /\ \E m \in {"captured", "refunded"} : money' = [money EXCEPT ![s] = m]
  /\ UNCHANGED <<cart, total, orderVars, session, job>>

(* _refund_and_fail: a new transaction after the rollback, and the status  *)
(* is not looked at again.                                                 *)
RefundAndFail(w) ==
  /\ job[w].step = "refund"
  /\ SessionFree(job[w].s)
  /\ TryRefund(job[w].s)
  /\ job' = [job EXCEPT ![w] = Idle]
  /\ UNCHANGED <<cart, total, orderVars>>

RetryFailedRefund(s) ==
  /\ session[s].status = "REFUND_FAILED"
  /\ SessionFree(s)
  /\ TryRefund(s)
  /\ UNCHANGED <<cart, total, orderVars, job>>

(* The process dies, or a call to the gateway raises.  A refund that was   *)
(* asked for may have happened.                                            *)
Crash(w) ==
  /\ job[w] # Idle
  /\ IF job[w].step = "refund"
       THEN \E m \in Asked(money[job[w].s]) : money' = [money EXCEPT ![job[w].s] = m]
       ELSE UNCHANGED money
  /\ job' = [job EXCEPT ![w] = Idle]
  /\ UNCHANGED <<cart, total, orderVars, session>>

-----------------------------------------------------------------------------
Finalize(w, s) == PlaceOrder(w, s) \/ FindOrder(w, s) \/ RefuseOrder(w, s)

WorkerStep(w) ==
  \/ \E s \in Sessions : Finalize(w, s)
  \/ Attach(w) \/ VerifyPayment(w) \/ Complete(w) \/ RefundAndFail(w) \/ Crash(w)

Next ==
  \/ ChangeCart \/ NewCart \/ PlaceDirectly
  \/ \E s \in Sessions : Start(s) \/ Pay(s) \/ RetryFailedRefund(s) \/ RefundEnds(s)
  \/ \E c \in Carts : PayDirectly(c) \/ Void(c) \/ PaymentWebhook(c)
  \/ \E w \in Workers : WorkerStep(w)

Spec == Init /\ [][Next]_vars

(* The reconcile loop, the webhook's redelivery and the customer's         *)
(* re-check try a paid session again and again, and not every try dies at  *)
(* the same place.                                                         *)
Fairness ==
  \A s \in Sessions :
    /\ SF_vars(\E w \in Workers : Finalize(w, s))
    /\ SF_vars(\E w \in Workers : job[w].s = s /\ Attach(w))
    /\ SF_vars(\E w \in Workers : job[w].s = s /\ VerifyPayment(w))
    /\ SF_vars(\E w \in Workers : job[w].s = s /\ Complete(w))
    /\ SF_vars(\E w \in Workers : job[w].s = s /\ RefundAndFail(w))

FairSpec == Spec /\ Fairness

-----------------------------------------------------------------------------
(* Safety. *)

(* No order is confirmed on the strength of a session nobody has paid,     *)
(* however the runs of _finalize and the webhook interleave ("ask Razorpay *)
(* (not the client) whether the order was captured").                      *)
ConfirmedIsCaptured ==
  \A c \in Carts :
    order[c] = "CONFIRMED" /\ payOf[c] \in Sessions => money[payOf[c]] # "unpaid"

(* One payment pays for one order, also when a session is finalised again  *)
(* after the customer has moved on to another cart of the same price.      *)
OnePaymentOneOrder ==
  \A c, d \in Carts : payOf[c] = payOf[d] /\ payOf[c] \in Sessions => c = d

(* A session that was completed by its own payment has put the money to    *)
(* use: the payment is PAID, and the order is confirmed or, if it was      *)
(* cancelled or expired meanwhile, a refund row waits.                     *)
CompletedIsSettled ==
  \A s \in Sessions :
    LET c == session[s].order IN
    session[s].status = "COMPLETED" /\ payOf[c] = s =>
      paid[c] /\ (order[c] = "CONFIRMED" \/ owed[c])

-----------------------------------------------------------------------------
(* What the docstrings claim, and the model refutes. *)

(* A session is REFUNDED when the payment "could not be turned into an     *)
(* order" (models/checkout_session.py): never both goods and money.        *)
GoodsOrMoney ==
  ~\E c \in Carts, s \in Sessions :
     order[c] = "CONFIRMED" /\ payOf[c] = s /\ session[s].status = "REFUNDED"

(* "Your payment has been refunded." (_refund_sentence): REFUNDED only     *)
(* when the gateway has given the money back.  A refund that is answered   *)
(* pending or failed, or fails later, is REFUNDED and never tried again.   *)
RefundedMeansMoneyBack ==
  \A s \in Sessions : session[s].status = "REFUNDED" => money[s] = "refunded"

(* "If the cart now prices to anything else the order is refused" (order.  *)
(* py, expected_total): an order confirmed by a session costs its amount.  *)
PaidInFull ==
  \A c \in Carts :
    order[c] = "CONFIRMED" /\ payOf[c] \in Sessions => total[c] = session[payOf[c]].amount

(* Money for an order that carries another payment is refunded, not        *)
(* silently attached (_finalize, PAY-001).                                 *)
AttachedOrRefunded ==
  \A s \in Sessions :
    session[s].status = "COMPLETED" => payOf[session[s].order] = s

-----------------------------------------------------------------------------
(* What the customer and the app see of a session. *)

StageOf(s) ==
  CASE session[s].status = "NONE" -> "none"
    [] session[s].status = "PENDING" -> "open"
    [] session[s].status = "COMPLETED" -> "ordered"
    [] session[s].status \in {"REFUNDED", "REFUND_FAILED"} -> "refused"

Promise == INSTANCE SessionPromise WITH
  stage  <- [s \in Sessions |-> StageOf(s)],
  funded <- [s \in Sessions |-> money[s] # "unpaid"]

(* No run of _finalize is about to give the money of a session back while  *)
(* another one is making an order of it.                                   *)
RunsAgree ==
  \A v, w \in Workers :
    job[v].step = "refund" /\ job[w].s = job[v].s => job[w].step = "refund"

(* A session is decided once, "idempotent" as _finalize says it is, in     *)
(* every behaviour in which the runs of one session agree.  Nothing makes  *)
(* them agree: Complete and RefundAndFail do not look at the status again. *)
SessionDecidedOnce == []RunsAgree => Promise!Spec

(* No run that has attached the payment ends, in a crash or because        *)
(* verify_payment raised, before the session is COMPLETED.                 *)
RunsFinishStep ==
  \A w \in Workers :
    job[w].step \in {"verify", "complete"} /\ job'[w] = Idle
      => session'[job[w].s].status = "COMPLETED"

RunsFinish == [][RunsFinishStep]_vars

(* Goods and money both need one of the two: a run that disagrees, or one  *)
(* that died after it attached the payment, so that the next one finds     *)
(* another cart and gives the money back.                                  *)
BothNeedsAReason == []RunsAgree /\ RunsFinish => []GoodsOrMoney

-----------------------------------------------------------------------------
(* Liveness. *)

(* "Paid but no order" does not last (reconcile_pending, PAY-005): a       *)
(* captured session is attached to an order, or leaves PENDING.            *)
CapturedIsSettled ==
  \A s \in Sessions :
    money[s] = "captured" ~> (session[s].status # "PENDING" \/ PaymentTaken(s))
=============================================================================
