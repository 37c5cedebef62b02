--------------------------- MODULE OrderLifecycle ---------------------------
(***************************************************************************)
(* Orders, the stock they hold, their payment, their delivery and the      *)
(* refund they may be owed, at the grain of database transactions: one     *)
(* action is one transaction of one service method.  Every such method     *)
(* takes the Order row lock first (Order -> Payment -> Fulfillment ->      *)
(* Reservation -> Lots, see order.py, payment.py, fulfillment.py,          *)
(* inventory_reservation.py), so two transactions on one order do not      *)
(* overlap and transactions of two orders meet only on the lots.           *)
(* Initiating an online payment spans two transactions with a network call *)
(* between them; inFlight counts the handlers that are between the two.    *)
(* A definition named Slip_... is not part of the model: it is a plausible *)
(* mistake in the definition that follows it, kept to show that a property *)
(* would catch it.                                                         *)
(***************************************************************************)
EXTENDS OrderStates, Integers, FiniteSets, Functions

CONSTANTS
  Orders,       \* the orders that may be placed
  Lots,         \* the inventory lots of the products they are placed for
  Needs,        \* the amounts, in base units, an order may ask for
  MaxStock,     \* bound: base units a lot is ever filled up to
  MaxInFlight   \* bound: handlers of one order between commit and gateway answer

ASSUME NeedsAssumption == Needs \subseteq Nat \ {0}
ASSUME MaxStockAssumption == MaxStock \in Nat
ASSUME MaxInFlightAssumption == MaxInFlight \in Nat

VARIABLES
  order,        \* orders.status
  reservation,  \* inventory_reservations.status (one row per order, ever)
  overdue,      \* inventory_reservations.expires_at <= now
  alloc,        \* inventory_reservation_items.quantity_base per lot
  quantity,     \* inventory_lots.quantity_base
  reserved,     \* inventory_lots.reserved_base
  method,       \* payments.payment_method
  payment,      \* payments.status
  ref,          \* payments.gateway_order_id has been recorded
  inFlight,     \* initiate calls awaiting the gateway's answer
  fulfillment,  \* fulfillments.status
  assignment,   \* status of the order's active delivery assignment
  refund        \* a refunds row exists (its own life: RefundProcessing)

orderVars == <<order, reservation, overdue, alloc>>
stockVars == <<quantity, reserved>>
payVars   == <<method, payment, ref, inFlight>>
shipVars  == <<fulfillment, assignment>>
vars == <<order, reservation, overdue, alloc, quantity, reserved, method, payment,
          ref, inFlight, fulfillment, assignment, refund>>

(* What one payment verdict may change besides the payment itself. *)
settledVars == <<order, reservation, reserved, fulfillment, refund>>

ActiveAssignment == {"ASSIGNED", "ACCEPTED", "PICKED_UP", "OUT_FOR_DELIVERY"}

TypeOK ==
  /\ order \in [Orders -> OrderStatus \cup {"NONE"}]
  /\ reservation \in [Orders -> ReservationStatus \cup {"NONE"}]
  /\ overdue \in [Orders -> BOOLEAN]
  /\ alloc \in [Orders -> [Lots -> Nat]]
  /\ quantity \in [Lots -> Int]
  /\ reserved \in [Lots -> Int]
  /\ method \in [Orders -> {"NONE", "COD", "UPI"}]
  /\ payment \in [Orders -> PaymentStatus \cup {"NONE"}]
  /\ ref \in [Orders -> BOOLEAN]
  /\ inFlight \in [Orders -> Nat]
  /\ fulfillment \in [Orders -> FulfillmentStatus \cup {"NONE"}]
  /\ assignment \in [Orders -> ActiveAssignment \cup {"NONE"}]
  /\ refund \in [Orders -> BOOLEAN]

Init ==
  /\ order = [o \in Orders |-> "NONE"]
  /\ reservation = [o \in Orders |-> "NONE"]
  /\ overdue = [o \in Orders |-> FALSE]
  /\ alloc = [o \in Orders |-> [l \in Lots |-> 0]]
  /\ quantity \in [Lots -> 0..MaxStock]
  /\ reserved = [l \in Lots |-> 0]
  /\ method = [o \in Orders |-> "NONE"]
  /\ payment = [o \in Orders |-> "NONE"]
  /\ ref = [o \in Orders |-> FALSE]
  /\ inFlight = [o \in Orders |-> 0]
  /\ fulfillment = [o \in Orders |-> "NONE"]
  /\ assignment = [o \in Orders |-> "NONE"]
  /\ refund = [o \in Orders |-> FALSE]

-----------------------------------------------------------------------------
Slip_AvailableIgnoresReserved(l) == quantity[l]

(* Checkout: the order, its reservation and the stock it holds, in one     *)
(* transaction, or nothing at all when the lots cannot cover the need.     *)
(* Which lots cover it is the FIFO rule of create_reservation_for_order;   *)
(* here every way of covering the need is allowed.                         *)

Available(l) == quantity[l] - reserved[l]

Allocations(need) ==
  {a \in [Lots -> 0..need] : /\ \A l \in Lots : a[l] = 0 \/ a[l] <= Available(l)
                             /\ SumFunction(a) = need}

Checkout(o) ==
  /\ order[o] = "NONE"
  /\ \E need \in Needs : \E a \in Allocations(need) :
       /\ alloc' = [alloc EXCEPT ![o] = a]
       /\ reserved' = [l \in Lots |-> reserved[l] + a[l]]
  /\ order' = [order EXCEPT ![o] = "PENDING"]
  /\ reservation' = [reservation EXCEPT ![o] = "ACTIVE"]
  /\ UNCHANGED <<overdue, quantity, payVars, shipVars, refund>>

(* The clock reaches expires_at of a reservation somebody still waits on. *)
WindowLapses(o) ==
  /\ reservation[o] = "ACTIVE"
  /\ ~overdue[o]
  /\ overdue' = [overdue EXCEPT ![o] = TRUE]
  /\ UNCHANGED <<order, reservation, alloc, stockVars, payVars, shipVars, refund>>

-----------------------------------------------------------------------------
(* The reservation's own transitions, called from inside a transaction. *)

ReleaseStock(o) == reserved' = [l \in Lots |-> reserved[l] - alloc[o][l]]

CanCommit(o) ==
  \/ reservation[o] = "COMMITTED"
  \/ reservation[o] = "ACTIVE" /\ ~overdue[o]

Commit(o) ==
  /\ reservation' = [reservation EXCEPT ![o] = "COMMITTED"]
  /\ fulfillment' = [fulfillment EXCEPT ![o] = IF @ = "NONE" THEN "PENDING" ELSE @]

Slip_ExpireKeepsStock(o) ==
  /\ UNCHANGED reserved
  /\ reservation' = [reservation EXCEPT ![o] = "EXPIRED"]
  /\ order' = [order EXCEPT ![o] = IF @ = "PENDING" THEN "EXPIRED" ELSE @]

Slip_ExpireKeepsOrder(o) ==
  /\ ReleaseStock(o)
  /\ reservation' = [reservation EXCEPT ![o] = "EXPIRED"]
  /\ UNCHANGED order

Expire(o) ==
  /\ ReleaseStock(o)
  /\ reservation' = [reservation EXCEPT ![o] = "EXPIRED"]
  /\ order' = [order EXCEPT ![o] = IF @ = "PENDING" THEN "EXPIRED" ELSE @]

(* create_refund_if_eligible, asked with the payment's status at that point. *)
CreateRefundIfEligible(o, status) ==
  refund' = [refund EXCEPT ![o] = @ \/ (method[o] = "UPI" /\ status = "PAID")]

-----------------------------------------------------------------------------
(* Payment. *)

(* COD confirms the order at once; a lapsed window rolls everything back. *)
CreateCodPayment(o) ==
  /\ order[o] = "PENDING"
  /\ method[o] = "NONE"
  /\ CanCommit(o)
  /\ Commit(o)
  /\ order' = [order EXCEPT ![o] = "CONFIRMED"]
  /\ method' = [method EXCEPT ![o] = "COD"]
  /\ payment' = [payment EXCEPT ![o] = "PENDING"]
  /\ UNCHANGED <<overdue, alloc, stockVars, ref, inFlight, assignment, refund>>

(* First transaction of _initiate_upi: PROCESSING is committed before the  *)
(* gateway is called.                                                      *)
InitiateUpi(o) ==
  /\ inFlight[o] < MaxInFlight
  /\ inFlight' = [inFlight EXCEPT ![o] = @ + 1]
  /\ payment' = [payment EXCEPT ![o] = "PROCESSING"]
  /\ UNCHANGED <<orderVars, stockVars, ref, shipVars, refund>>

CreateUpiPayment(o) ==
  /\ order[o] = "PENDING"
  /\ method[o] = "NONE"
  /\ method' = [method EXCEPT ![o] = "UPI"]
  /\ InitiateUpi(o)

(* retry_payment looks at the payment only, never at the order's status. *)
RetryPayment(o) ==
  /\ method[o] = "UPI"
  /\ payment[o] \in CanRetryPayment
  /\ InitiateUpi(o)
  /\ UNCHANGED method

(* Pay-first checkout attaches the payment the customer made beforehand,   *)
(* whatever became of the order since it was placed.                       *)
AttachPaidPayment(o) ==
  /\ order[o] # "NONE"
  /\ method[o] = "NONE"
  /\ method' = [method EXCEPT ![o] = "UPI"]
  /\ payment' = [payment EXCEPT ![o] = "PROCESSING"]
  /\ ref' = [ref EXCEPT ![o] = TRUE]
  /\ UNCHANGED <<orderVars, stockVars, inFlight, shipVars, refund>>

Slip_ConfirmForgetsVoidOrders(o) ==
  \/ /\ order[o] = "PENDING"
     /\ CanCommit(o)
     /\ Commit(o)
     /\ order' = [order EXCEPT ![o] = "CONFIRMED"]
     /\ UNCHANGED <<reserved, refund>>
  \/ /\ order[o] # "PENDING" \/ ~CanCommit(o)
     /\ UNCHANGED settledVars

ConfirmOrderIfPaid(o) ==
  \/ /\ order[o] = "PENDING"
     /\ CanCommit(o)
     /\ Commit(o)
     /\ order' = [order EXCEPT ![o] = "CONFIRMED"]
     /\ UNCHANGED <<reserved, refund>>
  \/ /\ order[o] = "PENDING"
     /\ ~CanCommit(o)
     /\ IF reservation[o] = "ACTIVE"
          THEN Expire(o) /\ CreateRefundIfEligible(o, "PAID")
          ELSE UNCHANGED <<reserved, reservation, order, refund>>
     /\ UNCHANGED fulfillment
  \/ /\ order[o] \in {"CANCELLED", "EXPIRED"}
     /\ CreateRefundIfEligible(o, "PAID")
     /\ UNCHANGED <<order, reservation, reserved, fulfillment>>
  \/ /\ order[o] \notin {"PENDING", "CANCELLED", "EXPIRED"}
     /\ UNCHANGED settledVars

Slip_AnyVerdictConfirms(o, verdict) ==
  LET target == GatewayToPayment[verdict] IN
  /\ CanMove(PaymentTransitions, payment[o], target)
  /\ payment' = [payment EXCEPT ![o] = target]
  /\ ConfirmOrderIfPaid(o)

(* _apply_transaction_status followed by _confirm_order_if_paid.  A        *)
(* verdict the table refuses, or on a finished transaction, changes        *)
(* nothing.                                                                *)
ApplyVerdict(o, verdict) ==
  LET target == GatewayToPayment[verdict] IN
  /\ CanMove(PaymentTransitions, payment[o], target)
  /\ payment' = [payment EXCEPT ![o] = target]
  /\ IF target = "PAID" THEN ConfirmOrderIfPaid(o) ELSE UNCHANGED settledVars

(* verify_payment, or a webhook for this gateway order: the gateway may    *)
(* say anything of an order it knows, at any time, in any order.           *)
GatewayVerdict(o, verdict) ==
  /\ method[o] = "UPI"
  /\ ref[o]
  /\ ApplyVerdict(o, verdict)
  /\ UNCHANGED <<overdue, alloc, quantity, method, ref, inFlight, assignment>>

(* Second transaction of _initiate_upi, with the gateway's answer. *)
PersistInitiation(o, verdict) ==
  /\ inFlight[o] > 0
  /\ inFlight' = [inFlight EXCEPT ![o] = @ - 1]
  /\ ref' = [ref EXCEPT ![o] = TRUE]
  /\ \/ ApplyVerdict(o, verdict)
     \/ UNCHANGED <<payment, settledVars>>
  /\ UNCHANGED <<overdue, alloc, quantity, method, assignment>>

(* _fail_unresolved_attempt: the gateway refused the request outright. *)
FailInitiation(o) ==
  /\ inFlight[o] > 0
  /\ inFlight' = [inFlight EXCEPT ![o] = @ - 1]
  /\ payment' = [payment EXCEPT ![o] =
                   IF CanMove(PaymentTransitions, @, "FAILED") THEN "FAILED" ELSE @]
  /\ UNCHANGED <<orderVars, stockVars, method, ref, shipVars, refund>>

(* The answer never comes (timeout, 5xx), or the process dies waiting. *)
LoseInitiation(o) ==
  /\ inFlight[o] > 0
  /\ inFlight' = [inFlight EXCEPT ![o] = @ - 1]
  /\ UNCHANGED <<orderVars, stockVars, method, payment, ref, shipVars, refund>>

-----------------------------------------------------------------------------
(* Expiry and cancellation. *)

Slip_SweepSkipsPaying(o) ==
  /\ reservation[o] = "ACTIVE"
  /\ overdue[o]
  /\ payment[o] # "PROCESSING"
  /\ Expire(o)
  /\ UNCHANGED <<overdue, alloc, quantity, payVars, shipVars, refund>>

(* Background sweep (every 120 s) and the lazy expiry of a read. *)
SweepExpired(o) ==
  /\ reservation[o] = "ACTIVE"
  /\ overdue[o]
  /\ Expire(o)
  /\ UNCHANGED <<overdue, alloc, quantity, payVars, shipVars, refund>>

(* The operations endpoint expires an ACTIVE reservation, overdue or not. *)
ExpireReservation(o) ==
  /\ reservation[o] = "ACTIVE"
  /\ Expire(o)
  /\ UNCHANGED <<overdue, alloc, quantity, payVars, shipVars, refund>>

(* Customer or admin: any time before delivery is completed. *)
CancelOrder(o) ==
  /\ CanMove(OrderTransitions, order[o], "CANCELLED")
  /\ order' = [order EXCEPT ![o] = "CANCELLED"]
  /\ IF reservation[o] \in {"ACTIVE", "COMMITTED"}
       THEN /\ ReleaseStock(o)
            /\ reservation' = [reservation EXCEPT ![o] = "RELEASED"]
       ELSE UNCHANGED <<reserved, reservation>>
  /\ assignment' = [assignment EXCEPT ![o] = "NONE"]
  /\ CreateRefundIfEligible(o, payment[o])
  /\ UNCHANGED <<overdue, alloc, quantity, payVars, fulfillment>>

-----------------------------------------------------------------------------
(* Warehouse and delivery.  _assert_order_still_active guards every step. *)

AdvanceFulfillment(o) ==
  /\ order[o] = "CONFIRMED"
  /\ fulfillment[o] \in {"PENDING", "PICKING", "PACKED"}
  /\ fulfillment' = [fulfillment EXCEPT ![o] = FulfillmentNext[@]]
  /\ UNCHANGED <<orderVars, stockVars, payVars, assignment, refund>>

AssignPartner(o) ==
  /\ order[o] = "CONFIRMED"
  /\ fulfillment[o] = "READY_FOR_DELIVERY"
  /\ assignment[o] = "NONE"
  /\ fulfillment' = [fulfillment EXCEPT ![o] = "ASSIGNED"]
  /\ assignment' = [assignment EXCEPT ![o] = "ASSIGNED"]
  /\ UNCHANGED <<orderVars, stockVars, payVars, refund>>

(* Closes the running assignment and opens one for another partner. *)
ReassignPartner(o) ==
  /\ order[o] = "CONFIRMED"
  /\ fulfillment[o] = "ASSIGNED"
  /\ assignment[o] # "OUT_FOR_DELIVERY"
  /\ assignment' = [assignment EXCEPT ![o] = "ASSIGNED"]
  /\ UNCHANGED <<orderVars, stockVars, payVars, fulfillment, refund>>

(* The partner's accept / pickup / out_for_delivery steps. *)
PartnerSteps ==
  [ ASSIGNED |-> "ACCEPTED", ACCEPTED |-> "PICKED_UP", PICKED_UP |-> "OUT_FOR_DELIVERY" ]

PartnerStep(o) ==
  /\ order[o] = "CONFIRMED"
  /\ assignment[o] \in DOMAIN PartnerSteps
  /\ assignment' = [assignment EXCEPT ![o] = PartnerSteps[@]]
  /\ fulfillment' = [fulfillment EXCEPT ![o] =
       IF @ = "ASSIGNED" /\ assignment[o] = "PICKED_UP" THEN "OUT_FOR_DELIVERY" ELSE @]
  /\ UNCHANGED <<orderVars, stockVars, payVars, refund>>

Slip_MarkOutLeavesAssignment(o) ==
  /\ order[o] = "CONFIRMED"
  /\ fulfillment[o] = "ASSIGNED"
  /\ fulfillment' = [fulfillment EXCEPT ![o] = "OUT_FOR_DELIVERY"]
  /\ UNCHANGED <<orderVars, stockVars, payVars, assignment, refund>>

(* The older endpoint: straight to the road from any assigned step. *)
MarkOutForDelivery(o) ==
  /\ order[o] = "CONFIRMED"
  /\ fulfillment[o] = "ASSIGNED"
  /\ fulfillment' = [fulfillment EXCEPT ![o] = "OUT_FOR_DELIVERY"]
  /\ assignment' = [assignment EXCEPT ![o] = IF @ = "NONE" THEN @ ELSE "OUT_FOR_DELIVERY"]
  /\ UNCHANGED <<orderVars, stockVars, payVars, refund>>

ReleaseFulfillment(o) ==
  /\ order[o] = "CONFIRMED"
  /\ fulfillment[o] \in Reopenable
  /\ fulfillment' = [fulfillment EXCEPT ![o] = "READY_FOR_DELIVERY"]
  /\ assignment' = [assignment EXCEPT ![o] = "NONE"]
  /\ UNCHANGED <<orderVars, stockVars, payVars, refund>>

RejectAssignment(o) ==
  /\ assignment[o] = "ASSIGNED"
  /\ ReleaseFulfillment(o)

FailDelivery(o) ==
  /\ assignment[o] \in {"PICKED_UP", "OUT_FOR_DELIVERY"}
  /\ ReleaseFulfillment(o)

(* consume_reserved on every allocated lot: the reservation is undone and  *)
(* the same base units leave the lot, unless a lot can no longer give them. *)
CanConsume(o) ==
  \A l \in Lots : alloc[o][l] > 0 => /\ reserved[l] >= alloc[o][l]
                                     /\ quantity[l] >= reserved[l]

(* confirm_delivery: stock, cash, assignment, fulfillment and order at once. *)
ConfirmDelivery(o) ==
  /\ order[o] = "CONFIRMED"
  /\ fulfillment[o] = "OUT_FOR_DELIVERY"
  /\ reservation[o] = "COMMITTED"
  /\ CanConsume(o)
  /\ ReleaseStock(o)
  /\ quantity' = [l \in Lots |-> quantity[l] - alloc[o][l]]
  /\ payment' = [payment EXCEPT ![o] =
       IF method[o] = "COD" /\ CanMove(PaymentTransitions, @, "PAID") THEN "PAID" ELSE @]
  /\ assignment' = [assignment EXCEPT ![o] = "NONE"]
  /\ fulfillment' = [fulfillment EXCEPT ![o] = "DELIVERED"]
  /\ order' = [order EXCEPT ![o] = "COMPLETED"]
  /\ UNCHANGED <<reservation, overdue, alloc, method, ref, inFlight, refund>>

-----------------------------------------------------------------------------
(* Stock movements of the warehouse, through apply_movement_base. *)

ReceiveStock(l) ==
  /\ \E n \in Needs :
       /\ quantity[l] + n <= MaxStock
       /\ quantity' = [quantity EXCEPT ![l] = @ + n]
  /\ UNCHANGED <<orderVars, reserved, payVars, shipVars, refund>>

RemoveStock(l) ==
  /\ \E n \in Needs :
       /\ quantity[l] - n >= 0
       /\ quantity[l] - n >= reserved[l]
       /\ quantity' = [quantity EXCEPT ![l] = @ - n]
  /\ UNCHANGED <<orderVars, reserved, payVars, shipVars, refund>>

-----------------------------------------------------------------------------
PayStep(o) ==
  \/ CreateCodPayment(o)
  \/ CreateUpiPayment(o)
  \/ RetryPayment(o)
  \/ AttachPaidPayment(o)
  \/ \E verdict \in TransactionStatus : GatewayVerdict(o, verdict)
  \/ \E verdict \in TransactionStatus : PersistInitiation(o, verdict)
  \/ FailInitiation(o)
  \/ LoseInitiation(o)

ShipStep(o) ==
  \/ AdvanceFulfillment(o)
  \/ AssignPartner(o)
  \/ ReassignPartner(o)
  \/ PartnerStep(o)
  \/ MarkOutForDelivery(o)
  \/ RejectAssignment(o)
  \/ FailDelivery(o)
  \/ ConfirmDelivery(o)

Next ==
  \/ \E o \in Orders : \/ Checkout(o)
                       \/ WindowLapses(o)
                       \/ PayStep(o)
                       \/ SweepExpired(o)
                       \/ ExpireReservation(o)
                       \/ CancelOrder(o)
                       \/ ShipStep(o)
  \/ \E l \in Lots : ReceiveStock(l) \/ RemoveStock(l)

Spec == Init /\ [][Next]_vars

(* Time passes, and the sweep loop of app/main.py comes round every 120 s. *)
Fairness == \A o \in Orders : WF_vars(WindowLapses(o)) /\ WF_vars(SweepExpired(o))

FairSpec == Spec /\ Fairness

-----------------------------------------------------------------------------
(* Safety. *)

(* Orders whose allocation still counts against the lots. *)
Holding ==
  {o \in Orders : reservation[o] \in {"ACTIVE", "COMMITTED"} /\ order[o] # "COMPLETED"}

(* The base units of lot l held for orders, one element per unit. *)
HeldUnits(l) == UNION {{o} \X (1..alloc[o][l]) : o \in Holding}

(* The reserved counter of a lot is exactly the sum of the allocations of  *)
(* the orders that hold stock: no release is lost, doubled or applied to   *)
(* an order already delivered, whichever of sweep, payment, cancellation   *)
(* and delivery gets to the order first (_release_locked,                  *)
(* consume_reserved, create_reservation_for_order).                        *)
LedgerExact ==
  \A l \in Lots : /\ IsFiniteSet(HeldUnits(l))
                  /\ reserved[l] = Cardinality(HeldUnits(l))

(* A lot never promises more than is physically in it, across concurrent   *)
(* checkouts, deliveries and warehouse movements (apply_movement_base,     *)
(* create_reservation_for_order).                                          *)
NeverOversold == \A l \in Lots : 0 <= reserved[l] /\ reserved[l] <= quantity[l]

(* The order and its reservation tell the same story: what is awaiting     *)
(* payment holds an ACTIVE reservation, what is confirmed or delivered a   *)
(* COMMITTED one, and what is cancelled or expired has given its stock     *)
(* back.  This is what makes the "not committed" answer of                 *)
(* commit_reservation_for_order mean "the window lapsed".                  *)
ReservationOf ==
  [ NONE |-> "NONE", PENDING |-> "ACTIVE", CONFIRMED |-> "COMMITTED",
    COMPLETED |-> "COMMITTED", CANCELLED |-> "RELEASED", EXPIRED |-> "EXPIRED" ]

OrderMatchesReservation == \A o \in Orders : reservation[o] = ReservationOf[order[o]]

(* An online payment that reached PAID is never stranded: its order goes   *)
(* ahead, or a refund row is waiting for an admin - also when the money    *)
(* arrives after the cancellation, after the sweep or on the very request  *)
(* that finds the window lapsed (_confirm_order_if_paid).  A refund never  *)
(* exists for an order that is going ahead.                                *)
NoStrandedMoney ==
  \A o \in Orders :
    /\ method[o] = "UPI" /\ payment[o] = "PAID" =>
         order[o] \in {"CONFIRMED", "COMPLETED"} \/ refund[o]
    /\ refund[o] => /\ method[o] = "UPI" /\ payment[o] = "PAID"
                    /\ order[o] \in {"CANCELLED", "EXPIRED"}

(* Goods leave the warehouse only against money or a COD promise: an       *)
(* order confirmed online is paid, and a delivered order is paid, cash     *)
(* included (_confirm_cod, _collect_cod_payment).                          *)
ConfirmedIsBacked ==
  \A o \in Orders :
    /\ order[o] = "CONFIRMED" => \/ method[o] = "UPI" /\ payment[o] = "PAID"
                                 \/ method[o] = "COD" /\ payment[o] = "PENDING"
    /\ order[o] = "COMPLETED" => payment[o] = "PAID"

(* A partner is on the way exactly while the fulfillment says so, and only *)
(* for a confirmed order: cancellation takes the delivery off the road and *)
(* a failed or declined delivery goes back to the dispatch queue with no   *)
(* assignment left open (DeliveryAssignmentService, FulfillmentService).   *)
DeliveryInStep ==
  \A o \in Orders :
    /\ assignment[o] # "NONE" => order[o] = "CONFIRMED"
    /\ order[o] = "CONFIRMED" =>
         /\ assignment[o] \in {"ASSIGNED", "ACCEPTED", "PICKED_UP"}
              <=> fulfillment[o] = "ASSIGNED"
         /\ assignment[o] = "OUT_FOR_DELIVERY" <=> fulfillment[o] = "OUT_FOR_DELIVERY"
    /\ order[o] \in {"CONFIRMED", "COMPLETED"} => fulfillment[o] # "NONE"
    /\ fulfillment[o] = "DELIVERED" <=> order[o] = "COMPLETED"

-----------------------------------------------------------------------------
(* Action properties. *)

(* Once an order is cancelled, expired or completed, nothing about it      *)
(* moves but the payment and the refund: no late verdict, sweep, warehouse *)
(* step or second cancellation touches its reservation, its delivery or    *)
(* its status (order_state.py, _assert_order_still_active).                *)
TerminalOrdersFrozen ==
  [][\A o \in Orders : order[o] \in TerminalOrderStatus =>
       /\ order'[o] = order[o]
       /\ reservation'[o] = reservation[o]
       /\ fulfillment'[o] = fulfillment[o]
       /\ assignment'[o] = assignment[o]]_vars

(* Physical stock goes down in one of two ways only: the delivery of one   *)
(* order takes exactly what that order had allocated, from every lot at    *)
(* once and in the step that completes the order, or the warehouse removes *)
(* units that no order holds.                                              *)
StockLeavesOnce ==
  [][(\E l \in Lots : quantity'[l] < quantity[l]) =>
       \/ \E o \in Orders :
            /\ order[o] = "CONFIRMED" /\ order'[o] = "COMPLETED"
            /\ \A l \in Lots : quantity[l] - quantity'[l] = alloc[o][l]
       \/ /\ reserved' = reserved
          /\ \A l \in Lots : quantity'[l] >= reserved[l] \/ quantity'[l] = quantity[l]]_vars

(* Money once recorded stays recorded: PAID is never undone by a late or   *)
(* repeated verdict, and a refund once owed is never forgotten.            *)
MoneyIsRemembered ==
  [][\A o \in Orders : /\ payment[o] = "PAID" => payment'[o] = "PAID"
                       /\ refund[o] => refund'[o]]_vars

(* A status stays, its row is made, or the table allows the change, a row  *)
(* made and changed in one transaction included.                           *)
KeepsTable(table, first, from, to) ==
  LET start == IF from = "NONE" THEN first ELSE from IN
  \/ to = from \/ to = start
  \/ CanMove(table, start, to)

KeepsChain(from, to) ==
  \/ to = from
  \/ from = "NONE" /\ to = "PENDING"
  \/ from \in DOMAIN FulfillmentNext /\ to = FulfillmentNext[from]
  \/ from \in Reopenable /\ to = "READY_FOR_DELIVERY"

(* No transaction asks a state machine for a change it refuses, although   *)
(* most of them look at one of the four statuses and move others with it:  *)
(* no handler, sweep or verdict dies half-way on an Illegal...Transition   *)
(* of a row it did not look at (order_state.py, payment_state.py,          *)
(* reservation_state.py, fulfillment_state.py).                            *)
TablesAreKept ==
  [][\A o \in Orders :
       /\ KeepsTable(OrderTransitions, "PENDING", order[o], order'[o])
       /\ KeepsTable(PaymentTransitions, "PENDING", payment[o], payment'[o])
       /\ KeepsTable(ReservationTransitions, "ACTIVE", reservation[o], reservation'[o])
       /\ KeepsChain(fulfillment[o], fulfillment'[o])]_vars

-----------------------------------------------------------------------------
(* Refinement: what the rows of an order say of the promise. *)

StageOf ==
  [ NONE |-> "none", PENDING |-> "open", CONFIRMED |-> "confirmed",
    COMPLETED |-> "delivered", CANCELLED |-> "void", EXPIRED |-> "void" ]

GoodsOf(o) ==
  CASE order[o] = "COMPLETED" -> "shipped"
    [] reservation[o] \in {"RELEASED", "EXPIRED"} -> "returned"
    [] reservation[o] \in {"ACTIVE", "COMMITTED"} /\ order[o] # "COMPLETED" -> "held"
    [] OTHER -> "none"

MoneyOf(o) ==
  IF refund[o] THEN "owed" ELSE IF payment[o] = "PAID" THEN "paid" ELSE "unpaid"

Promise == INSTANCE OrderPromise
  WITH stage <- [o \in Orders |-> StageOf[order[o]]],
       goods <- [o \in Orders |-> GoodsOf(o)],
       money <- [o \in Orders |-> MoneyOf(o)]

(* The transactions of the backend, in any order and with any gateway      *)
(* verdicts, keep the promise of OrderPromise: each is one of its steps or *)
(* invisible to the customer.                                              *)
PromiseKept == Promise!Spec

-----------------------------------------------------------------------------
(* Liveness. *)

(* No order waits for a decision for ever, whatever payment attempts,      *)
(* failures, retries and lost answers happen meanwhile: the window lapses  *)
(* and the sweep frees the stock.                                          *)
EveryOrderIsDecided ==
  \A o \in Orders : order[o] = "PENDING" ~> order[o] # "PENDING"
=============================================================================
