------------------------ MODULE OrderLifecycle_proofs ------------------------
(***************************************************************************)
(* Proofs about OrderLifecycle for every set of orders and lots, every     *)
(* set of amounts and every bound: its invariants, then what no step of it *)
(* may do, and that it implements OrderPromise.                            *)
(***************************************************************************)
EXTENDS OrderLifecycle, FiniteSetTheorems, TLAPS

-----------------------------------------------------------------------------
(* The transition tables, as the steps below use them. *)

(* What the order table allows into CANCELLED. *)
LEMMA CancelFrom ==
  \A s \in OrderStatus \cup {"NONE"} :
    CanMove(OrderTransitions, s, "CANCELLED") <=> s \in {"PENDING", "CONFIRMED"}
  BY DEF OrderStatus, CanMove, OrderTransitions

(* Every verdict asks for a payment status, PAID only for SUCCESS. *)
LEMMA VerdictTarget ==
  \A v \in TransactionStatus :
    /\ GatewayToPayment[v] \in PaymentStatus
    /\ GatewayToPayment[v] # "PENDING"
  BY DEF TransactionStatus, GatewayToPayment, PaymentStatus

(* PAID and CANCELLED are final in the payment table, and only the two     *)
(* unresolved statuses can reach PAID.                                     *)
LEMMA PaymentMoves ==
  \A s \in PaymentStatus \cup {"NONE"}, t \in PaymentStatus :
    CanMove(PaymentTransitions, s, t) =>
      /\ s \notin {"NONE", "PAID", "CANCELLED"}
      /\ t = "PAID" => s \in {"PENDING", "PROCESSING"}
  BY DEF PaymentStatus, CanMove, PaymentTransitions

(* Shapes of the helpers that several transactions call. *)
LEMMA ReleaseStockType ==
  ASSUME TypeOK, NEW o \in Orders, ReleaseStock(o)
  PROVE  reserved' \in [Lots -> Int]
<1>1. \A l \in Lots : reserved[l] - alloc[o][l] \in Int
  BY DEF TypeOK
<1> QED
  BY <1>1 DEF ReleaseStock

LEMMA RefundType ==
  ASSUME TypeOK, NEW o \in Orders, NEW status, CreateRefundIfEligible(o, status)
  PROVE  refund' \in [Orders -> BOOLEAN]
  BY DEF TypeOK, CreateRefundIfEligible

LEMMA ExpireType ==
  ASSUME TypeOK, NEW o \in Orders, Expire(o)
  PROVE  /\ reserved' \in [Lots -> Int]
         /\ reservation' \in [Orders -> ReservationStatus \cup {"NONE"}]
         /\ order' \in [Orders -> OrderStatus \cup {"NONE"}]
<1>1. reserved' \in [Lots -> Int]
  BY ReleaseStockType DEF Expire
<1>2. reservation' \in [Orders -> ReservationStatus \cup {"NONE"}]
  BY DEF TypeOK, Expire, ReservationStatus
<1>3. order' \in [Orders -> OrderStatus \cup {"NONE"}]
  BY DEF TypeOK, Expire, OrderStatus
<1> QED
  BY <1>1, <1>2, <1>3

-----------------------------------------------------------------------------
(* Every row keeps the shape and the status set its table allows, whatever *)
(* transactions run: no handler writes a status outside its own machine.   *)
THEOREM TypeCorrect == Spec => []TypeOK
<1>1. Init => TypeOK
  BY DEF Init, TypeOK
<1>2. ASSUME TypeOK, [Next]_vars
      PROVE  TypeOK'
  <2> USE <1>2, NeedsAssumption DEF TypeOK, orderVars, stockVars, payVars, shipVars
  <2>1. ASSUME NEW o \in Orders, Checkout(o) PROVE TypeOK'
    <3>1. PICK need \in Needs : \E a \in Allocations(need) :
             /\ alloc' = [alloc EXCEPT ![o] = a]
             /\ reserved' = [l \in Lots |-> reserved[l] + a[l]]
      BY <2>1 DEF Checkout
    <3>2. PICK a \in [Lots -> 0..need] :
             /\ alloc' = [alloc EXCEPT ![o] = a]
             /\ reserved' = [l \in Lots |-> reserved[l] + a[l]]
      BY <3>1 DEF Allocations
    <3>3. a \in [Lots -> Nat]
      BY <3>2
    <3>4. alloc' \in [Orders -> [Lots -> Nat]] /\ reserved' \in [Lots -> Int]
      BY <3>2, <3>3
    <3> QED
      BY <2>1, <3>4 DEF Checkout, OrderStatus, ReservationStatus
  <2>2. ASSUME NEW o \in Orders, WindowLapses(o) PROVE TypeOK'
    BY <2>2 DEF WindowLapses
  <2>3. ASSUME NEW o \in Orders, PayStep(o) PROVE TypeOK'
    <3>1. CASE CreateCodPayment(o)
      BY <3>1 DEF CreateCodPayment, Commit, OrderStatus, ReservationStatus,
                  PaymentStatus, FulfillmentStatus
    <3>2. CASE CreateUpiPayment(o)
      BY <3>2 DEF CreateUpiPayment, InitiateUpi, PaymentStatus
    <3>3. CASE RetryPayment(o)
      BY <3>3 DEF RetryPayment, InitiateUpi, PaymentStatus
    <3>4. CASE AttachPaidPayment(o)
      BY <3>4 DEF AttachPaidPayment, PaymentStatus
    <3>5. ASSUME NEW v \in TransactionStatus, ApplyVerdict(o, v)
          PROVE  /\ payment' \in [Orders -> PaymentStatus \cup {"NONE"}]
                 /\ order' \in [Orders -> OrderStatus \cup {"NONE"}]
                 /\ reservation' \in [Orders -> ReservationStatus \cup {"NONE"}]
                 /\ reserved' \in [Lots -> Int]
                 /\ fulfillment' \in [Orders -> FulfillmentStatus \cup {"NONE"}]
                 /\ refund' \in [Orders -> BOOLEAN]
      <4>1. payment' \in [Orders -> PaymentStatus \cup {"NONE"}]
        BY <3>5, VerdictTarget DEF ApplyVerdict
      <4>2. CASE ConfirmOrderIfPaid(o)
        <5>1. CASE Commit(o) /\ order' = [order EXCEPT ![o] = "CONFIRMED"]
                             /\ UNCHANGED <<reserved, refund>>
          BY <4>1, <5>1 DEF Commit, OrderStatus, ReservationStatus, FulfillmentStatus
        <5>2. CASE Expire(o) /\ CreateRefundIfEligible(o, "PAID") /\ UNCHANGED fulfillment
          BY <4>1, <5>2, ExpireType, RefundType
        <5>3. CASE CreateRefundIfEligible(o, "PAID")
                   /\ UNCHANGED <<order, reservation, reserved, fulfillment>>
          BY <4>1, <5>3, RefundType
        <5>4. CASE UNCHANGED settledVars
          BY <4>1, <5>4 DEF settledVars
        <5> QED
          BY <4>2, <5>1, <5>2, <5>3, <5>4 DEF ConfirmOrderIfPaid, settledVars
      <4>3. CASE UNCHANGED settledVars
        BY <4>1, <4>3 DEF settledVars
      <4> QED
        BY <3>5, <4>2, <4>3 DEF ApplyVerdict
    <3>6. ASSUME NEW v \in TransactionStatus, GatewayVerdict(o, v) PROVE TypeOK'
      BY <3>5, <3>6 DEF GatewayVerdict
    <3>7. ASSUME NEW v \in TransactionStatus, PersistInitiation(o, v) PROVE TypeOK'
      BY <3>5, <3>7 DEF PersistInitiation, settledVars
    <3>8. CASE FailInitiation(o)
      BY <3>8 DEF FailInitiation, PaymentStatus
    <3>9. CASE LoseInitiation(o)
      BY <3>9 DEF LoseInitiation
    <3> QED
      BY <2>3, <3>1, <3>2, <3>3, <3>4, <3>6, <3>7, <3>8, <3>9 DEF PayStep
  <2>4. ASSUME NEW o \in Orders, SweepExpired(o) \/ ExpireReservation(o) PROVE TypeOK'
    BY <2>4, ExpireType DEF SweepExpired, ExpireReservation
  <2>5. ASSUME NEW o \in Orders, CancelOrder(o) PROVE TypeOK'
    BY <2>5 DEF CancelOrder, ReleaseStock, CreateRefundIfEligible, OrderStatus,
                ReservationStatus
  <2>6. ASSUME NEW o \in Orders, ShipStep(o) PROVE TypeOK'
    <3>1. CASE AdvanceFulfillment(o)
      BY <3>1 DEF AdvanceFulfillment, FulfillmentNext, FulfillmentStatus
    <3>2. CASE AssignPartner(o) \/ ReassignPartner(o)
      BY <3>2 DEF AssignPartner, ReassignPartner, ActiveAssignment, FulfillmentStatus
    <3>3. CASE PartnerStep(o)
      BY <3>3 DEF PartnerStep, PartnerSteps, ActiveAssignment, FulfillmentStatus
    <3>4. CASE MarkOutForDelivery(o)
      BY <3>4 DEF MarkOutForDelivery, ActiveAssignment, FulfillmentStatus
    <3>5. CASE RejectAssignment(o) \/ FailDelivery(o)
      BY <3>5 DEF RejectAssignment, FailDelivery, ReleaseFulfillment, FulfillmentStatus
    <3>6. CASE ConfirmDelivery(o)
      BY <3>6 DEF ConfirmDelivery, ReleaseStock, OrderStatus, PaymentStatus,
                  FulfillmentStatus
    <3> QED
      BY <2>6, <3>1, <3>2, <3>3, <3>4, <3>5, <3>6 DEF ShipStep
  <2>7. ASSUME NEW l \in Lots, ReceiveStock(l) \/ RemoveStock(l) PROVE TypeOK'
    BY <2>7 DEF ReceiveStock, RemoveStock
  <2>8. CASE UNCHANGED vars
    BY <2>8 DEF vars
  <2> QED
    BY <2>1, <2>2, <2>3, <2>4, <2>5, <2>6, <2>7, <2>8 DEF Next
<1> QED
  BY <1>1, <1>2, PTL DEF Spec

-----------------------------------------------------------------------------
(* The inductive invariant: what the rows of one order may be at the same  *)
(* time.  The first four parts are the properties of OrderLifecycle, one   *)
(* order at a time; RowsComeInOrder is what they need to be inductive.     *)

MatchesReservation(o) == reservation[o] = ReservationOf[order[o]]

MoneyNotStranded(o) ==
  /\ method[o] = "UPI" /\ payment[o] = "PAID" =>
       order[o] \in {"CONFIRMED", "COMPLETED"} \/ refund[o]
  /\ refund[o] => /\ method[o] = "UPI" /\ payment[o] = "PAID"
                  /\ order[o] \in {"CANCELLED", "EXPIRED"}

Backed(o) ==
  /\ order[o] = "CONFIRMED" => \/ method[o] = "UPI" /\ payment[o] = "PAID"
                               \/ method[o] = "COD" /\ payment[o] = "PENDING"
  /\ order[o] = "COMPLETED" => payment[o] = "PAID"

InStep(o) ==
  /\ assignment[o] # "NONE" => order[o] = "CONFIRMED"
  /\ order[o] = "CONFIRMED" =>
       /\ assignment[o] \in {"ASSIGNED", "ACCEPTED", "PICKED_UP"}
            <=> fulfillment[o] = "ASSIGNED"
       /\ assignment[o] = "OUT_FOR_DELIVERY" <=> fulfillment[o] = "OUT_FOR_DELIVERY"
  /\ order[o] \in {"CONFIRMED", "COMPLETED"} => fulfillment[o] # "NONE"
  /\ fulfillment[o] = "DELIVERED" <=> order[o] = "COMPLETED"

(* A row appears only after the row it hangs off: no payment and no goods  *)
(* before the order, no gateway traffic before an online payment, no       *)
(* fulfillment and no COD payment before the order is confirmed, and no    *)
(* cash before the delivery.                                               *)
RowsComeInOrder(o) ==
  /\ order[o] = "NONE" => method[o] = "NONE"
  /\ method[o] = "NONE" <=> payment[o] = "NONE"
  /\ inFlight[o] > 0 \/ ref[o] => method[o] = "UPI"
  /\ order[o] \in {"NONE", "PENDING"} => fulfillment[o] = "NONE" /\ method[o] # "COD"
  /\ method[o] = "COD" => payment[o] = "PENDING" \/ order[o] = "COMPLETED"

OrderInv(o) ==
  /\ MatchesReservation(o)
  /\ MoneyNotStranded(o)
  /\ Backed(o)
  /\ InStep(o)
  /\ RowsComeInOrder(o)

Inv == TypeOK /\ \A o \in Orders : OrderInv(o)

(* The rows of order q an order's invariant speaks of are left alone. *)
RowsUntouched(q) ==
  /\ order'[q] = order[q]             /\ reservation'[q] = reservation[q]
  /\ method'[q] = method[q]           /\ payment'[q] = payment[q]
  /\ ref'[q] = ref[q]                 /\ inFlight'[q] = inFlight[q]
  /\ fulfillment'[q] = fulfillment[q] /\ assignment'[q] = assignment[q]
  /\ refund'[q] = refund[q]

LEMMA UntouchedKeepsInv ==
  ASSUME NEW q \in Orders, OrderInv(q), RowsUntouched(q)
  PROVE  OrderInv(q)'
<1> USE DEF RowsUntouched, OrderInv
<1>1. MatchesReservation(q)'
  BY DEF MatchesReservation, ReservationOf
<1>2. MoneyNotStranded(q)'
  BY DEF MoneyNotStranded
<1>3. Backed(q)'
  BY DEF Backed
<1>4. InStep(q)'
  BY DEF InStep
<1>5. RowsComeInOrder(q)'
  BY DEF RowsComeInOrder
<1> QED
  BY <1>1, <1>2, <1>3, <1>4, <1>5

(* A transaction on one order leaves the rows of every other order alone:  *)
(* they share nothing but the lots.                                        *)
LEMMA OthersUntouched ==
  ASSUME TypeOK, NEW o \in Orders, NEW q \in Orders, q # o,
         \/ Checkout(o) \/ WindowLapses(o) \/ PayStep(o) \/ SweepExpired(o)
         \/ ExpireReservation(o) \/ CancelOrder(o) \/ ShipStep(o)
  PROVE  RowsUntouched(q)
<1> USE DEF TypeOK, RowsUntouched, orderVars, stockVars, payVars, shipVars
<1>1. CASE Checkout(o)
  BY <1>1 DEF Checkout
<1>2. CASE WindowLapses(o)
  BY <1>2 DEF WindowLapses
<1>3. CASE PayStep(o)
  <2>1. CASE CreateCodPayment(o)
    BY <2>1 DEF CreateCodPayment, Commit
  <2>2. CASE CreateUpiPayment(o) \/ RetryPayment(o)
    BY <2>2 DEF CreateUpiPayment, RetryPayment, InitiateUpi
  <2>3. CASE AttachPaidPayment(o)
    BY <2>3 DEF AttachPaidPayment
  <2>4. ASSUME NEW v \in TransactionStatus, ApplyVerdict(o, v)
        PROVE  /\ payment'[q] = payment[q]         /\ order'[q] = order[q]
               /\ reservation'[q] = reservation[q] /\ refund'[q] = refund[q]
               /\ fulfillment'[q] = fulfillment[q]
    BY <2>4 DEF ApplyVerdict, ConfirmOrderIfPaid, settledVars, Commit, Expire,
                CreateRefundIfEligible
  <2>5. ASSUME NEW v \in TransactionStatus, GatewayVerdict(o, v) PROVE RowsUntouched(q)
    BY <2>4, <2>5 DEF GatewayVerdict
  <2>6. ASSUME NEW v \in TransactionStatus, PersistInitiation(o, v)
        PROVE  RowsUntouched(q)
    BY <2>4, <2>6 DEF PersistInitiation, settledVars
  <2>7. CASE FailInitiation(o) \/ LoseInitiation(o)
    BY <2>7 DEF FailInitiation, LoseInitiation
  <2> QED
    BY <1>3, <2>1, <2>2, <2>3, <2>5, <2>6, <2>7 DEF PayStep
<1>4. CASE SweepExpired(o) \/ ExpireReservation(o)
  BY <1>4 DEF SweepExpired, ExpireReservation, Expire
<1>5. CASE CancelOrder(o)
  BY <1>5 DEF CancelOrder, CreateRefundIfEligible
<1>6. CASE ShipStep(o)
  BY <1>6 DEF ShipStep, AdvanceFulfillment, AssignPartner, ReassignPartner, PartnerStep,
              MarkOutForDelivery, RejectAssignment, FailDelivery, ReleaseFulfillment,
              ConfirmDelivery
<1> QED
  BY <1>1, <1>2, <1>3, <1>4, <1>5, <1>6

-----------------------------------------------------------------------------
(* Each transaction keeps the invariant of the order it works on. *)

LEMMA CheckoutKeeps ==
  ASSUME TypeOK, NEW o \in Orders, OrderInv(o), Checkout(o) \/ WindowLapses(o)
  PROVE  OrderInv(o)'
<1> USE DEF TypeOK, OrderInv, MatchesReservation, ReservationOf, MoneyNotStranded, Backed,
            InStep, RowsComeInOrder, orderVars, payVars, shipVars, stockVars
<1>1. CASE Checkout(o)
  BY <1>1 DEF Checkout
<1>2. CASE WindowLapses(o)
  BY <1>2 DEF WindowLapses
<1> QED
  BY <1>1, <1>2

LEMMA ExpiryKeeps ==
  ASSUME TypeOK, NEW o \in Orders, OrderInv(o), SweepExpired(o) \/ ExpireReservation(o)
  PROVE  OrderInv(o)'
<1> USE DEF TypeOK, OrderInv, MatchesReservation, ReservationOf, MoneyNotStranded, Backed,
            InStep, RowsComeInOrder, orderVars, payVars, shipVars, stockVars
<1>1. order[o] = "PENDING"
  BY DEF SweepExpired, ExpireReservation, OrderStatus
<1> QED
  BY <1>1 DEF SweepExpired, ExpireReservation, Expire

LEMMA CancelKeeps ==
  ASSUME TypeOK, NEW o \in Orders, OrderInv(o), CancelOrder(o)
  PROVE  OrderInv(o)'
<1> USE DEF TypeOK, OrderInv, MatchesReservation, ReservationOf, MoneyNotStranded, Backed,
            InStep, RowsComeInOrder, orderVars, payVars, shipVars, stockVars
<1>1. order[o] \in {"PENDING", "CONFIRMED"}
  BY CancelFrom DEF CancelOrder
<1>2. reservation[o] \in {"ACTIVE", "COMMITTED"}
  BY <1>1
<1>3. /\ order'[o] = "CANCELLED" /\ reservation'[o] = "RELEASED"
      /\ assignment'[o] = "NONE" /\ fulfillment'[o] = fulfillment[o]
      /\ method'[o] = method[o] /\ payment'[o] = payment[o]
      /\ ref'[o] = ref[o] /\ inFlight'[o] = inFlight[o]
  BY <1>2 DEF CancelOrder
<1>4. refund'[o] = (refund[o] \/ (method[o] = "UPI" /\ payment[o] = "PAID"))
  BY DEF CancelOrder, CreateRefundIfEligible
<1>5. MoneyNotStranded(o)'
  BY <1>3, <1>4
<1> QED
  BY <1>1, <1>3, <1>5

LEMMA PayKeeps ==
  ASSUME TypeOK, NEW o \in Orders, OrderInv(o), PayStep(o)
  PROVE  OrderInv(o)'
<1> USE DEF TypeOK, OrderInv, MatchesReservation, ReservationOf, MoneyNotStranded, Backed,
            InStep, RowsComeInOrder, orderVars, payVars, shipVars, stockVars
<1>1. CASE CreateCodPayment(o)
  BY <1>1 DEF CreateCodPayment, Commit
<1>2. CASE CreateUpiPayment(o)
  BY <1>2 DEF CreateUpiPayment, InitiateUpi
<1>3. CASE RetryPayment(o)
  BY <1>3 DEF RetryPayment, InitiateUpi, CanRetryPayment
<1>4. CASE AttachPaidPayment(o)
  BY <1>4 DEF AttachPaidPayment
<1>5. ASSUME NEW v \in TransactionStatus, ApplyVerdict(o, v), method[o] = "UPI",
             UNCHANGED <<method, assignment>>,
             ref'[o] \in BOOLEAN, inFlight'[o] \in Nat
      PROVE  OrderInv(o)'
  <2> DEFINE target == GatewayToPayment[v]
  <2>1. /\ payment[o] \notin {"NONE", "PAID", "CANCELLED"}
        /\ target \in PaymentStatus
        /\ payment'[o] = target
    BY <1>5, VerdictTarget, PaymentMoves DEF ApplyVerdict
  <2>2. CASE target # "PAID"
    BY <1>5, <2>1, <2>2 DEF ApplyVerdict, settledVars, PaymentStatus
  <2>3. CASE target = "PAID" /\ order[o] = "PENDING" /\ CanCommit(o)
    BY <1>5, <2>1, <2>3 DEF ApplyVerdict, ConfirmOrderIfPaid, Commit
  <2>4. CASE target = "PAID" /\ order[o] = "PENDING" /\ ~CanCommit(o)
    <3>1. Expire(o) /\ CreateRefundIfEligible(o, "PAID") /\ UNCHANGED fulfillment
      BY <1>5, <2>4 DEF ApplyVerdict, ConfirmOrderIfPaid
    <3>2. refund'[o] = TRUE
      BY <1>5, <3>1 DEF CreateRefundIfEligible
    <3> QED
      BY <1>5, <2>1, <2>4, <3>1, <3>2 DEF Expire
  <2>5. CASE target = "PAID" /\ order[o] \in {"CANCELLED", "EXPIRED"}
    <3>1. refund'[o] = TRUE /\ UNCHANGED <<order, reservation, fulfillment>>
      BY <1>5, <2>5 DEF ApplyVerdict, ConfirmOrderIfPaid, CreateRefundIfEligible
    <3> QED
      BY <1>5, <2>1, <2>5, <3>1
  <2>6. CASE target = "PAID" /\ order[o] \notin {"PENDING", "CANCELLED", "EXPIRED"}
    <3>1. UNCHANGED settledVars
      BY <1>5, <2>6 DEF ApplyVerdict, ConfirmOrderIfPaid
    <3>2. order[o] \in {"NONE", "CONFIRMED", "COMPLETED"}
      BY <2>6 DEF OrderStatus
    <3> QED
      BY <1>5, <2>1, <2>6, <3>1, <3>2 DEF settledVars
  <2> QED
    BY <2>2, <2>3, <2>4, <2>5, <2>6
<1>6. ASSUME NEW v \in TransactionStatus, GatewayVerdict(o, v) PROVE OrderInv(o)'
  BY <1>5, <1>6 DEF GatewayVerdict
<1>7. ASSUME NEW v \in TransactionStatus, PersistInitiation(o, v) PROVE OrderInv(o)'
  <2>1. /\ method[o] = "UPI" /\ UNCHANGED <<method, assignment>>
        /\ ref'[o] \in BOOLEAN /\ inFlight'[o] \in Nat
    BY <1>7 DEF PersistInitiation
  <2>2. CASE ApplyVerdict(o, v)
    BY <1>5, <2>1, <2>2
  <2>3. CASE UNCHANGED <<payment, settledVars>>
    BY <2>1, <2>3 DEF settledVars
  <2> QED
    BY <1>7, <2>2, <2>3 DEF PersistInitiation
<1>8. CASE FailInitiation(o)
  <2>1. \/ payment'[o] = "FAILED" /\ payment[o] \notin {"NONE", "PAID"}
        \/ payment'[o] = payment[o]
    BY <1>8, PaymentMoves DEF FailInitiation, PaymentStatus
  <2> QED
    BY <1>8, <2>1 DEF FailInitiation
<1>9. CASE LoseInitiation(o)
  BY <1>9 DEF LoseInitiation
<1> QED
  BY <1>1, <1>2, <1>3, <1>4, <1>6, <1>7, <1>8, <1>9 DEF PayStep

LEMMA ShipKeeps ==
  ASSUME TypeOK, NEW o \in Orders, OrderInv(o), ShipStep(o)
  PROVE  OrderInv(o)'
<1> USE DEF TypeOK, OrderInv, MatchesReservation, ReservationOf, MoneyNotStranded, Backed,
            InStep, RowsComeInOrder, orderVars, payVars, shipVars, stockVars
<1>1. CASE AdvanceFulfillment(o)
  BY <1>1 DEF AdvanceFulfillment, FulfillmentNext, ActiveAssignment
<1>2. CASE AssignPartner(o)
  BY <1>2 DEF AssignPartner
<1>3. CASE ReassignPartner(o)
  BY <1>3 DEF ReassignPartner
<1>4. CASE PartnerStep(o)
  BY <1>4 DEF PartnerStep, PartnerSteps
<1>5. CASE MarkOutForDelivery(o)
  BY <1>5 DEF MarkOutForDelivery, ActiveAssignment
<1>6. CASE RejectAssignment(o) \/ FailDelivery(o)
  BY <1>6 DEF RejectAssignment, FailDelivery, ReleaseFulfillment
<1>7. CASE ConfirmDelivery(o)
  <2>1. payment'[o] = "PAID"
    BY <1>7 DEF ConfirmDelivery, CanMove, PaymentTransitions
  <2> QED
    BY <1>7, <2>1 DEF ConfirmDelivery
<1> QED
  BY <1>1, <1>2, <1>3, <1>4, <1>5, <1>6, <1>7 DEF ShipStep

-----------------------------------------------------------------------------
(* The invariant of every order holds in every reachable state. *)
THEOREM Invariance == Spec => []Inv
<1> DEFINE EveryOrder == \A o \in Orders : OrderInv(o)
<1>1. Init => EveryOrder
  BY DEF Init, OrderInv, MatchesReservation, ReservationOf, MoneyNotStranded, Backed,
         InStep, RowsComeInOrder
<1>2. TypeOK /\ EveryOrder /\ [Next]_vars => EveryOrder'
  <2> SUFFICES ASSUME TypeOK, EveryOrder, [Next]_vars, NEW q \in Orders
               PROVE  OrderInv(q)'
    OBVIOUS
  <2>1. ASSUME NEW o \in Orders,
               \/ Checkout(o) \/ WindowLapses(o) \/ PayStep(o) \/ SweepExpired(o)
               \/ ExpireReservation(o) \/ CancelOrder(o) \/ ShipStep(o)
        PROVE  OrderInv(q)'
    <3>1. CASE q # o
      BY <2>1, <3>1, OthersUntouched, UntouchedKeepsInv
    <3>2. CASE q = o
      BY <2>1, <3>2, CheckoutKeeps, PayKeeps, ExpiryKeeps, CancelKeeps, ShipKeeps
    <3> QED
      BY <3>1, <3>2
  <2>2. ASSUME NEW l \in Lots, ReceiveStock(l) \/ RemoveStock(l) PROVE OrderInv(q)'
    <3>1. RowsUntouched(q)
      BY <2>2 DEF ReceiveStock, RemoveStock, RowsUntouched, orderVars, payVars, shipVars
    <3> QED
      BY <3>1, UntouchedKeepsInv
  <2>3. CASE UNCHANGED vars
    <3>1. RowsUntouched(q)
      BY <2>3 DEF vars, RowsUntouched
    <3> QED
      BY <3>1, UntouchedKeepsInv
  <2> QED
    BY <2>1, <2>2, <2>3 DEF Next
<1> QED
  BY <1>1, <1>2, TypeCorrect, PTL DEF Spec, Inv

(* The order and its reservation never disagree, so the "not committed"    *)
(* answer of commit_reservation_for_order always means a lapsed window.    *)
THEOREM OrderReservationCoupled == Spec => []OrderMatchesReservation
<1>1. Inv => OrderMatchesReservation
  BY DEF Inv, OrderInv, MatchesReservation, OrderMatchesReservation
<1> QED
  BY <1>1, Invariance, PTL

(* Whatever order the gateway's verdicts, the sweep, the retries and the   *)
(* cancellations come in, money that arrived online is backed by an order  *)
(* going ahead or by a refund (_confirm_order_if_paid, _cancel_locked_order). *)
THEOREM MoneyNeverStranded == Spec => []NoStrandedMoney
<1>1. Inv => NoStrandedMoney
  BY DEF Inv, OrderInv, MoneyNotStranded, NoStrandedMoney
<1> QED
  BY <1>1, Invariance, PTL

(* Nothing is confirmed without money or a COD promise, and nothing is     *)
(* delivered unpaid.                                                       *)
THEOREM GoodsAreBacked == Spec => []ConfirmedIsBacked
<1>1. Inv => ConfirmedIsBacked
  BY DEF Inv, OrderInv, Backed, ConfirmedIsBacked
<1> QED
  BY <1>1, Invariance, PTL

(* Fulfillment, assignment and order agree on who is on the road.          *)
THEOREM DeliveryCoupled == Spec => []DeliveryInStep
<1>1. Inv => DeliveryInStep
  BY DEF Inv, OrderInv, InStep, DeliveryInStep
<1> QED
  BY <1>1, Invariance, PTL

-----------------------------------------------------------------------------
(* The stock ledger.  Every step either leaves the held stock alone, takes *)
(* one order out of it or puts one order into it, and the counters of all  *)
(* lots follow.                                                            *)

LedgerUntouched ==
  /\ Holding' = Holding
  /\ UNCHANGED <<alloc, reserved>>

OrderReleases(o) ==
  /\ o \in Holding
  /\ Holding' = Holding \ {o}
  /\ ReleaseStock(o)
  /\ UNCHANGED alloc

OrderTakes(o, a) ==
  /\ o \notin Holding
  /\ Holding' = Holding \cup {o}
  /\ alloc' = [alloc EXCEPT ![o] = a]
  /\ reserved' = [l \in Lots |-> reserved[l] + a[l]]

LEMMA LedgerSteps ==
  ASSUME TypeOK, \A o \in Orders : OrderInv(o), [Next]_vars
  PROVE  \/ LedgerUntouched
         \/ \E o \in Orders : OrderReleases(o)
         \/ \E o \in Orders, a \in [Lots -> Nat] : OrderTakes(o, a)
<1> USE DEF TypeOK, OrderInv, MatchesReservation, ReservationOf, Holding,
            LedgerUntouched, OrderReleases, OrderTakes,
            orderVars, stockVars, payVars, shipVars
<1>1. ASSUME NEW o \in Orders, Checkout(o)
      PROVE  \E a \in [Lots -> Nat] : OrderTakes(o, a)
  <2>1. PICK need \in Needs : \E a \in Allocations(need) :
           /\ alloc' = [alloc EXCEPT ![o] = a]
           /\ reserved' = [l \in Lots |-> reserved[l] + a[l]]
    BY <1>1 DEF Checkout
  <2>2. PICK a \in [Lots -> 0..need] :
           /\ alloc' = [alloc EXCEPT ![o] = a]
           /\ reserved' = [l \in Lots |-> reserved[l] + a[l]]
    BY <2>1 DEF Allocations
  <2>3. a \in [Lots -> Nat]
    BY <2>2, NeedsAssumption
  <2>4. o \notin Holding /\ Holding' = Holding \cup {o}
    BY <1>1 DEF Checkout
  <2> QED
    BY <2>2, <2>3, <2>4
<1>2. ASSUME NEW o \in Orders, WindowLapses(o) PROVE LedgerUntouched
  BY <1>2 DEF WindowLapses
<1>3. ASSUME NEW o \in Orders, Expire(o), reservation[o] = "ACTIVE", UNCHANGED alloc
      PROVE  OrderReleases(o)
  <2>1. o \in Holding
    BY <1>3
  <2>2. Holding' = Holding \ {o}
    BY <1>3 DEF Expire
  <2> QED
    BY <1>3, <2>1, <2>2 DEF Expire
<1>4. ASSUME NEW o \in Orders, NEW v \in TransactionStatus, ApplyVerdict(o, v),
             UNCHANGED alloc
      PROVE  LedgerUntouched \/ OrderReleases(o)
  <2>1. CASE UNCHANGED settledVars
    BY <1>4, <2>1 DEF settledVars
  <2>2. CASE order[o] = "PENDING" /\ Commit(o) /\ order' = [order EXCEPT ![o] = "CONFIRMED"]
             /\ UNCHANGED <<reserved, refund>>
    BY <1>4, <2>2 DEF Commit
  <2>3. CASE reservation[o] = "ACTIVE" /\ Expire(o)
    BY <1>3, <1>4, <2>3
  <2>4. CASE UNCHANGED <<order, reservation, reserved, fulfillment>>
    BY <1>4, <2>4
  <2> QED
    BY <1>4, <2>1, <2>2, <2>3, <2>4 DEF ApplyVerdict, ConfirmOrderIfPaid
<1>5. ASSUME NEW o \in Orders, PayStep(o) PROVE LedgerUntouched \/ OrderReleases(o)
  <2>1. CASE CreateCodPayment(o)
    BY <2>1 DEF CreateCodPayment, Commit
  <2>2. CASE CreateUpiPayment(o) \/ RetryPayment(o)
    BY <2>2 DEF CreateUpiPayment, RetryPayment, InitiateUpi
  <2>3. CASE AttachPaidPayment(o)
    BY <2>3 DEF AttachPaidPayment
  <2>4. ASSUME NEW v \in TransactionStatus, GatewayVerdict(o, v)
        PROVE  LedgerUntouched \/ OrderReleases(o)
    BY <1>4, <2>4 DEF GatewayVerdict
  <2>5. ASSUME NEW v \in TransactionStatus, PersistInitiation(o, v)
        PROVE  LedgerUntouched \/ OrderReleases(o)
    <3>1. CASE UNCHANGED <<payment, settledVars>>
      BY <2>5, <3>1 DEF PersistInitiation, settledVars
    <3>2. CASE ApplyVerdict(o, v)
      BY <1>4, <2>5, <3>2 DEF PersistInitiation
    <3> QED
      BY <2>5, <3>1, <3>2 DEF PersistInitiation
  <2>6. CASE FailInitiation(o) \/ LoseInitiation(o)
    BY <2>6 DEF FailInitiation, LoseInitiation
  <2> QED
    BY <1>5, <2>1, <2>2, <2>3, <2>4, <2>5, <2>6 DEF PayStep
<1>6. ASSUME NEW o \in Orders, SweepExpired(o) \/ ExpireReservation(o)
      PROVE  OrderReleases(o)
  BY <1>3, <1>6 DEF SweepExpired, ExpireReservation
<1>7. ASSUME NEW o \in Orders, CancelOrder(o) PROVE OrderReleases(o)
  <2>1. order[o] \in {"PENDING", "CONFIRMED"}
    BY <1>7, CancelFrom DEF CancelOrder
  <2>2. o \in Holding
    BY <2>1
  <2>3. ReleaseStock(o) /\ reservation' = [reservation EXCEPT ![o] = "RELEASED"]
    BY <1>7, <2>2 DEF CancelOrder
  <2>4. Holding' = Holding \ {o}
    BY <1>7, <2>3 DEF CancelOrder
  <2> QED
    BY <1>7, <2>2, <2>3, <2>4 DEF CancelOrder
<1>8. ASSUME NEW o \in Orders, ConfirmDelivery(o) PROVE OrderReleases(o)
  <2>1. o \in Holding /\ Holding' = Holding \ {o}
    BY <1>8 DEF ConfirmDelivery
  <2> QED
    BY <1>8, <2>1 DEF ConfirmDelivery
<1>9. ASSUME NEW o \in Orders, ShipStep(o)
      PROVE  LedgerUntouched \/ OrderReleases(o)
  BY <1>8, <1>9 DEF ShipStep, AdvanceFulfillment, AssignPartner, ReassignPartner,
                   PartnerStep, MarkOutForDelivery, RejectAssignment, FailDelivery,
                   ReleaseFulfillment
<1>10. ASSUME NEW l \in Lots, ReceiveStock(l) \/ RemoveStock(l) PROVE LedgerUntouched
  BY <1>10 DEF ReceiveStock, RemoveStock
<1>11. CASE UNCHANGED vars
  BY <1>11 DEF vars
<1> HIDE DEF TypeOK, OrderInv, MatchesReservation, ReservationOf, Holding,
             LedgerUntouched, OrderReleases, OrderTakes,
             orderVars, stockVars, payVars, shipVars
<1>12. CASE \E o \in Orders : \/ Checkout(o) \/ WindowLapses(o) \/ PayStep(o)
                               \/ SweepExpired(o) \/ ExpireReservation(o)
                               \/ CancelOrder(o) \/ ShipStep(o)
  <2>1. PICK o \in Orders : \/ Checkout(o) \/ WindowLapses(o) \/ PayStep(o)
                            \/ SweepExpired(o) \/ ExpireReservation(o)
                            \/ CancelOrder(o) \/ ShipStep(o)
    BY <1>12
  <2>2. CASE Checkout(o) \/ WindowLapses(o)
    BY <1>1, <1>2, <2>2
  <2>3. CASE PayStep(o) \/ ShipStep(o)
    BY <1>5, <1>9, <2>3
  <2>4. CASE SweepExpired(o) \/ ExpireReservation(o) \/ CancelOrder(o)
    BY <1>6, <1>7, <2>4
  <2> QED
    BY <2>1, <2>2, <2>3, <2>4
<1> QED
  BY <1>10, <1>11, <1>12 DEF Next

(* The units of one order on a lot are as many as its allocation. *)
LEMMA OrderUnits ==
  ASSUME NEW o, NEW n \in Nat
  PROVE  /\ IsFiniteSet({o} \X (1..n))
         /\ Cardinality({o} \X (1..n)) = n
<1>1. IsFiniteSet(1..n) /\ Cardinality(1..n) = n
  BY FS_Interval
<1>2. IsFiniteSet({o}) /\ Cardinality({o}) = 1
  BY FS_Singleton
<1>3. /\ IsFiniteSet({o} \X (1..n))
      /\ Cardinality({o} \X (1..n)) = Cardinality({o}) * Cardinality(1..n)
  BY ONLY <1>1, <1>2, FS_Product
<1>4. Cardinality({o}) * Cardinality(1..n) = n
  BY <1>1, <1>2
<1> QED
  BY <1>3, <1>4

(* The reserved counter of every lot is exactly what the orders holding    *)
(* stock have allocated there, after any interleaving of checkout, payment,*)
(* expiry, cancellation, delivery and warehouse movements.                 *)
THEOREM LedgerIsExact == Spec => []LedgerExact
<1>1. Init => LedgerExact
  <2> SUFFICES ASSUME Init, NEW l \in Lots
               PROVE  IsFiniteSet(HeldUnits(l)) /\ reserved[l] = Cardinality(HeldUnits(l))
    BY DEF LedgerExact
  <2>1. HeldUnits(l) = {}
    BY DEF Init, HeldUnits, Holding
  <2> QED
    BY <2>1, FS_EmptySet DEF Init
<1>2. Inv /\ TypeOK' /\ LedgerExact /\ [Next]_vars => LedgerExact'
  <2> SUFFICES ASSUME Inv, TypeOK', LedgerExact, [Next]_vars, NEW l \in Lots
               PROVE  /\ IsFiniteSet(HeldUnits(l)')
                      /\ reserved'[l] = Cardinality(HeldUnits(l)')
    BY DEF LedgerExact
  <2> DEFINE units(o) == {o} \X (1..alloc[o][l])
  <2>0. IsFiniteSet(HeldUnits(l)) /\ reserved[l] = Cardinality(HeldUnits(l))
    BY DEF LedgerExact
  <2>1. CASE LedgerUntouched
    <3>1. HeldUnits(l)' = HeldUnits(l) /\ reserved'[l] = reserved[l]
      BY <2>1 DEF LedgerUntouched, HeldUnits
    <3> QED
      BY <2>0, <3>1
  <2>2. ASSUME NEW o \in Orders, OrderReleases(o)
        PROVE  /\ IsFiniteSet(HeldUnits(l)')
               /\ reserved'[l] = Cardinality(HeldUnits(l)')
    <3>1. HeldUnits(l)' = HeldUnits(l) \ units(o)
      BY <2>2 DEF OrderReleases, HeldUnits
    <3>2. HeldUnits(l) \cap units(o) = units(o)
      BY <2>2 DEF OrderReleases, HeldUnits
    <3>3. alloc[o][l] \in Nat
      BY DEF Inv, TypeOK
    <3>4. Cardinality(units(o)) = alloc[o][l]
      BY <3>3, OrderUnits
    <3>5. /\ IsFiniteSet(HeldUnits(l) \ units(o))
          /\ Cardinality(HeldUnits(l) \ units(o)) = Cardinality(HeldUnits(l)) - Cardinality(units(o))
      <4> DEFINE U == units(o)
      <4>1. HeldUnits(l) \cap U = U /\ IsFiniteSet(HeldUnits(l))
        BY <2>0, <3>2
      <4> HIDE DEF U
      <4>2. /\ IsFiniteSet(HeldUnits(l) \ U)
            /\ Cardinality(HeldUnits(l) \ U) = Cardinality(HeldUnits(l)) - Cardinality(HeldUnits(l) \cap U)
        BY <4>1, FS_Difference, Zenon
      <4> QED
        BY <4>1, <4>2 DEF U
    <3>6. reserved'[l] = reserved[l] - alloc[o][l]
      BY <2>2 DEF OrderReleases, ReleaseStock
    <3> QED
      BY <2>0, <3>1, <3>4, <3>5, <3>6
  <2>3. ASSUME NEW o \in Orders, NEW a \in [Lots -> Nat], OrderTakes(o, a)
        PROVE  /\ IsFiniteSet(HeldUnits(l)')
               /\ reserved'[l] = Cardinality(HeldUnits(l)')
    <3> DEFINE taken == {o} \X (1..a[l])
    <3>1. /\ alloc'[o] = a
          /\ \A q \in Holding : alloc'[q] = alloc[q]
      BY <2>3 DEF OrderTakes, Inv, TypeOK, Holding
    <3>2. HeldUnits(l)' = HeldUnits(l) \cup taken
      BY <2>3, <3>1 DEF OrderTakes, HeldUnits
    <3>3. HeldUnits(l) \cap taken = {}
      BY <2>3 DEF OrderTakes, HeldUnits
    <3>4. IsFiniteSet(taken) /\ Cardinality(taken) = a[l]
      BY OrderUnits
    <3>5. /\ IsFiniteSet(HeldUnits(l) \cup taken)
          /\ Cardinality(HeldUnits(l) \cup taken) = Cardinality(HeldUnits(l)) + a[l] - 0
      <4> HIDE DEF taken
      <4> QED
        BY <2>0, <3>3, <3>4, FS_Union, FS_EmptySet
    <3>6. reserved'[l] = reserved[l] + a[l] /\ reserved[l] \in Int
      BY <2>3 DEF OrderTakes, Inv, TypeOK
    <3> QED
      BY <2>0, <3>2, <3>5, <3>6
  <2> QED
    BY <2>1, <2>2, <2>3, LedgerSteps DEF Inv
<1> QED
  BY <1>1, <1>2, Invariance, TypeCorrect, PTL DEF Spec

(* No lot ever promises more than it holds.  The lower bound is the exact  *)
(* ledger; the upper bound needs the checkout guard, the removal guard of  *)
(* apply_movement_base, and a delivery taking what it gives up.            *)
THEOREM NeverOversoldHolds == Spec => []NeverOversold
<1> DEFINE Covered == \A l \in Lots : reserved[l] <= quantity[l]
<1>1. Init => Covered
  BY MaxStockAssumption DEF Init
<1>2. Inv /\ Covered /\ [Next]_vars => Covered'
  <2> SUFFICES ASSUME Inv, Covered, [Next]_vars, NEW l \in Lots
               PROVE  reserved'[l] <= quantity'[l]
    OBVIOUS
  <2> USE DEF Inv, TypeOK, orderVars, stockVars, payVars, shipVars
  <2>1. ASSUME NEW o \in Orders, ReleaseStock(o), UNCHANGED quantity
        PROVE  reserved'[l] <= quantity'[l]
    <3>1. reserved'[l] = reserved[l] - alloc[o][l] /\ alloc[o][l] \in Nat
      BY <2>1 DEF ReleaseStock
    <3> QED
      BY <2>1, <3>1
  <2>2. ASSUME UNCHANGED <<reserved, quantity>>
        PROVE  reserved'[l] <= quantity'[l]
    BY <2>2
  <2>3. ASSUME NEW o \in Orders, Checkout(o) PROVE reserved'[l] <= quantity'[l]
    <3>1. PICK need \in Needs : \E a \in Allocations(need) :
             reserved' = [k \in Lots |-> reserved[k] + a[k]]
      BY <2>3 DEF Checkout
    <3>2. PICK a \in [Lots -> 0..need] :
             /\ reserved' = [k \in Lots |-> reserved[k] + a[k]]
             /\ a[l] = 0 \/ a[l] <= quantity[l] - reserved[l]
      BY <3>1 DEF Allocations, Available
    <3>3. a[l] \in Nat /\ reserved'[l] = reserved[l] + a[l]
      BY <3>2, NeedsAssumption
    <3> QED
      BY <2>3, <3>2, <3>3 DEF Checkout
  <2>4. ASSUME NEW o \in Orders, NEW v \in TransactionStatus, ApplyVerdict(o, v),
               UNCHANGED quantity
        PROVE  reserved'[l] <= quantity'[l]
    BY <2>1, <2>2, <2>4 DEF ApplyVerdict, ConfirmOrderIfPaid, Expire, settledVars
  <2>5. ASSUME NEW o \in Orders, PayStep(o) PROVE reserved'[l] <= quantity'[l]
    <3>1. ASSUME NEW v \in TransactionStatus, GatewayVerdict(o, v)
          PROVE  reserved'[l] <= quantity'[l]
      BY <2>4, <3>1 DEF GatewayVerdict
    <3>2. ASSUME NEW v \in TransactionStatus, PersistInitiation(o, v)
          PROVE  reserved'[l] <= quantity'[l]
      BY <2>2, <2>4, <3>2 DEF PersistInitiation, settledVars
    <3> QED
      BY <2>2, <2>5, <3>1, <3>2 DEF PayStep, CreateCodPayment, CreateUpiPayment,
         RetryPayment, InitiateUpi, AttachPaidPayment, FailInitiation, LoseInitiation
  <2>6. ASSUME NEW o \in Orders, \/ WindowLapses(o) \/ SweepExpired(o)
                                 \/ ExpireReservation(o) \/ CancelOrder(o)
        PROVE  reserved'[l] <= quantity'[l]
    BY <2>1, <2>2, <2>6 DEF WindowLapses, SweepExpired, ExpireReservation, Expire,
                            CancelOrder
  <2>7. ASSUME NEW o \in Orders, ConfirmDelivery(o) PROVE reserved'[l] <= quantity'[l]
    <3>1. /\ reserved'[l] = reserved[l] - alloc[o][l]
          /\ quantity'[l] = quantity[l] - alloc[o][l]
          /\ alloc[o][l] \in Nat
      BY <2>7 DEF ConfirmDelivery, ReleaseStock
    <3> QED
      BY <3>1
  <2>8. ASSUME NEW o \in Orders, ShipStep(o) PROVE reserved'[l] <= quantity'[l]
    BY <2>2, <2>7, <2>8 DEF ShipStep, AdvanceFulfillment, AssignPartner, ReassignPartner,
       PartnerStep, MarkOutForDelivery, RejectAssignment, FailDelivery, ReleaseFulfillment
  <2>9. ASSUME NEW k \in Lots, ReceiveStock(k) \/ RemoveStock(k)
        PROVE  reserved'[l] <= quantity'[l]
    BY <2>9, NeedsAssumption DEF ReceiveStock, RemoveStock
  <2>10. CASE UNCHANGED vars
    BY <2>2, <2>10 DEF vars
  <2> QED
    BY <2>3, <2>5, <2>6, <2>8, <2>9, <2>10 DEF Next
<1>3. LedgerExact => \A l \in Lots : 0 <= reserved[l]
  BY FS_CardinalityType DEF LedgerExact
<1>4. (\A l \in Lots : 0 <= reserved[l]) /\ Covered => NeverOversold
  BY DEF NeverOversold
<1> QED
  BY <1>1, <1>2, <1>3, <1>4, Invariance, LedgerIsExact, PTL DEF Spec

-----------------------------------------------------------------------------
(* Steps. *)

(* A step works on the rows of one order, or on no order's rows at all. *)
OrderStep(o) ==
  \/ Checkout(o) \/ WindowLapses(o) \/ PayStep(o) \/ SweepExpired(o)
  \/ ExpireReservation(o) \/ CancelOrder(o) \/ ShipStep(o)

LEMMA StepShape ==
  ASSUME [Next]_vars
  PROVE  \/ \E o \in Orders : OrderStep(o)
         \/ \A q \in Orders : RowsUntouched(q)
<1>1. ASSUME NEW l \in Lots, ReceiveStock(l) \/ RemoveStock(l), NEW q \in Orders
      PROVE  RowsUntouched(q)
  BY <1>1 DEF ReceiveStock, RemoveStock, RowsUntouched, orderVars, payVars, shipVars
<1>2. ASSUME UNCHANGED vars, NEW q \in Orders
      PROVE  RowsUntouched(q)
  BY <1>2 DEF vars, RowsUntouched
<1> QED
  BY <1>1, <1>2 DEF Next, OrderStep

-----------------------------------------------------------------------------
(* A cancelled, expired or completed order stays as it is: no late         *)
(* verdict, sweep, warehouse step or second cancellation moves its status, *)
(* its reservation or its delivery.                                        *)
LEMMA TerminalStep ==
  ASSUME TypeOK, NEW o \in Orders, OrderInv(o), OrderStep(o),
         order[o] \in TerminalOrderStatus
  PROVE  /\ order'[o] = order[o]
         /\ reservation'[o] = reservation[o]
         /\ fulfillment'[o] = fulfillment[o]
         /\ assignment'[o] = assignment[o]
<1> USE DEF TypeOK, OrderInv, MatchesReservation, ReservationOf, InStep,
            TerminalOrderStatus, orderVars, payVars, shipVars, stockVars
<1>1. ASSUME NEW v \in TransactionStatus, ApplyVerdict(o, v)
      PROVE  UNCHANGED <<order, reservation, fulfillment>>
  BY <1>1 DEF ApplyVerdict, ConfirmOrderIfPaid, settledVars
<1>2. CASE PayStep(o)
  <2>1. ASSUME NEW v \in TransactionStatus, GatewayVerdict(o, v)
        PROVE  UNCHANGED <<order, reservation, fulfillment, assignment>>
    BY <1>1, <2>1 DEF GatewayVerdict
  <2>2. ASSUME NEW v \in TransactionStatus, PersistInitiation(o, v)
        PROVE  UNCHANGED <<order, reservation, fulfillment, assignment>>
    BY <1>1, <2>2 DEF PersistInitiation, settledVars
  <2> QED
    BY <1>2, <2>1, <2>2 DEF PayStep, CreateCodPayment, CreateUpiPayment, RetryPayment,
       InitiateUpi, AttachPaidPayment, FailInitiation, LoseInitiation
<1>3. ~CancelOrder(o)
  BY CancelFrom DEF CancelOrder
<1>4. CASE Checkout(o) \/ WindowLapses(o) \/ SweepExpired(o) \/ ExpireReservation(o)
  BY <1>4 DEF Checkout, WindowLapses, SweepExpired, ExpireReservation
<1>5. CASE ShipStep(o)
  BY <1>5 DEF ShipStep, AdvanceFulfillment, AssignPartner, ReassignPartner, PartnerStep,
     MarkOutForDelivery, RejectAssignment, FailDelivery, ReleaseFulfillment, ConfirmDelivery
<1> QED
  BY <1>2, <1>3, <1>4, <1>5 DEF OrderStep

(* Terminal orders are frozen in every behaviour (order_state.py).         *)
THEOREM TerminalOrdersStayFrozen == Spec => TerminalOrdersFrozen
<1>1. Inv /\ [Next]_vars =>
        [\A o \in Orders : order[o] \in TerminalOrderStatus =>
           /\ order'[o] = order[o]
           /\ reservation'[o] = reservation[o]
           /\ fulfillment'[o] = fulfillment[o]
           /\ assignment'[o] = assignment[o]]_vars
  <2> SUFFICES ASSUME Inv, [Next]_vars, NEW q \in Orders,
                      order[q] \in TerminalOrderStatus, ~RowsUntouched(q)
               PROVE  /\ order'[q] = order[q]
                      /\ reservation'[q] = reservation[q]
                      /\ fulfillment'[q] = fulfillment[q]
                      /\ assignment'[q] = assignment[q]
    BY DEF RowsUntouched
  <2>1. OrderStep(q)
    BY StepShape, OthersUntouched DEF OrderStep, Inv
  <2> QED
    BY <2>1, TerminalStep DEF Inv
<1> QED
  BY <1>1, Invariance, PTL DEF Spec, TerminalOrdersFrozen

LEMMA MoneyStep ==
  ASSUME TypeOK, NEW o \in Orders, OrderInv(o), OrderStep(o)
  PROVE  /\ payment[o] = "PAID" => payment'[o] = "PAID"
         /\ refund[o] => refund'[o]
<1> USE DEF TypeOK, orderVars, payVars, shipVars, stockVars
<1>1. ASSUME NEW v \in TransactionStatus, ApplyVerdict(o, v)
      PROVE  payment[o] # "PAID" /\ (refund[o] => refund'[o])
  <2>1. payment[o] # "PAID"
    BY <1>1, PaymentMoves, VerdictTarget DEF ApplyVerdict
  <2>2. refund[o] => refund'[o]
    BY <1>1 DEF ApplyVerdict, ConfirmOrderIfPaid, CreateRefundIfEligible, settledVars
  <2> QED
    BY <2>1, <2>2
<1>2. CASE PayStep(o)
  <2>1. CASE \/ CreateCodPayment(o) \/ CreateUpiPayment(o) \/ RetryPayment(o)
             \/ AttachPaidPayment(o)
    BY <2>1 DEF OrderInv, RowsComeInOrder, CreateCodPayment, CreateUpiPayment,
       RetryPayment, InitiateUpi, AttachPaidPayment, CanRetryPayment
  <2>2. ASSUME NEW v \in TransactionStatus, GatewayVerdict(o, v)
        PROVE  payment[o] # "PAID" /\ (refund[o] => refund'[o])
    BY <1>1, <2>2 DEF GatewayVerdict
  <2>3. ASSUME NEW v \in TransactionStatus, PersistInitiation(o, v)
        PROVE  /\ payment[o] = "PAID" => payment'[o] = "PAID"
               /\ refund[o] => refund'[o]
    BY <1>1, <2>3 DEF PersistInitiation, settledVars
  <2>4. CASE FailInitiation(o) \/ LoseInitiation(o)
    BY <2>4, PaymentMoves DEF FailInitiation, LoseInitiation, PaymentStatus
  <2> QED
    BY <1>2, <2>1, <2>2, <2>3, <2>4 DEF PayStep
<1>3. CASE CancelOrder(o)
  BY <1>3 DEF CancelOrder, CreateRefundIfEligible
<1>4. CASE ConfirmDelivery(o)
  BY <1>4 DEF ConfirmDelivery
<1>5. CASE Checkout(o) \/ WindowLapses(o) \/ SweepExpired(o) \/ ExpireReservation(o)
  BY <1>5 DEF Checkout, WindowLapses, SweepExpired, ExpireReservation
<1>6. CASE ShipStep(o)
  BY <1>4, <1>6 DEF ShipStep, AdvanceFulfillment, AssignPartner, ReassignPartner,
     PartnerStep, MarkOutForDelivery, RejectAssignment, FailDelivery, ReleaseFulfillment
<1> QED
  BY <1>2, <1>3, <1>5, <1>6 DEF OrderStep

(* Money recorded as received, and a refund recorded as owed, are never    *)
(* forgotten by a later transaction.                                       *)
THEOREM MoneyStaysRemembered == Spec => MoneyIsRemembered
<1>1. Inv /\ [Next]_vars =>
        [\A o \in Orders : /\ payment[o] = "PAID" => payment'[o] = "PAID"
                           /\ refund[o] => refund'[o]]_vars
  <2> SUFFICES ASSUME Inv, [Next]_vars, NEW q \in Orders, ~RowsUntouched(q)
               PROVE  /\ payment[q] = "PAID" => payment'[q] = "PAID"
                      /\ refund[q] => refund'[q]
    BY DEF RowsUntouched
  <2>1. OrderStep(q)
    BY StepShape, OthersUntouched DEF OrderStep, Inv
  <2> QED
    BY <2>1, MoneyStep DEF Inv
<1> QED
  BY <1>1, Invariance, PTL DEF Spec, MoneyIsRemembered

-----------------------------------------------------------------------------
(* The refinement.  The order's status and the invariant together fix what *)
(* a customer is shown, so a step is classified by the move it makes in    *)
(* the order table.                                                        *)

(* Whatever else a step does, an order's step that lowers a lot's stock is *)
(* the delivery of that order.                                             *)
LEMMA OrderStepStock ==
  ASSUME NEW o \in Orders, OrderStep(o)
  PROVE  quantity' = quantity \/ ConfirmDelivery(o)
<1> USE DEF orderVars, stockVars, payVars, shipVars
<1>1. CASE Checkout(o) \/ WindowLapses(o) \/ SweepExpired(o) \/ ExpireReservation(o) \/ CancelOrder(o)
  BY <1>1 DEF Checkout, WindowLapses, SweepExpired, ExpireReservation, CancelOrder
<1>2. CASE PayStep(o)
  BY <1>2 DEF PayStep, CreateCodPayment, CreateUpiPayment, RetryPayment, InitiateUpi, AttachPaidPayment,
              GatewayVerdict, PersistInitiation, FailInitiation, LoseInitiation
<1>3. CASE ShipStep(o)
  BY <1>3 DEF ShipStep, AdvanceFulfillment, AssignPartner, ReassignPartner, PartnerStep, MarkOutForDelivery,
              RejectAssignment, FailDelivery, ReleaseFulfillment
<1> QED
  BY <1>1, <1>2, <1>3 DEF OrderStep

(* For any orders and lots, stock goes down only by the delivery of one    *)
(* order, which takes exactly its allocation from every lot and completes  *)
(* it, or by a removal that leaves what the orders hold.                   *)
THEOREM StockAlwaysLeavesOnce == Spec => StockLeavesOnce
<1>1. TypeOK /\ [Next]_vars =>
        [(\E l \in Lots : quantity'[l] < quantity[l]) =>
           \/ \E o \in Orders :
                /\ order[o] = "CONFIRMED" /\ order'[o] = "COMPLETED"
                /\ \A l \in Lots : quantity[l] - quantity'[l] = alloc[o][l]
           \/ /\ reserved' = reserved
              /\ \A l \in Lots : quantity'[l] >= reserved[l] \/ quantity'[l] = quantity[l]]_vars
  <2> SUFFICES ASSUME TypeOK, Next, NEW m \in Lots, quantity'[m] < quantity[m]
               PROVE  \/ \E o \in Orders :
                           /\ order[o] = "CONFIRMED" /\ order'[o] = "COMPLETED"
                           /\ \A l \in Lots : quantity[l] - quantity'[l] = alloc[o][l]
                      \/ /\ reserved' = reserved
                         /\ \A l \in Lots : quantity'[l] >= reserved[l] \/ quantity'[l] = quantity[l]
    OBVIOUS
  <2>1. quantity \in [Lots -> Int] /\ order \in [Orders -> OrderStatus \cup {"NONE"}]
        /\ alloc \in [Orders -> [Lots -> Nat]] /\ reserved \in [Lots -> Int]
    BY DEF TypeOK
  <2>2. ASSUME NEW o \in Orders, ConfirmDelivery(o)
        PROVE  /\ order[o] = "CONFIRMED" /\ order'[o] = "COMPLETED"
               /\ \A l \in Lots : quantity[l] - quantity'[l] = alloc[o][l]
    BY <2>1, <2>2 DEF ConfirmDelivery
  <2>3. ASSUME NEW l \in Lots, ReceiveStock(l) PROVE FALSE
    <3>1. PICK n \in Needs : quantity' = [quantity EXCEPT ![l] = @ + n]
      BY <2>3 DEF ReceiveStock
    <3>2. n \in Nat
      BY NeedsAssumption
    <3> QED
      BY <2>1, <3>1, <3>2
  <2>4. ASSUME NEW l \in Lots, RemoveStock(l)
        PROVE  reserved' = reserved /\ \A k \in Lots : quantity'[k] >= reserved[k] \/ quantity'[k] = quantity[k]
    BY <2>1, <2>4 DEF RemoveStock
  <2>5. CASE \E o \in Orders : OrderStep(o)
    <3>1. PICK o \in Orders : OrderStep(o)
      BY <2>5
    <3>2. ConfirmDelivery(o)
      BY <2>1, <3>1, OrderStepStock
    <3> QED
      BY <2>2, <3>2
  <2>6. CASE \E l \in Lots : ReceiveStock(l) \/ RemoveStock(l)
    BY <2>3, <2>4, <2>6
  <2> QED
    BY <2>5, <2>6 DEF Next, OrderStep
<1> QED
  BY <1>1, TypeCorrect, PTL DEF Spec, StockLeavesOnce

LEMMA OrderMoves ==
  ASSUME TypeOK, NEW o \in Orders, OrderInv(o), OrderStep(o)
  PROVE  /\ \/ order'[o] = order[o]
            \/ order[o] = "NONE" /\ order'[o] = "PENDING"
            \/ order[o] = "PENDING" /\ order'[o] \in {"CONFIRMED", "CANCELLED", "EXPIRED"}
            \/ order[o] = "CONFIRMED" /\ order'[o] \in {"COMPLETED", "CANCELLED"}
         /\ method[o] # "NONE" => method'[o] = method[o]
<1> USE DEF TypeOK, orderVars, payVars, shipVars, stockVars
<1>1. ASSUME NEW v \in TransactionStatus, ApplyVerdict(o, v)
      PROVE  \/ order'[o] = order[o]
             \/ order[o] = "PENDING" /\ order'[o] \in {"CONFIRMED", "EXPIRED"}
  BY <1>1 DEF ApplyVerdict, ConfirmOrderIfPaid, Expire, settledVars
<1>2. CASE PayStep(o)
  <2>1. ASSUME NEW v \in TransactionStatus, GatewayVerdict(o, v)
        PROVE  /\ \/ order'[o] = order[o]
                  \/ order[o] = "PENDING" /\ order'[o] \in {"CONFIRMED", "EXPIRED"}
               /\ method' = method
    BY <1>1, <2>1 DEF GatewayVerdict
  <2>2. ASSUME NEW v \in TransactionStatus, PersistInitiation(o, v)
        PROVE  /\ \/ order'[o] = order[o]
                  \/ order[o] = "PENDING" /\ order'[o] \in {"CONFIRMED", "EXPIRED"}
               /\ method' = method
    BY <1>1, <2>2 DEF PersistInitiation, settledVars
  <2> QED
    BY <1>2, <2>1, <2>2 DEF PayStep, CreateCodPayment, CreateUpiPayment, RetryPayment,
       InitiateUpi, AttachPaidPayment, FailInitiation, LoseInitiation
<1>3. CASE CancelOrder(o)
  BY <1>3, CancelFrom DEF CancelOrder
<1>4. CASE SweepExpired(o) \/ ExpireReservation(o)
  BY <1>4 DEF SweepExpired, ExpireReservation, Expire
<1>5. CASE Checkout(o) \/ WindowLapses(o)
  BY <1>5 DEF Checkout, WindowLapses
<1>6. CASE ShipStep(o)
  BY <1>6 DEF ShipStep, AdvanceFulfillment, AssignPartner, ReassignPartner, PartnerStep,
     MarkOutForDelivery, RejectAssignment, FailDelivery, ReleaseFulfillment, ConfirmDelivery
<1> QED
  BY <1>2, <1>3, <1>4, <1>5, <1>6 DEF OrderStep

-----------------------------------------------------------------------------
(* The tables.  What the invariant says of an order fixes its reservation, *)
(* so the reservation's moves follow from the order's; the payment and the *)
(* fulfillment are looked at transaction by transaction.                   *)

(* The moves of the order table, as OrderMoves has them. *)
LEMMA OrderTableMoves ==
  ASSUME NEW s, NEW t,
         \/ t = s
         \/ s = "NONE" /\ t = "PENDING"
         \/ s = "PENDING" /\ t \in {"CONFIRMED", "CANCELLED", "EXPIRED"}
         \/ s = "CONFIRMED" /\ t \in {"COMPLETED", "CANCELLED"}
  PROVE  /\ KeepsTable(OrderTransitions, "PENDING", s, t)
         /\ KeepsTable(ReservationTransitions, "ACTIVE", ReservationOf[s], ReservationOf[t])
<1>1. CASE t = s
  BY <1>1 DEF KeepsTable
<1>2. CASE s = "NONE" /\ t = "PENDING"
  BY <1>2 DEF KeepsTable, ReservationOf
<1>3. CASE s = "PENDING" /\ t \in {"CONFIRMED", "CANCELLED", "EXPIRED"}
  BY <1>3 DEF KeepsTable, CanMove, OrderTransitions, ReservationTransitions, ReservationOf
<1>4. CASE s = "CONFIRMED" /\ t \in {"COMPLETED", "CANCELLED"}
  BY <1>4 DEF KeepsTable, CanMove, OrderTransitions, ReservationTransitions, ReservationOf
<1> QED
  BY <1>1, <1>2, <1>3, <1>4

(* A payment row moves only as its table allows. *)
LEMMA PaymentKeepsTable ==
  ASSUME TypeOK, NEW o \in Orders, OrderInv(o), OrderStep(o)
  PROVE  KeepsTable(PaymentTransitions, "PENDING", payment[o], payment'[o])
<1>1. ASSUME payment'[o] = payment[o]
      PROVE  KeepsTable(PaymentTransitions, "PENDING", payment[o], payment'[o])
  BY <1>1 DEF KeepsTable
<1>2. ASSUME payment[o] # "NONE", CanMove(PaymentTransitions, payment[o], payment'[o])
      PROVE  KeepsTable(PaymentTransitions, "PENDING", payment[o], payment'[o])
  BY <1>2 DEF KeepsTable
<1>3. ASSUME payment[o] = "NONE", payment'[o] \in {"PENDING", "PROCESSING"}
      PROVE  KeepsTable(PaymentTransitions, "PENDING", payment[o], payment'[o])
  BY <1>3 DEF KeepsTable, CanMove, PaymentTransitions
<1>4. payment \in [Orders -> PaymentStatus \cup {"NONE"}] /\ (method[o] = "NONE" <=> payment[o] = "NONE")
  BY DEF TypeOK, OrderInv, RowsComeInOrder
<1>5. ASSUME NEW v \in TransactionStatus, ApplyVerdict(o, v)
      PROVE  KeepsTable(PaymentTransitions, "PENDING", payment[o], payment'[o])
  BY <1>2, <1>4, <1>5, PaymentMoves, VerdictTarget DEF ApplyVerdict
<1>6. CASE PayStep(o)
  <2>1. CASE CreateCodPayment(o) \/ CreateUpiPayment(o) \/ AttachPaidPayment(o)
    BY <1>3, <1>4, <2>1 DEF CreateCodPayment, CreateUpiPayment, InitiateUpi, AttachPaidPayment
  <2>2. CASE RetryPayment(o)
    <3>1. payment[o] \in {"FAILED", "EXPIRED"} /\ payment'[o] = "PROCESSING"
      BY <1>4, <2>2 DEF RetryPayment, InitiateUpi, CanRetryPayment
    <3>2. CanMove(PaymentTransitions, payment[o], "PROCESSING")
      BY <3>1 DEF CanMove, PaymentTransitions
    <3> QED
      BY <1>2, <3>1, <3>2
  <2>3. CASE FailInitiation(o) \/ LoseInitiation(o)
    <3>1. \/ payment'[o] = payment[o]
          \/ payment'[o] = "FAILED" /\ CanMove(PaymentTransitions, payment[o], "FAILED")
      BY <1>4, <2>3 DEF FailInitiation, LoseInitiation
    <3>2. "FAILED" \in PaymentStatus
      BY DEF PaymentStatus
    <3> QED
      BY <1>1, <1>2, <1>4, <3>1, <3>2, PaymentMoves
  <2>4. ASSUME NEW v \in TransactionStatus, GatewayVerdict(o, v) \/ PersistInitiation(o, v)
        PROVE  KeepsTable(PaymentTransitions, "PENDING", payment[o], payment'[o])
    <3>1. ApplyVerdict(o, v) \/ payment' = payment
      BY <2>4 DEF GatewayVerdict, PersistInitiation
    <3> QED
      BY <1>1, <1>5, <3>1
  <2> QED
    BY <1>6, <2>1, <2>2, <2>3, <2>4 DEF PayStep
<1>7. CASE ShipStep(o)
  <2>1. CASE ConfirmDelivery(o)
    <3>1. \/ payment'[o] = payment[o]
          \/ payment'[o] = "PAID" /\ CanMove(PaymentTransitions, payment[o], "PAID")
      BY <1>4, <2>1 DEF ConfirmDelivery
    <3>2. "PAID" \in PaymentStatus
      BY DEF PaymentStatus
    <3> QED
      BY <1>1, <1>2, <1>4, <3>1, <3>2, PaymentMoves
  <2> QED
    BY <1>1, <1>7, <2>1 DEF ShipStep, AdvanceFulfillment, AssignPartner, ReassignPartner, PartnerStep,
       MarkOutForDelivery, RejectAssignment, FailDelivery, ReleaseFulfillment, payVars
<1>8. CASE Checkout(o) \/ WindowLapses(o) \/ SweepExpired(o) \/ ExpireReservation(o) \/ CancelOrder(o)
  BY <1>1, <1>8 DEF Checkout, WindowLapses, SweepExpired, ExpireReservation, CancelOrder, payVars
<1> QED
  BY <1>6, <1>7, <1>8 DEF OrderStep

(* A fulfillment follows its chain, or falls back to the dispatch queue. *)
LEMMA FulfillmentKeepsChain ==
  ASSUME TypeOK, NEW o \in Orders, OrderInv(o), OrderStep(o)
  PROVE  KeepsChain(fulfillment[o], fulfillment'[o])
<1> USE DEF orderVars, payVars, shipVars, stockVars
<1>1. fulfillment \in [Orders -> FulfillmentStatus \cup {"NONE"}]
      /\ (order[o] = "PENDING" => fulfillment[o] = "NONE")
  BY DEF TypeOK, OrderInv, RowsComeInOrder
<1>2. ASSUME Commit(o), order[o] = "PENDING"
      PROVE  KeepsChain(fulfillment[o], fulfillment'[o])
  BY <1>1, <1>2 DEF Commit, KeepsChain
<1>3. ASSUME NEW v \in TransactionStatus, ApplyVerdict(o, v)
      PROVE  KeepsChain(fulfillment[o], fulfillment'[o])
  <2>1. fulfillment' = fulfillment \/ (order[o] = "PENDING" /\ Commit(o))
    BY <1>3 DEF ApplyVerdict, ConfirmOrderIfPaid, settledVars
  <2> QED
    BY <1>2, <2>1 DEF KeepsChain
<1>4. CASE PayStep(o)
  <2>1. CASE CreateCodPayment(o)
    BY <1>2, <2>1 DEF CreateCodPayment
  <2>2. ASSUME NEW v \in TransactionStatus, GatewayVerdict(o, v) \/ PersistInitiation(o, v)
        PROVE  KeepsChain(fulfillment[o], fulfillment'[o])
    <3>1. ApplyVerdict(o, v) \/ fulfillment' = fulfillment
      BY <2>2 DEF GatewayVerdict, PersistInitiation, settledVars
    <3> QED
      BY <1>3, <3>1 DEF KeepsChain
  <2>3. CASE \/ CreateUpiPayment(o) \/ RetryPayment(o) \/ AttachPaidPayment(o)
             \/ FailInitiation(o) \/ LoseInitiation(o)
    BY <2>3 DEF CreateUpiPayment, RetryPayment, InitiateUpi, AttachPaidPayment, FailInitiation,
                LoseInitiation, KeepsChain
  <2> QED
    BY <1>4, <2>1, <2>2, <2>3 DEF PayStep
<1>5. CASE ShipStep(o)
  <2>1. CASE AdvanceFulfillment(o)
    BY <1>1, <2>1 DEF AdvanceFulfillment, KeepsChain, FulfillmentNext
  <2>2. CASE AssignPartner(o)
    BY <1>1, <2>2 DEF AssignPartner, KeepsChain, FulfillmentNext
  <2>3. CASE PartnerStep(o) \/ MarkOutForDelivery(o) \/ ReassignPartner(o)
    BY <1>1, <2>3 DEF PartnerStep, MarkOutForDelivery, ReassignPartner, KeepsChain, FulfillmentNext
  <2>4. CASE RejectAssignment(o) \/ FailDelivery(o)
    BY <1>1, <2>4 DEF RejectAssignment, FailDelivery, ReleaseFulfillment, KeepsChain
  <2>5. CASE ConfirmDelivery(o)
    BY <1>1, <2>5 DEF ConfirmDelivery, KeepsChain, FulfillmentNext
  <2> QED
    BY <1>5, <2>1, <2>2, <2>3, <2>4, <2>5 DEF ShipStep
<1>6. CASE Checkout(o) \/ WindowLapses(o) \/ SweepExpired(o) \/ ExpireReservation(o) \/ CancelOrder(o)
  BY <1>6 DEF Checkout, WindowLapses, SweepExpired, ExpireReservation, CancelOrder, KeepsChain
<1> QED
  BY <1>4, <1>5, <1>6 DEF OrderStep

(* No transaction, whatever it looked at, moves one of the four statuses   *)
(* of an order where its state machine would refuse.                       *)
THEOREM TablesAreAlwaysKept == Spec => TablesAreKept
<1>1. Inv /\ Inv' /\ [Next]_vars =>
        [\A o \in Orders :
           /\ KeepsTable(OrderTransitions, "PENDING", order[o], order'[o])
           /\ KeepsTable(PaymentTransitions, "PENDING", payment[o], payment'[o])
           /\ KeepsTable(ReservationTransitions, "ACTIVE", reservation[o], reservation'[o])
           /\ KeepsChain(fulfillment[o], fulfillment'[o])]_vars
  <2> SUFFICES ASSUME Inv, Inv', [Next]_vars, NEW q \in Orders
               PROVE  /\ KeepsTable(OrderTransitions, "PENDING", order[q], order'[q])
                      /\ KeepsTable(PaymentTransitions, "PENDING", payment[q], payment'[q])
                      /\ KeepsTable(ReservationTransitions, "ACTIVE", reservation[q], reservation'[q])
                      /\ KeepsChain(fulfillment[q], fulfillment'[q])
    OBVIOUS
  <2>1. CASE RowsUntouched(q)
    BY <2>1 DEF RowsUntouched, KeepsTable, KeepsChain
  <2>2. CASE OrderStep(q)
    <3>1. TypeOK /\ OrderInv(q) /\ OrderInv(q)'
      BY DEF Inv
    <3>2. reservation[q] = ReservationOf[order[q]] /\ reservation'[q] = ReservationOf[order'[q]]
      BY <3>1 DEF OrderInv, MatchesReservation, ReservationOf
    <3>3. /\ KeepsTable(OrderTransitions, "PENDING", order[q], order'[q])
          /\ KeepsTable(ReservationTransitions, "ACTIVE", reservation[q], reservation'[q])
      BY <2>2, <3>1, <3>2, OrderMoves, OrderTableMoves
    <3> QED
      BY <2>2, <3>1, <3>3, PaymentKeepsTable, FulfillmentKeepsChain
  <2> QED
    BY <2>1, <2>2, StepShape, OthersUntouched DEF OrderStep, Inv
<1> QED
  BY <1>1, Invariance, PTL DEF Spec, TablesAreKept

(* What the invariant says of the goods and the money shown for an order. *)
ShownFacts(o) ==
  /\ order[o] = "NONE" => GoodsOf(o) = "none" /\ MoneyOf(o) = "unpaid"
  /\ order[o] = "PENDING" => GoodsOf(o) = "held" /\ MoneyOf(o) = "unpaid"
  /\ order[o] = "CONFIRMED" =>
       /\ GoodsOf(o) = "held"
       /\ MoneyOf(o) = IF method[o] = "COD" THEN "unpaid" ELSE "paid"
  /\ order[o] = "COMPLETED" => GoodsOf(o) = "shipped" /\ MoneyOf(o) = "paid"
  /\ order[o] \in {"CANCELLED", "EXPIRED"} =>
       /\ GoodsOf(o) = "returned"
       /\ MoneyOf(o) = IF refund[o] THEN "owed" ELSE "unpaid"

EveryShown == \A o \in Orders : ShownFacts(o)

LEMMA Shown ==
  ASSUME TypeOK, NEW o \in Orders, OrderInv(o)
  PROVE  ShownFacts(o)
<1> USE DEF TypeOK, OrderInv, MatchesReservation, ReservationOf, MoneyNotStranded, Backed,
            RowsComeInOrder
<1>1. GoodsOf(o) = IF order[o] = "COMPLETED" THEN "shipped"
                   ELSE IF order[o] \in {"CANCELLED", "EXPIRED"} THEN "returned"
                   ELSE IF order[o] \in {"PENDING", "CONFIRMED"} THEN "held" ELSE "none"
  <2>1. CASE order[o] = "COMPLETED"
    BY <2>1 DEF GoodsOf
  <2>2. CASE order[o] \in {"CANCELLED", "EXPIRED"}
    BY <2>2 DEF GoodsOf
  <2>3. CASE order[o] \in {"PENDING", "CONFIRMED"}
    BY <2>3 DEF GoodsOf
  <2>4. CASE order[o] = "NONE"
    BY <2>4 DEF GoodsOf
  <2> QED
    BY <2>1, <2>2, <2>3, <2>4 DEF OrderStatus
<1>2. payment[o] = "PAID" /\ order[o] \in {"CANCELLED", "EXPIRED"} => refund[o]
  BY DEF PaymentStatus
<1> QED
  BY <1>1, <1>2 DEF MoneyOf, ShownFacts

(* What a customer is shown of order q does not change. *)
SameShown(q) ==
  /\ StageOf[order'[q]] = StageOf[order[q]]
  /\ GoodsOf(q)' = GoodsOf(q)
  /\ MoneyOf(q)' = MoneyOf(q)

LEMMA UntouchedSameShown ==
  ASSUME NEW q \in Orders, RowsUntouched(q)
  PROVE  SameShown(q)
  BY DEF RowsUntouched, SameShown, GoodsOf, MoneyOf

(* One step of the promise, or nothing, seen from the order it is about. *)
ShownMove(o) ==
  LET s == StageOf[order[o]]  t == StageOf[order'[o]]
      g == GoodsOf(o)'        m == MoneyOf(o)  n == MoneyOf(o)'
  IN \/ SameShown(o)
     \/ s = "none" /\ t = "open" /\ g = "held" /\ n = m
     \/ s = "open" /\ t = "confirmed" /\ g = GoodsOf(o) /\ n \in {"paid", "unpaid"}
     \/ s = "confirmed" /\ t = "delivered" /\ g = "shipped" /\ n = "paid"
     \/ /\ s \in {"open", "confirmed"} /\ t = "void" /\ g = "returned"
        /\ \/ m = "paid" /\ n = "owed"
           \/ m = "unpaid" /\ s = "open" /\ n = "owed"
           \/ m = "unpaid" /\ n = "unpaid"
     \/ /\ s = "void" /\ t = "void" /\ g = GoodsOf(o)
        /\ m = "unpaid" /\ n = "owed"

LEMMA StepIsShownMove ==
  ASSUME Inv, Inv', EveryShown, EveryShown', NEW o \in Orders, OrderStep(o)
  PROVE  ShownMove(o)
<1> USE DEF Inv, ShownMove, SameShown, StageOf
<1>1. ShownFacts(o) /\ ShownFacts(o)'
  BY DEF EveryShown
<1>3. order[o] = "CONFIRMED" => method[o] \in {"UPI", "COD"} /\ method'[o] = method[o]
  BY OrderMoves DEF OrderInv, Backed
<1>4. refund[o] => refund'[o]
  BY MoneyStep
<1>5. CASE order'[o] = order[o]
  <2>1. order[o] \in {"CANCELLED", "EXPIRED"} \/ MoneyOf(o)' = MoneyOf(o)
    BY <1>1, <1>3, <1>5 DEF TypeOK, OrderStatus, ShownFacts
  <2>2. GoodsOf(o)' = GoodsOf(o)
    BY <1>1, <1>5 DEF TypeOK, OrderStatus, ShownFacts
  <2> QED
    BY <1>1, <1>4, <1>5, <2>1, <2>2 DEF ShownFacts
<1>6. CASE order[o] = "NONE" /\ order'[o] = "PENDING"
  BY <1>1, <1>6 DEF ShownFacts
<1>7. CASE order[o] = "PENDING" /\ order'[o] \in {"CONFIRMED", "CANCELLED", "EXPIRED"}
  BY <1>1, <1>7 DEF ShownFacts
<1>8. CASE order[o] = "CONFIRMED" /\ order'[o] = "COMPLETED"
  BY <1>1, <1>8 DEF ShownFacts
<1>9. CASE order[o] = "CONFIRMED" /\ order'[o] = "CANCELLED"
  <2>1. method[o] = "UPI" => refund'[o]
    <3>1. method[o] = "UPI" => payment[o] = "PAID" /\ method'[o] = "UPI"
      BY <1>3, <1>9 DEF OrderInv, Backed
    <3> QED
      BY <1>9, <3>1, MoneyStep DEF OrderInv, MoneyNotStranded
  <2>2. method[o] = "COD" => ~refund'[o]
    BY <1>3, <1>9 DEF OrderInv, MoneyNotStranded
  <2> QED
    BY <1>1, <1>3, <1>9, <2>1, <2>2 DEF ShownFacts
<1> QED
  BY <1>5, <1>6, <1>7, <1>8, <1>9, OrderMoves

(* Every behaviour of the backend's transactions, with any gateway         *)
(* verdicts in any order, is a behaviour of OrderPromise: goods are set    *)
(* aside, shipped once or put back, and money taken for an order that dies *)
(* is owed from the very step that kills it.                               *)
THEOREM BackendKeepsPromise == Spec => PromiseKept
<1>1. Init => Promise!Init
  BY DEF Init, Promise!Init, StageOf, GoodsOf, MoneyOf
<1>2. Inv => EveryShown
  BY Shown DEF Inv, EveryShown
<1>3. Inv /\ Inv' /\ EveryShown /\ EveryShown' /\ [Next]_vars
        => [Promise!Next]_(Promise!promiseVars)
  <2> SUFFICES ASSUME Inv, Inv', EveryShown, EveryShown', [Next]_vars
               PROVE  Promise!Next \/ UNCHANGED Promise!promiseVars
    OBVIOUS
  <2>1. CASE \A q \in Orders : SameShown(q)
    BY <2>1 DEF SameShown, Promise!promiseVars
  <2>2. ASSUME NEW o \in Orders, OrderStep(o)
        PROVE  Promise!Next \/ UNCHANGED Promise!promiseVars
    <3>1. \A q \in Orders \ {o} : SameShown(q)
      BY <2>2, OthersUntouched, UntouchedSameShown DEF OrderStep, Inv
    <3>2. ShownMove(o)
      BY <2>2, StepIsShownMove
    <3> QED
      BY <3>1, <3>2 DEF SameShown, ShownMove, Promise!Next, Promise!Place,
         Promise!Confirm, Promise!Deliver, Promise!CallOff, Promise!PayLate,
         Promise!promiseVars
  <2> QED
    BY <2>1, <2>2, StepShape, UntouchedSameShown
<1> QED
  BY <1>1, <1>2, <1>3, Invariance, PTL DEF Spec, PromiseKept, Promise!Spec
=============================================================================
