----------------------------- MODULE OrderStates -----------------------------
(***************************************************************************)
(* The status columns of an order and of the rows that hang off it, with   *)
(* the transition table of each, as app/services/*_state.py declare them.  *)
(* Every module of the project that moves one of these statuses asks these *)
(* tables, the way every service asks transition_*_status.  "NONE" is the  *)
(* absence of the row and is not a status of the code.  A definition named *)
(* Slip_... is a plausible mistake in the one that follows it, kept to     *)
(* show that a property would catch it.                                    *)
(***************************************************************************)

OrderStatus == {"PENDING", "CONFIRMED", "CANCELLED", "COMPLETED", "EXPIRED"}

Slip_CompletedCanBeCancelled ==
  [ PENDING   |-> {"CONFIRMED", "EXPIRED", "CANCELLED"},
    CONFIRMED |-> {"COMPLETED", "CANCELLED"},
    COMPLETED |-> {"CANCELLED"},
    EXPIRED   |-> {},
    CANCELLED |-> {} ]

OrderTransitions ==
  [ PENDING   |-> {"CONFIRMED", "EXPIRED", "CANCELLED"},
    CONFIRMED |-> {"COMPLETED", "CANCELLED"},
    COMPLETED |-> {},
    EXPIRED   |-> {},
    CANCELLED |-> {} ]

TerminalOrderStatus == {"COMPLETED", "EXPIRED", "CANCELLED"}

PaymentStatus == {"PENDING", "PROCESSING", "PAID", "FAILED", "CANCELLED", "EXPIRED"}

PaymentTransitions ==
  [ PENDING    |-> {"PROCESSING", "PAID", "FAILED", "EXPIRED", "CANCELLED"},
    PROCESSING |-> {"PAID", "FAILED", "EXPIRED", "CANCELLED"},
    FAILED     |-> {"PROCESSING"},
    EXPIRED    |-> {"PROCESSING"},
    PAID       |-> {},
    CANCELLED  |-> {} ]

CanRetryPayment == {"FAILED", "EXPIRED"}

TransactionStatus ==
  {"INITIATED", "PROCESSING", "SUCCESS", "FAILED", "CANCELLED", "EXPIRED"}

TransactionTerminal == {"SUCCESS", "FAILED", "CANCELLED", "EXPIRED"}

(* What a gateway verdict on a transaction asks of the payment. *)
GatewayToPayment ==
  [ INITIATED  |-> "PROCESSING",
    PROCESSING |-> "PROCESSING",
    SUCCESS    |-> "PAID",
    FAILED     |-> "FAILED",
    CANCELLED  |-> "CANCELLED",
    EXPIRED    |-> "EXPIRED" ]

ReservationStatus == {"ACTIVE", "COMMITTED", "RELEASED", "EXPIRED"}

ReservationTransitions ==
  [ ACTIVE    |-> {"COMMITTED", "RELEASED", "EXPIRED"},
    COMMITTED |-> {"RELEASED"},
    RELEASED  |-> {},
    EXPIRED   |-> {} ]

FulfillmentStatus ==
  {"PENDING", "PICKING", "PACKED", "READY_FOR_DELIVERY", "ASSIGNED",
   "OUT_FOR_DELIVERY", "DELIVERED"}

(* _NEXT_STATUS: one step of the fixed chain, no skipping. *)
FulfillmentNext ==
  [ PENDING            |-> "PICKING",
    PICKING            |-> "PACKED",
    PACKED             |-> "READY_FOR_DELIVERY",
    READY_FOR_DELIVERY |-> "ASSIGNED",
    ASSIGNED           |-> "OUT_FOR_DELIVERY",
    OUT_FOR_DELIVERY   |-> "DELIVERED" ]

(* reopen_for_dispatch: the only statuses a delivery may fall back from. *)
Reopenable == {"ASSIGNED", "OUT_FOR_DELIVERY"}

RefundStatus ==
  {"PENDING_APPROVAL", "APPROVED", "REJECTED", "PROCESSING", "REFUNDED", "FAILED"}

RefundTransitions ==
  [ PENDING_APPROVAL |-> {"APPROVED", "REJECTED"},
    APPROVED         |-> {"PROCESSING"},
    PROCESSING       |-> {"REFUNDED", "FAILED"},
    FAILED           |-> {"PROCESSING"},
    REFUNDED         |-> {},
    REJECTED         |-> {} ]

(* The part of every transition_*_status that allows a change: same-state  *)
(* requests are no-ops and are left to stuttering.                         *)
CanMove(table, from, to) == from \in DOMAIN table /\ to \in table[from]
=============================================================================
