---------------------------- MODULE OrderPromise ----------------------------
(***************************************************************************)
(* What the shop promises a customer of each order, with no row, lock,     *)
(* gateway or warehouse in sight: goods are set aside when the order is    *)
(* placed, shipped once and only for a confirmed order, or put back; and   *)
(* money taken is for goods on their way, or it is owed back from the very *)
(* step that makes it useless.                                             *)
(***************************************************************************)
CONSTANT Orders

VARIABLES stage, goods, money

promiseVars == <<stage, goods, money>>

TypeOK ==
  /\ stage \in [Orders -> {"none", "open", "confirmed", "delivered", "void"}]
  /\ goods \in [Orders -> {"none", "held", "shipped", "returned"}]
  /\ money \in [Orders -> {"unpaid", "paid", "owed"}]

Init ==
  /\ stage = [o \in Orders |-> "none"]
  /\ goods = [o \in Orders |-> "none"]
  /\ money = [o \in Orders |-> "unpaid"]

Place(o) ==
  /\ stage[o] = "none"
  /\ stage' = [stage EXCEPT ![o] = "open"]
  /\ goods' = [goods EXCEPT ![o] = "held"]
  /\ UNCHANGED money

(* Confirmed by payment, or on the promise of cash at the door. *)
Confirm(o) ==
  /\ stage[o] = "open"
  /\ stage' = [stage EXCEPT ![o] = "confirmed"]
  /\ \E m \in {"paid", "unpaid"} : money' = [money EXCEPT ![o] = m]
  /\ UNCHANGED goods

Deliver(o) ==
  /\ stage[o] = "confirmed"
  /\ stage' = [stage EXCEPT ![o] = "delivered"]
  /\ goods' = [goods EXCEPT ![o] = "shipped"]
  /\ money' = [money EXCEPT ![o] = "paid"]

(* Cancelled, or lapsed before it was confirmed.  Money already taken, or  *)
(* taken by the payment that finds the order lapsed, is owed from then on. *)
CallOff(o) ==
  /\ stage[o] \in {"open", "confirmed"}
  /\ stage' = [stage EXCEPT ![o] = "void"]
  /\ goods' = [goods EXCEPT ![o] = "returned"]
  /\ \/ money[o] = "paid" /\ money' = [money EXCEPT ![o] = "owed"]
     \/ money[o] = "unpaid" /\ stage[o] = "open" /\ money' = [money EXCEPT ![o] = "owed"]
     \/ money[o] = "unpaid" /\ UNCHANGED money

(* A payment completes after the order is gone. *)
PayLate(o) ==
  /\ stage[o] = "void"
  /\ money[o] = "unpaid"
  /\ money' = [money EXCEPT ![o] = "owed"]
  /\ UNCHANGED <<stage, goods>>

Next ==
  \E o \in Orders : Place(o) \/ Confirm(o) \/ Deliver(o) \/ CallOff(o) \/ PayLate(o)

Spec == Init /\ [][Next]_promiseVars
=============================================================================
