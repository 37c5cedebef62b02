---------------------------- MODULE StockLedger ----------------------------
(***************************************************************************)
(* What the warehouse's books promise, with no row, lock, request or       *)
(* second table in sight: one number of units per lot, some of them        *)
(* promised to orders.  What is promised stays there until it is shipped   *)
(* or given back, and goods that go from one lot to another arrive at      *)
(* most once: only a receipt or a count makes stock.                       *)
(***************************************************************************)
EXTENDS Naturals

CONSTANT Lots

VARIABLES stock, promised

bookVars == <<stock, promised>>

TypeOK ==
  /\ stock \in [Lots -> Nat]
  /\ promised \in [Lots -> Nat]

Init ==
  /\ stock \in [Lots -> Nat]
  /\ promised = [l \in Lots |-> 0]

(* More or fewer units of a lot are set aside for orders. *)
SetAside(l) ==
  /\ promised' \in [Lots -> Nat]
  /\ promised'[l] <= stock[l]
  /\ \A k \in Lots \ {l} : promised'[k] = promised[k]
  /\ UNCHANGED stock

(* Only what was promised is shipped. *)
Ship(l) ==
  \E n \in 1..promised[l] :
    /\ stock' = [stock EXCEPT ![l] = @ - n]
    /\ promised' = [promised EXCEPT ![l] = @ - n]

(* A receipt, a removal or a count of one lot. *)
Post(l) ==
  /\ stock' \in [Lots -> Nat]
  /\ stock'[l] >= promised[l]
  /\ \A k \in Lots \ {l} : stock'[k] = stock[k]
  /\ UNCHANGED promised

(* A removal, or a count that came out short, across several lots. *)
Take ==
  /\ stock' \in [Lots -> Nat]
  /\ \A l \in Lots : promised[l] <= stock'[l] /\ stock'[l] <= stock[l]
  /\ UNCHANGED promised

(* Goods go to another lot, whole or, when they are packed there, less. *)
Carry(from, to) ==
  /\ from # to
  /\ \E n \in 1..stock[from] : \E m \in 1..n :
       /\ promised[from] <= stock[from] - n
       /\ stock' = [stock EXCEPT ![from] = @ - n, ![to] = @ + m]
  /\ UNCHANGED promised

Next ==
  \/ \E l \in Lots : SetAside(l) \/ Ship(l) \/ Post(l)
  \/ Take
  \/ \E from, to \in Lots : Carry(from, to)

Spec == Init /\ [][Next]_bookVars
=============================================================================
