-------------------------- MODULE MCStockMovements --------------------------
(* Instances of StockMovements for TLC. *)
EXTENDS StockMovements
=============================================================================
