------------------------- MODULE MCRefundProcessing -------------------------
(* Instances of RefundProcessing for TLC. *)
EXTENDS RefundProcessing
=============================================================================
