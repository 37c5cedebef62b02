------------------------- MODULE MCCheckoutSession -------------------------
(* Instances of CheckoutSession for TLC. *)
EXTENDS CheckoutSession
=============================================================================
