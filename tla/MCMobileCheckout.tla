-------------------------- MODULE MCMobileCheckout --------------------------
(* Instances of MobileCheckout for TLC. *)
EXTENDS MobileCheckout
=============================================================================
