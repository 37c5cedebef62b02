---------------------------- MODULE RefundPromise ----------------------------
(***************************************************************************)
(* What the shop promises of one refund, with no row, call or webhook in   *)
(* sight: money goes out only after an approval and at most once, however  *)
(* often it is tried; it is called refunded when it has gone out, failed   *)
(* when it has not and no longer can; and refunded is the end.             *)
(***************************************************************************)
CONSTANT Attempts

VARIABLES
  stage,
  payouts   \* the attempts that moved the money

promiseVars == <<stage, payouts>>

TypeOK ==
  /\ stage \in {"asked", "rejected", "approved", "trying", "failed", "refunded"}
  /\ payouts \subseteq Attempts

Init == stage = "asked" /\ payouts = {}

Decide ==
  /\ stage = "asked"
  /\ stage' \in {"approved", "rejected"}
  /\ UNCHANGED payouts

Try ==
  /\ stage \in {"approved", "failed"}
  /\ payouts = {}
  /\ stage' = "trying"
  /\ UNCHANGED payouts

PayOut ==
  /\ stage = "trying"
  /\ payouts = {}
  /\ \E a \in Attempts : payouts' = {a}
  /\ UNCHANGED stage

Tell ==
  /\ stage = "trying"
  /\ stage' = IF payouts = {} THEN "failed" ELSE "refunded"
  /\ UNCHANGED payouts

Next == Decide \/ Try \/ PayOut \/ Tell

Spec == Init /\ [][Next]_promiseVars
=============================================================================
