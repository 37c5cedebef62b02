--------------------------- MODULE SessionPromise ---------------------------
(***************************************************************************)
(* What the shop promises whoever pays before there is an order, with no   *)
(* run, lock, cart or gateway in sight, and all that the app builds on: a  *)
(* checkout session is decided when its money is in, and never again, and  *)
(* the decision is an order or that the money goes back.                   *)
(***************************************************************************)
CONSTANT Sessions

VARIABLES stage, funded

promiseVars == <<stage, funded>>

TypeOK ==
  /\ stage \in [Sessions -> {"none", "open", "ordered", "refused"}]
  /\ funded \in [Sessions -> BOOLEAN]

Init ==
  /\ stage = [s \in Sessions |-> "none"]
  /\ funded = [s \in Sessions |-> FALSE]

Open(s) ==
  /\ stage[s] = "none"
  /\ stage' = [stage EXCEPT ![s] = "open"]
  /\ UNCHANGED funded

Fund(s) ==
  /\ stage[s] = "open" /\ ~funded[s]
  /\ funded' = [funded EXCEPT ![s] = TRUE]
  /\ UNCHANGED stage

Decide(s) ==
  /\ stage[s] = "open" /\ funded[s]
  /\ \E d \in {"ordered", "refused"} : stage' = [stage EXCEPT ![s] = d]
  /\ UNCHANGED funded

Next == \E s \in Sessions : Open(s) \/ Fund(s) \/ Decide(s)

Spec == Init /\ [][Next]_promiseVars
=============================================================================
