----------------------- MODULE RefundProcessing_proofs -----------------------
(***************************************************************************)
(* Proofs about RefundProcessing for any number of attempts and admins.    *)
(***************************************************************************)
EXTENDS RefundProcessing, TLAPS

(* The gateway's words become transaction statuses, and those outcomes.    *)
LEMMA Verdicts ==
  \A g \in DOMAIN VerdictOf :
    /\ g \in {"pending", "processed", "failed"}
    /\ VerdictOf[g] = "PROCESSING" <=> g = "pending"
    /\ VerdictOf[g] = "SUCCESS" <=> g = "processed"
    /\ VerdictOf[g] = "FAILED" <=> g = "failed"
    /\ VerdictOf[g] \in {"PROCESSING", "SUCCESS", "FAILED"}
  BY DEF VerdictOf

LEMMA Outcomes ==
  Outcome("SUCCESS") = "REFUNDED" /\ Outcome("FAILED") = "FAILED"
  BY DEF Outcome

(* Only an approved or a failed refund may be sent to the gateway. *)
LEMMA ProcessFrom ==
  \A s \in RefundStatus :
    CanMove(RefundTransitions, s, "PROCESSING") <=> s \in {"APPROVED", "FAILED"}
  BY DEF RefundStatus, CanMove, RefundTransitions

-----------------------------------------------------------------------------
(* A refund row and its attempts stay within their status sets.            *)
THEOREM RefundTypeCorrect == Spec => []TypeOK
<1>1. Init => TypeOK
  BY MaxAttemptsAssumption
     DEF Init, TypeOK, RefundStatus, Attempts, Idle, GatewayStates
<1>2. TypeOK /\ [Next]_vars => TypeOK'
  <2> SUFFICES ASSUME TypeOK, [Next]_vars PROVE TypeOK'
    OBVIOUS
  <2> USE MaxAttemptsAssumption DEF TypeOK, Attempts, RefundStatus, GatewayStates, attemptVars
  <2>0. ASSUME NEW a, NEW v \in {"PROCESSING", "SUCCESS", "FAILED"},
               ResolveProcessingRefund(a, v)
        PROVE  /\ refund' \in RefundStatus
               /\ tx' \in [Attempts -> {"NONE", "INITIATED", "PROCESSING", "SUCCESS", "FAILED"}]
    BY <2>0, Outcomes DEF ResolveProcessingRefund
  <2>1. CASE ApproveRefund \/ RejectRefund
    BY <2>1 DEF ApproveRefund, RejectRefund, Decide
  <2>2. CASE ProcessRefund
    BY <2>2 DEF ProcessRefund
  <2>3. ASSUME NEW a \in Attempts, CallStep(a) PROVE TypeOK'
    <3>1. CASE PersistGatewayResult(a)
      BY <3>1, Verdicts, Outcomes DEF PersistGatewayResult
    <3>2. CASE FailUnresolvedAttempt(a)
      BY <3>2 DEF FailUnresolvedAttempt
    <3>3. CASE LoseAnswer(a)
      BY <3>3 DEF LoseAnswer
    <3> QED
      BY <2>3, <3>1, <3>2, <3>3 DEF CallStep
  <2>4. ASSUME NEW a \in Attempts, GatewayStep(a) PROVE TypeOK'
    BY <2>4 DEF GatewayStep, GatewayTakes, GatewayDecides
  <2>5. ASSUME NEW a \in Attempts, RefundWebhook(a) PROVE TypeOK'
    <3>1. VerdictOf[gateway[a]] \in {"SUCCESS", "FAILED"}
      BY <2>5 DEF RefundWebhook, VerdictOf
    <3> QED
      BY <2>0, <2>5, <3>1 DEF RefundWebhook
  <2>6. ASSUME NEW m \in Admins, SyncStep(m) PROVE TypeOK'
    <3>1. CASE SyncStart(m)
      <4>1. [of |-> attempts, answer |-> "none"] \in [of : 0..MaxAttempts, answer : GatewayStates]
        OBVIOUS
      <4> QED
        BY <3>1, <4>1 DEF SyncStart
    <3>2. CASE SyncAnswer(m)
      <4>1. gateway[sync[m].of] \in GatewayStates
        BY <3>2 DEF SyncAnswer
      <4> QED
        BY <3>2, <4>1 DEF SyncAnswer
    <3>3. CASE SyncFinish(m)
      <4>1. Idle \in [of : 0..MaxAttempts, answer : GatewayStates]
        BY DEF Idle
      <4>2. sync' \in [Admins -> [of : 0..MaxAttempts, answer : GatewayStates]]
        BY <3>3, <4>1 DEF SyncFinish
      <4>3. VerdictOf[sync[m].answer] \in {"PROCESSING", "SUCCESS", "FAILED"}
        BY <3>3, Verdicts DEF SyncFinish
      <4>4. ResolveProcessingRefund(sync[m].of, VerdictOf[sync[m].answer])
        BY <3>3 DEF SyncFinish
      <4>5. /\ refund' \in RefundStatus
            /\ tx' \in [Attempts -> {"NONE", "INITIATED", "PROCESSING", "SUCCESS", "FAILED"}]
        <5> HIDE DEF TypeOK, Attempts, RefundStatus
        <5> QED
          BY <2>0, <4>3, <4>4
      <4> QED
        BY <3>3, <4>2, <4>5 DEF SyncFinish
    <3>4. CASE SyncLost(m)
      BY <3>4 DEF SyncLost, Idle
    <3> QED
      BY <2>6, <3>1, <3>2, <3>3, <3>4 DEF SyncStep
  <2>7. CASE UNCHANGED vars
    BY <2>7 DEF vars
  <2> QED
    BY <2>1, <2>2, <2>3, <2>4, <2>5, <2>6, <2>7 DEF Next
<1> QED
  BY <1>1, <1>2, PTL DEF Spec

-----------------------------------------------------------------------------
(* The inductive invariant: the books of the attempts, and what the checks *)
(* in progress know, are true of the gateway.                              *)

AttemptsInOrder ==
  /\ \A a \in Attempts :
       /\ tx[a] = "NONE" <=> a > attempts
       /\ call[a] = "none" <=> a > attempts
       /\ a > attempts => gateway[a] = "none"
  /\ attempts = 0 <=> refund \in {"PENDING_APPROVAL", "APPROVED", "REJECTED"}

ChecksAreTrue ==
  \A m \in Admins :
    /\ sync[m].of <= attempts
    /\ sync[m].answer # "none" => sync[m].of > 0
    /\ sync[m].answer \in {"processed", "failed"} => gateway[sync[m].of] = sync[m].answer

RefundInv ==
  /\ AttemptsInOrder
  /\ ChecksAreTrue
  /\ VerdictsAreTrue
  /\ RefundedMeansPaid
  /\ ProcessingIsUndecided

(* Applying a verdict the gateway did give to attempt a keeps the books.   *)
LEMMA ResolveKeeps ==
  ASSUME TypeOK, RefundInv, NEW a \in Attempts, NEW g \in DOMAIN VerdictOf, a <= attempts,
         g \in {"processed", "failed"} => gateway[a] = g,
         ResolveProcessingRefund(a, VerdictOf[g]),
         UNCHANGED <<attempts, hasRef, call, gateway>>
  PROVE  /\ AttemptsInOrder'
         /\ VerdictsAreTrue'
         /\ RefundedMeansPaid'
         /\ ProcessingIsUndecided'
<1> USE DEF RefundInv, TypeOK, Attempts
<1>1. CASE UNCHANGED <<tx, refund>>
  BY <1>1 DEF AttemptsInOrder, VerdictsAreTrue, RefundedMeansPaid, ProcessingIsUndecided
<1>2. CASE g = "processed" /\ tx' = [tx EXCEPT ![a] = "SUCCESS"] /\ refund' = "REFUNDED"
           /\ refund = "PROCESSING"
  BY <1>2 DEF AttemptsInOrder, VerdictsAreTrue, RefundedMeansPaid, ProcessingIsUndecided
<1>3. CASE g = "failed" /\ tx' = [tx EXCEPT ![a] = "FAILED"] /\ refund' = "FAILED"
           /\ refund = "PROCESSING"
  BY <1>3 DEF AttemptsInOrder, VerdictsAreTrue, RefundedMeansPaid, ProcessingIsUndecided
<1> QED
  BY <1>1, <1>2, <1>3, Verdicts, Outcomes DEF ResolveProcessingRefund

THEOREM RefundInvariance == Spec => []RefundInv
<1>1. Init => RefundInv
  BY MaxAttemptsAssumption DEF Init, RefundInv, AttemptsInOrder, ChecksAreTrue,
     VerdictsAreTrue, RefundedMeansPaid, ProcessingIsUndecided, Attempts, Idle
<1>2. TypeOK /\ RefundInv /\ [Next]_vars => RefundInv'
  <2> SUFFICES ASSUME TypeOK, RefundInv, [Next]_vars PROVE RefundInv'
    OBVIOUS
  <2> USE MaxAttemptsAssumption
      DEF TypeOK, Attempts, RefundInv, attemptVars
  <2>1. CASE ApproveRefund \/ RejectRefund
    BY <2>1 DEF ApproveRefund, RejectRefund, Decide, AttemptsInOrder, ChecksAreTrue,
       VerdictsAreTrue, RefundedMeansPaid, ProcessingIsUndecided
  <2>2. CASE ProcessRefund
    <3>1. refund \in {"APPROVED", "FAILED"}
      BY <2>2, ProcessFrom DEF ProcessRefund
    <3>2. AttemptsInOrder'
      BY <2>2, <3>1 DEF ProcessRefund, AttemptsInOrder
    <3>3. ChecksAreTrue'
      BY <2>2 DEF ProcessRefund, ChecksAreTrue
    <3>4. VerdictsAreTrue' /\ RefundedMeansPaid' /\ ProcessingIsUndecided'
      BY <2>2 DEF ProcessRefund, VerdictsAreTrue, RefundedMeansPaid, ProcessingIsUndecided
    <3> QED
      BY <3>2, <3>3, <3>4
  <2>3. ASSUME NEW a \in Attempts, CallStep(a) PROVE RefundInv'
    <3>1. attempts > 0 /\ a <= attempts /\ refund \notin {"PENDING_APPROVAL", "APPROVED", "REJECTED"}
      BY <2>3 DEF CallStep, PersistGatewayResult, FailUnresolvedAttempt, LoseAnswer,
                  AttemptsInOrder
    <3>2. ChecksAreTrue'
      BY <2>3 DEF CallStep, PersistGatewayResult, FailUnresolvedAttempt, LoseAnswer,
                  ChecksAreTrue
    <3>3. CASE PersistGatewayResult(a)
      <4>1. CASE gateway[a] = "pending"
        BY <3>1, <3>2, <3>3, <4>1, Verdicts DEF PersistGatewayResult, AttemptsInOrder,
           VerdictsAreTrue, RefundedMeansPaid, ProcessingIsUndecided
      <4>2. CASE gateway[a] = "processed"
        BY <3>1, <3>2, <3>3, <4>2, Verdicts, Outcomes DEF PersistGatewayResult,
           AttemptsInOrder, VerdictsAreTrue, RefundedMeansPaid, ProcessingIsUndecided
      <4>3. CASE gateway[a] = "failed"
        BY <3>1, <3>2, <3>3, <4>3, Verdicts, Outcomes DEF PersistGatewayResult,
           AttemptsInOrder, VerdictsAreTrue, RefundedMeansPaid, ProcessingIsUndecided
      <4> QED
        BY <3>3, <4>1, <4>2, <4>3, Verdicts DEF PersistGatewayResult
    <3>4. CASE FailUnresolvedAttempt(a)
      BY <3>1, <3>2, <3>4 DEF FailUnresolvedAttempt, AttemptsInOrder, VerdictsAreTrue,
         RefundedMeansPaid, ProcessingIsUndecided
    <3>5. CASE LoseAnswer(a)
      BY <3>1, <3>2, <3>5 DEF LoseAnswer, AttemptsInOrder, VerdictsAreTrue,
         RefundedMeansPaid, ProcessingIsUndecided
    <3> QED
      BY <2>3, <3>3, <3>4, <3>5 DEF CallStep
  <2>4. ASSUME NEW a \in Attempts, GatewayStep(a) PROVE RefundInv'
    <3>1. gateway[a] \in {"none", "pending"} /\ a <= attempts
      BY <2>4 DEF GatewayStep, GatewayTakes, GatewayDecides, AttemptsInOrder
    <3>2. /\ UNCHANGED <<refund, attempts, tx, hasRef, call, sync>>
          /\ \A b \in Attempts \ {a} : gateway'[b] = gateway[b]
      BY <2>4 DEF GatewayStep, GatewayTakes, GatewayDecides
    <3>3. ChecksAreTrue'
      BY <3>1, <3>2 DEF ChecksAreTrue
    <3>4. AttemptsInOrder'
      BY <3>1, <3>2 DEF AttemptsInOrder
    <3>5. VerdictsAreTrue'
      BY <3>1, <3>2 DEF VerdictsAreTrue
    <3>6. RefundedMeansPaid'
      BY <3>1, <3>2 DEF RefundedMeansPaid
    <3>7. ProcessingIsUndecided'
      BY <3>2 DEF ProcessingIsUndecided
    <3> QED
      BY <3>3, <3>4, <3>5, <3>6, <3>7
  <2>5. ASSUME NEW a \in Attempts, RefundWebhook(a) PROVE RefundInv'
    <3>1. ChecksAreTrue' /\ a <= attempts /\ gateway[a] \in DOMAIN VerdictOf
      BY <2>5 DEF RefundWebhook, ChecksAreTrue, AttemptsInOrder, VerdictOf
    <3>2. CASE UNCHANGED <<tx, refund>>
      BY <2>5, <3>1, <3>2 DEF RefundWebhook, AttemptsInOrder, VerdictsAreTrue,
         RefundedMeansPaid, ProcessingIsUndecided
    <3>3. CASE ResolveProcessingRefund(a, VerdictOf[gateway[a]])
      BY <2>5, <3>1, <3>3, ResolveKeeps DEF RefundWebhook
    <3> QED
      BY <2>5, <3>2, <3>3 DEF RefundWebhook
  <2>6. ASSUME NEW m \in Admins, SyncStep(m) PROVE RefundInv'
    <3>1. CASE SyncFinish(m)
      <4>1. sync[m].of \in Attempts /\ sync[m].of <= attempts
        BY <3>1 DEF SyncFinish, ChecksAreTrue, VerdictOf
      <4>2. sync[m].answer \in {"processed", "failed"} => gateway[sync[m].of] = sync[m].answer
        BY DEF ChecksAreTrue
      <4>3. /\ AttemptsInOrder' /\ VerdictsAreTrue'
            /\ RefundedMeansPaid' /\ ProcessingIsUndecided'
        BY <3>1, <4>1, <4>2, ResolveKeeps DEF SyncFinish
      <4>4. ChecksAreTrue'
        BY <3>1 DEF SyncFinish, ChecksAreTrue, Idle
      <4> QED
        BY <4>3, <4>4
    <3>2. CASE SyncStart(m) \/ SyncAnswer(m) \/ SyncLost(m)
      <4>1. ChecksAreTrue'
        <5>1. CASE SyncStart(m)
          BY <5>1 DEF SyncStart, ChecksAreTrue
        <5>2. CASE SyncAnswer(m)
          BY <5>2 DEF SyncAnswer, ChecksAreTrue
        <5>3. CASE SyncLost(m)
          BY <5>3 DEF SyncLost, ChecksAreTrue, Idle
        <5> QED
          BY <3>2, <5>1, <5>2, <5>3
      <4>2. UNCHANGED <<refund, attempts, tx, hasRef, call, gateway>>
        BY <3>2 DEF SyncStart, SyncAnswer, SyncLost
      <4> QED
        BY <4>1, <4>2 DEF AttemptsInOrder, VerdictsAreTrue, RefundedMeansPaid,
                          ProcessingIsUndecided
    <3> QED
      BY <2>6, <3>1, <3>2 DEF SyncStep
  <2>7. CASE UNCHANGED vars
    BY <2>7 DEF vars, AttemptsInOrder, ChecksAreTrue, VerdictsAreTrue,
       RefundedMeansPaid, ProcessingIsUndecided
  <2> QED
    BY <2>1, <2>2, <2>3, <2>4, <2>5, <2>6, <2>7 DEF Next
<1> QED
  BY <1>1, <1>2, RefundTypeCorrect, PTL DEF Spec

-----------------------------------------------------------------------------
(* No transaction row tells a verdict the gateway did not give, whatever   *)
(* answers, webhooks and checks cross each other.                          *)
THEOREM VerdictsStayTrue == Spec => []VerdictsAreTrue
<1>1. RefundInv => VerdictsAreTrue
  BY DEF RefundInv
<1> QED
  BY <1>1, RefundInvariance, PTL

(* A refund is reported REFUNDED only if an attempt was paid out.          *)
THEOREM RefundedIsPaid == Spec => []RefundedMeansPaid
<1>1. RefundInv => RefundedMeansPaid
  BY DEF RefundInv
<1> QED
  BY <1>1, RefundInvariance, PTL

(* While the refund is PROCESSING its latest attempt is undecided.         *)
THEOREM ProcessingStaysUndecided == Spec => []ProcessingIsUndecided
<1>1. RefundInv => ProcessingIsUndecided
  BY DEF RefundInv
<1> QED
  BY <1>1, RefundInvariance, PTL

(* Before an approval and after a rejection nothing has been sent.         *)
THEOREM MoneyWaitsForApproval == Spec => []MoneyNeedsApproval
<1>1. TypeOK /\ RefundInv => MoneyNeedsApproval
  BY DEF RefundInv, AttemptsInOrder, MoneyNeedsApproval, TypeOK, Attempts
<1> QED
  BY <1>1, RefundTypeCorrect, RefundInvariance, PTL

-----------------------------------------------------------------------------
(* Where every verdict is in time.                                         *)

(* The attempt can move no money any more, and has not.                    *)
Dead(a) == gateway[a] \in {"refused", "failed"}

InTimeInv ==
  /\ \A a \in Attempts : a < attempts => Dead(a)
  /\ refund = "FAILED" => attempts \in Attempts /\ Dead(attempts)
  /\ refund = "REFUNDED" => attempts \in Attempts /\ gateway[attempts] = "processed"

Payouts == {a \in Attempts : gateway[a] = "processed"}

(* Only the latest attempt can have moved money.                           *)
LEMMA PayoutsAre ==
  ASSUME TypeOK, RefundInv, InTimeInv
  PROVE  /\ attempts \in Attempts /\ gateway[attempts] = "processed" => Payouts = {attempts}
         /\ ~(attempts \in Attempts /\ gateway[attempts] = "processed") => Payouts = {}
         /\ refund \in {"APPROVED", "FAILED"} => Payouts = {}
<1>1. \A a \in Attempts : gateway[a] = "processed" => a = attempts
  BY MaxAttemptsAssumption DEF TypeOK, Attempts, RefundInv, AttemptsInOrder, InTimeInv, Dead
<1>2. refund \in {"APPROVED", "FAILED"} => ~(attempts \in Attempts /\ gateway[attempts] = "processed")
  BY DEF RefundInv, AttemptsInOrder, InTimeInv, Dead, Attempts
<1> QED
  BY <1>1, <1>2 DEF Payouts

(* The gateway moves while the refund is PROCESSING, on the latest attempt.*)
LEMMA GatewayMove ==
  ASSUME TypeOK, RefundInv, InTimeInv, NEW a \in Attempts, GatewayStep(a)
  PROVE  InTimeInv' /\ [Promise!Next]_(Promise!promiseVars)
<1>1. /\ gateway[a] \in {"none", "pending"} /\ a <= attempts
      /\ \E g \in {"refused", "pending", "processed", "failed"} : gateway' = [gateway EXCEPT ![a] = g]
      /\ UNCHANGED <<refund, attempts, tx>>
  <2>1. CASE GatewayTakes(a)
    <3>1. a <= attempts
      BY <2>1, MaxAttemptsAssumption DEF GatewayTakes, RefundInv, AttemptsInOrder, TypeOK, Attempts
    <3> QED
      BY <2>1, <3>1 DEF GatewayTakes, attemptVars
  <2>2. CASE GatewayDecides(a)
    <3>1. a <= attempts
      BY <2>2, MaxAttemptsAssumption DEF GatewayDecides, RefundInv, AttemptsInOrder, TypeOK, Attempts
    <3> QED
      BY <2>2, <3>1 DEF GatewayDecides, attemptVars
  <2> QED
    BY <2>1, <2>2 DEF GatewayStep
<1>2. a = attempts /\ refund = "PROCESSING"
  BY <1>1, MaxAttemptsAssumption DEF TypeOK, RefundStatus, Attempts, RefundInv, AttemptsInOrder, InTimeInv, Dead
<1>3. Payouts = {}
  BY <1>1, <1>2, PayoutsAre
<1>4. \A b \in Attempts \ {a} : gateway'[b] = gateway[b]
  BY <1>1 DEF TypeOK
<1>5. InTimeInv'
  BY <1>1, <1>2, <1>4, MaxAttemptsAssumption DEF InTimeInv, Dead, TypeOK, Attempts
<1>6. Payouts' = {} \/ Payouts' = {a}
  BY <1>3, <1>4 DEF Payouts
<1>7. Stage = "trying" /\ Stage' = "trying"
  BY <1>1, <1>2 DEF Stage
<1> QED
  BY <1>3, <1>5, <1>6, <1>7 DEF Payouts, Promise!Next, Promise!PayOut, Promise!promiseVars

(* A verdict that changes the refund in time is that of the latest attempt.*)
LEMMA VerdictMove ==
  ASSUME TypeOK, RefundInv, InTimeInv, VerdictInTime, NEW a \in Attempts,
         refund' \in {"REFUNDED", "FAILED"}, refund' # refund,
         \A b \in Attempts \ {a} : tx'[b] = tx[b], UNCHANGED <<attempts, gateway>>,
         refund' = "REFUNDED" => gateway[a] = "processed", refund' = "FAILED" => Dead(a)
  PROVE  InTimeInv' /\ [Promise!Next]_(Promise!promiseVars)
<1>1. refund = "PROCESSING" /\ tx'[attempts] \in {"SUCCESS", "FAILED"}
  BY DEF VerdictInTime
<1>2. attempts \in Attempts /\ tx[attempts] \in {"INITIATED", "PROCESSING"}
  BY <1>1, MaxAttemptsAssumption DEF RefundInv, ProcessingIsUndecided, TypeOK, Attempts
<1>3. a = attempts
  BY <1>1, <1>2
<1>4. InTimeInv'
  BY <1>1, <1>2, <1>3 DEF InTimeInv, Dead
<1>5. Payouts' = Payouts /\ (Payouts = {} <=> refund' = "FAILED")
  BY <1>2, <1>3, PayoutsAre DEF Payouts, Dead
<1>6. Stage = "trying" /\ Stage' = IF refund' = "FAILED" THEN "failed" ELSE "refunded"
  BY <1>1 DEF Stage
<1> QED
  BY <1>4, <1>5, <1>6 DEF Payouts, Promise!Next, Promise!Tell, Promise!promiseVars

(* A step that leaves refund, attempts and gateway alone is not seen.      *)
LEMMA QuietMove ==
  ASSUME InTimeInv, UNCHANGED <<refund, attempts, gateway>>
  PROVE  InTimeInv' /\ [Promise!Next]_(Promise!promiseVars)
BY DEF InTimeInv, Dead, Stage, Promise!promiseVars

LEMMA ResolveMove ==
  ASSUME TypeOK, RefundInv, InTimeInv, VerdictInTime, NEW a \in Attempts, NEW g \in DOMAIN VerdictOf,
         g \in {"processed", "failed"} => gateway[a] = g,
         ResolveProcessingRefund(a, VerdictOf[g]), UNCHANGED <<attempts, gateway>>
  PROVE  InTimeInv' /\ [Promise!Next]_(Promise!promiseVars)
<1>1. CASE UNCHANGED <<tx, refund>>
  BY <1>1, QuietMove
<1>2. CASE /\ VerdictOf[g] \in {"SUCCESS", "FAILED"} /\ refund = "PROCESSING"
           /\ tx' = [tx EXCEPT ![a] = VerdictOf[g]] /\ refund' = Outcome(VerdictOf[g])
  <2>1. /\ refund' \in {"REFUNDED", "FAILED"} /\ refund' # refund
        /\ refund' = "REFUNDED" => gateway[a] = "processed"
        /\ refund' = "FAILED" => Dead(a)
    BY <1>2, Verdicts, Outcomes DEF Dead
  <2>2. \A b \in Attempts \ {a} : tx'[b] = tx[b]
    BY <1>2 DEF TypeOK
  <2> QED
    BY <2>1, <2>2, VerdictMove
<1> QED
  BY <1>1, <1>2 DEF ResolveProcessingRefund

LEMMA CallMove ==
  ASSUME TypeOK, RefundInv, InTimeInv, VerdictInTime, NEW a \in Attempts, CallStep(a)
  PROVE  InTimeInv' /\ [Promise!Next]_(Promise!promiseVars)
<1>1. UNCHANGED <<attempts, gateway>> /\ \A b \in Attempts \ {a} : tx'[b] = tx[b]
  BY DEF CallStep, PersistGatewayResult, FailUnresolvedAttempt, LoseAnswer, TypeOK
<1>2. \/ refund' = refund
      \/ refund' = "REFUNDED" /\ gateway[a] = "processed"
      \/ refund' = "FAILED" /\ Dead(a)
  <2>1. CASE PersistGatewayResult(a)
    <3>1. gateway[a] \in {"pending", "processed", "failed"}
      BY <2>1, Verdicts DEF PersistGatewayResult
    <3> QED
      BY <2>1, <3>1, Outcomes DEF PersistGatewayResult, VerdictOf, Dead
  <2>2. CASE FailUnresolvedAttempt(a) \/ LoseAnswer(a)
    BY <2>2 DEF FailUnresolvedAttempt, LoseAnswer, Dead
  <2> QED
    BY <2>1, <2>2 DEF CallStep
<1>3. CASE refund' = refund
  BY <1>1, <1>3, QuietMove
<1>4. CASE refund' # refund
  BY <1>1, <1>2, <1>4, VerdictMove DEF Dead
<1> QED
  BY <1>3, <1>4

LEMMA InTimeMove ==
  ASSUME TypeOK, RefundInv, InTimeInv, [Next]_vars, [VerdictInTime]_vars
  PROVE  InTimeInv' /\ [Promise!Next]_(Promise!promiseVars)
<1>0. CASE UNCHANGED vars
  BY <1>0, QuietMove DEF vars
<1>1. CASE ApproveRefund \/ RejectRefund
  <2>1. /\ refund = "PENDING_APPROVAL" /\ refund' \in {"APPROVED", "REJECTED"}
        /\ UNCHANGED <<attempts, gateway>>
    BY <1>1 DEF ApproveRefund, RejectRefund, Decide, attemptVars
  <2>2. Stage = "asked" /\ Stage' \in {"approved", "rejected"} /\ Payouts' = Payouts
    BY <2>1 DEF Stage, Payouts
  <2>3. InTimeInv'
    BY <2>1 DEF InTimeInv, Dead
  <2> QED
    BY <2>2, <2>3 DEF Payouts, Promise!Next, Promise!Decide, Promise!promiseVars
<1>2. CASE ProcessRefund
  <2>1. /\ refund \in {"APPROVED", "FAILED"} /\ refund' = "PROCESSING"
        /\ attempts' = attempts + 1 /\ gateway' = gateway
    BY <1>2, ProcessFrom DEF ProcessRefund, TypeOK
  <2>2. Stage \in {"approved", "failed"} /\ Stage' = "trying" /\ Payouts' = Payouts /\ Payouts = {}
    BY <2>1, PayoutsAre DEF Stage, Payouts
  <2>3. \A a \in Attempts : a < attempts' => Dead(a)
    BY <2>1, MaxAttemptsAssumption DEF InTimeInv, RefundInv, AttemptsInOrder, TypeOK, Attempts
  <2>4. InTimeInv'
    BY <2>1, <2>3 DEF InTimeInv, Dead
  <2> QED
    BY <2>2, <2>4 DEF Payouts, Promise!Next, Promise!Try, Promise!promiseVars
<1>3. ASSUME NEW a \in Attempts, CallStep(a), VerdictInTime
      PROVE  InTimeInv' /\ [Promise!Next]_(Promise!promiseVars)
  BY <1>3, CallMove
<1>4. ASSUME NEW a \in Attempts, GatewayStep(a)
      PROVE  InTimeInv' /\ [Promise!Next]_(Promise!promiseVars)
  BY <1>4, GatewayMove
<1>5. ASSUME NEW a \in Attempts, RefundWebhook(a), VerdictInTime
      PROVE  InTimeInv' /\ [Promise!Next]_(Promise!promiseVars)
  <2>1. gateway[a] \in DOMAIN VerdictOf /\ UNCHANGED <<attempts, gateway>>
    BY <1>5 DEF RefundWebhook, VerdictOf
  <2>2. CASE UNCHANGED <<tx, refund>>
    BY <2>1, <2>2, QuietMove
  <2>3. CASE ResolveProcessingRefund(a, VerdictOf[gateway[a]])
    BY <1>5, <2>1, <2>3, ResolveMove
  <2> QED
    BY <1>5, <2>2, <2>3 DEF RefundWebhook
<1>6. ASSUME NEW m \in Admins, SyncStep(m), VerdictInTime
      PROVE  InTimeInv' /\ [Promise!Next]_(Promise!promiseVars)
  <2>1. CASE SyncFinish(m)
    <3>1. sync[m].of \in Attempts
      BY <2>1 DEF SyncFinish, RefundInv, ChecksAreTrue, VerdictOf, TypeOK, Attempts
    <3>2. sync[m].answer \in {"processed", "failed"} => gateway[sync[m].of] = sync[m].answer
      BY DEF RefundInv, ChecksAreTrue
    <3> QED
      BY <1>6, <2>1, <3>1, <3>2, ResolveMove DEF SyncFinish
  <2>2. CASE SyncStart(m) \/ SyncAnswer(m) \/ SyncLost(m)
    <3>1. UNCHANGED <<refund, attempts, gateway>>
      BY <2>2 DEF SyncStart, SyncAnswer, SyncLost, attemptVars
    <3> QED
      BY <3>1, QuietMove
  <2> QED
    BY <1>6, <2>1, <2>2 DEF SyncStep
<1> QED
  BY <1>0, <1>1, <1>2, <1>3, <1>4, <1>5, <1>6 DEF Next

(* Where every verdict comes in time - while the refund is PROCESSING and  *)
(* about its latest attempt - the refund is what RefundPromise says, and   *)
(* no attempt is sent while an earlier one can move the money: the late    *)
(* verdicts are the only way to pay a customer twice or to take a REFUNDED *)
(* back.                                                                   *)
THEOREM PaidOnceInTime == Spec => PaidOnceIfInTime
<1>1. Init => InTimeInv /\ Promise!Init
  <2> SUFFICES ASSUME Init PROVE InTimeInv /\ Promise!Init
    OBVIOUS
  <2>1. InTimeInv
    BY DEF Init, InTimeInv, Attempts
  <2> QED
    BY <2>1 DEF Init, Stage, Promise!Init
<1>2. TypeOK /\ RefundInv /\ InTimeInv /\ [Next]_vars /\ [VerdictInTime]_vars
        => InTimeInv' /\ [Promise!Next]_(Promise!promiseVars)
  BY InTimeMove
<1>3. TypeOK /\ RefundInv /\ InTimeInv => OneLiveAttempt
  <2> SUFFICES ASSUME TypeOK, RefundInv, InTimeInv, NEW a \in Attempts, NEW b \in Attempts,
                      a < b, tx[b] # "NONE"
               PROVE  gateway[a] \notin {"pending", "processed"}
    BY DEF OneLiveAttempt
  <2>1. ~(b > attempts)
    BY DEF RefundInv, AttemptsInOrder
  <2>2. a < attempts
    BY <2>1, MaxAttemptsAssumption DEF TypeOK, Attempts
  <2> QED
    BY <2>2 DEF InTimeInv, Dead
<1> QED
  BY <1>1, <1>2, <1>3, RefundTypeCorrect, RefundInvariance, PTL DEF Spec, PaidOnceIfInTime, Promise!Spec
=============================================================================
