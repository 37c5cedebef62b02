-------------------------- MODULE RefundProcessing --------------------------
(***************************************************************************)
(* One refund row from the moment create_refund_if_eligible has written it *)
(* (OrderLifecycle's refund[o]): an admin approves or rejects it, and each *)
(* process_refund is one attempt with the gateway, whose verdict comes     *)
(* back with the answer to the call, by a signed webhook or by an admin's  *)
(* "check status".  Every method locks the refund row, but the row lock is *)
(* given up before the network call, so an action here is one transaction  *)
(* or one step of the gateway.                                             *)
(* _persist_gateway_result and _fail_unresolved_attempt lock the row again *)
(* in a session that loaded it before the call and do not ask for          *)
(* populate_existing: they work on the PROCESSING they saw then, whatever  *)
(* the row says by now.  A definition named Slip_... is a plausible        *)
(* mistake in the one that follows it, kept to show a property catches it. *)
(***************************************************************************)
EXTENDS OrderStates, Integers

CONSTANTS
  Admins,       \* admins who check on a refund, one check each at a time
  MaxAttempts   \* bound: times process_refund is called for the refund

ASSUME MaxAttemptsAssumption == MaxAttempts \in Nat

VARIABLES
  refund,     \* refunds.status
  attempts,   \* number of REFUND rows in payment_transactions so far
  tx,         \* status of the transaction row of each attempt
  hasRef,     \* gateway_transaction_id of that row is recorded
  call,       \* the process_refund handler of the attempt, after its commit
  gateway,    \* what the gateway has made of the attempt
  event,      \* the gateway's final refund webhook of the attempt was consumed
  sync        \* per admin: the attempt asked about and the gateway's answer

vars == <<refund, attempts, tx, hasRef, call, gateway, event, sync>>

Attempts == 1..MaxAttempts

GatewayStates == {"none", "refused", "pending", "processed", "failed"}
Idle == [of |-> 0, answer |-> "none"]

TypeOK ==
  /\ refund \in RefundStatus
  /\ attempts \in 0..MaxAttempts
  /\ tx \in [Attempts -> {"NONE", "INITIATED", "PROCESSING", "SUCCESS", "FAILED"}]
  /\ hasRef \in [Attempts -> BOOLEAN]
  /\ call \in [Attempts -> {"none", "waiting", "answered", "lost"}]
  /\ gateway \in [Attempts -> GatewayStates]
  /\ event \in [Attempts -> BOOLEAN]
  /\ sync \in [Admins -> [of : 0..MaxAttempts, answer : GatewayStates]]

Init ==
  /\ refund = "PENDING_APPROVAL"
  /\ attempts = 0
  /\ tx = [a \in Attempts |-> "NONE"]
  /\ hasRef = [a \in Attempts |-> FALSE]
  /\ call = [a \in Attempts |-> "none"]
  /\ gateway = [a \in Attempts |-> "none"]
  /\ event = [a \in Attempts |-> FALSE]
  /\ sync = [m \in Admins |-> Idle]

attemptVars == <<attempts, tx, hasRef, call>>

-----------------------------------------------------------------------------
(* The admin's decisions. *)

Decide(status) ==
  /\ refund = "PENDING_APPROVAL"
  /\ refund' = status
  /\ UNCHANGED <<attemptVars, gateway, event, sync>>

ApproveRefund == Decide("APPROVED")
RejectRefund  == Decide("REJECTED")

(* First transaction of process_refund: PROCESSING and the new attempt are *)
(* committed, then the gateway is called without the lock.                 *)
ProcessRefund ==
  /\ CanMove(RefundTransitions, refund, "PROCESSING")
  /\ attempts < MaxAttempts
  /\ refund' = "PROCESSING"
  /\ attempts' = attempts + 1
  /\ tx' = [tx EXCEPT ![attempts + 1] = "INITIATED"]
  /\ call' = [call EXCEPT ![attempts + 1] = "waiting"]
  /\ UNCHANGED <<hasRef, gateway, event, sync>>

-----------------------------------------------------------------------------
(* The gateway.  A request that was sent may still arrive after its sender *)
(* gave up on it.                                                          *)

GatewayTakes(a) ==
  /\ call[a] \in {"waiting", "lost"}
  /\ gateway[a] = "none"
  /\ \E g \in {"refused", "pending", "processed", "failed"} :
       gateway' = [gateway EXCEPT ![a] = g]
  /\ UNCHANGED <<refund, attemptVars, event, sync>>

GatewayDecides(a) ==
  /\ gateway[a] = "pending"
  /\ \E g \in {"processed", "failed"} : gateway' = [gateway EXCEPT ![a] = g]
  /\ UNCHANGED <<refund, attemptVars, event, sync>>

-----------------------------------------------------------------------------
(* The answer to the call. *)

VerdictOf == [pending |-> "PROCESSING", processed |-> "SUCCESS", failed |-> "FAILED"]

(* What a terminal transaction status makes of a PROCESSING refund. *)
Outcome(status) ==
  CASE status = "SUCCESS" -> "REFUNDED" [] status = "FAILED" -> "FAILED"
    [] OTHER -> "PROCESSING"

Slip_PendingCountsAsRefunded(a) ==
  /\ call[a] = "waiting"
  /\ gateway[a] \in DOMAIN VerdictOf
  /\ call' = [call EXCEPT ![a] = "answered"]
  /\ hasRef' = [hasRef EXCEPT ![a] = TRUE]
  /\ tx' = [tx EXCEPT ![a] = VerdictOf[gateway[a]]]
  /\ refund' = IF gateway[a] = "failed" THEN "FAILED" ELSE "REFUNDED"
  /\ UNCHANGED <<attempts, gateway, event, sync>>

(* Second transaction of process_refund.  The refund it holds is the one   *)
(* it loaded before the call, still PROCESSING in its session.             *)
PersistGatewayResult(a) ==
  /\ call[a] = "waiting"
  /\ gateway[a] \in DOMAIN VerdictOf
  /\ call' = [call EXCEPT ![a] = "answered"]
  /\ hasRef' = [hasRef EXCEPT ![a] = TRUE]
  /\ tx' = [tx EXCEPT ![a] = VerdictOf[gateway[a]]]
  /\ refund' = IF gateway[a] = "pending" THEN refund ELSE Outcome(VerdictOf[gateway[a]])
  /\ UNCHANGED <<attempts, gateway, event, sync>>

(* GatewayRejectedError or NotImplementedError: no money can have moved. *)
FailUnresolvedAttempt(a) ==
  /\ call[a] = "waiting"
  /\ gateway[a] = "refused"
  /\ call' = [call EXCEPT ![a] = "answered"]
  /\ tx' = [tx EXCEPT ![a] = IF @ \in {"SUCCESS", "FAILED"} THEN @ ELSE "FAILED"]
  /\ refund' = "FAILED"
  /\ UNCHANGED <<attempts, hasRef, gateway, event, sync>>

Slip_TimeoutFails(a) ==
  /\ call[a] = "waiting"
  /\ call' = [call EXCEPT ![a] = "lost"]
  /\ tx' = [tx EXCEPT ![a] = "FAILED"]
  /\ refund' = "FAILED"
  /\ UNCHANGED <<attempts, hasRef, gateway, event, sync>>

(* Timeout, connection loss, 5xx, or a crash of the process: nothing is    *)
(* written, the refund stays PROCESSING.                                   *)
LoseAnswer(a) ==
  /\ call[a] = "waiting"
  /\ call' = [call EXCEPT ![a] = "lost"]
  /\ UNCHANGED <<refund, attempts, tx, hasRef, gateway, event, sync>>

-----------------------------------------------------------------------------
(* Verdicts that arrive on their own. *)

Slip_ResolveOnlySuccess(a, verdict) ==
  IF verdict = "SUCCESS" /\ refund = "PROCESSING"
    THEN /\ tx' = [tx EXCEPT ![a] = verdict]
         /\ refund' = Outcome(verdict)
    ELSE UNCHANGED <<tx, refund>>

(* _resolve_processing_refund: attempt a may be an older one than the      *)
(* attempt that put the refund into PROCESSING.                            *)
ResolveProcessingRefund(a, verdict) ==
  IF verdict \in {"SUCCESS", "FAILED"} /\ refund = "PROCESSING"
    THEN /\ tx' = [tx EXCEPT ![a] = verdict]
         /\ refund' = Outcome(verdict)
    ELSE UNCHANGED <<tx, refund>>

(* refund.processed / refund.failed.  The event is recorded, so that a     *)
(* redelivery is a duplicate, also when no attempt has its reference yet.  *)
RefundWebhook(a) ==
  /\ gateway[a] \in {"processed", "failed"}
  /\ ~event[a]
  /\ event' = [event EXCEPT ![a] = TRUE]
  /\ IF hasRef[a] THEN ResolveProcessingRefund(a, VerdictOf[gateway[a]])
                  ELSE UNCHANGED <<tx, refund>>
  /\ UNCHANGED <<attempts, hasRef, call, gateway, sync>>

(* sync_with_gateway: look under the lock, ask without it, apply under it. *)
SyncStart(m) ==
  /\ sync[m] = Idle
  /\ refund = "PROCESSING"
  /\ attempts > 0 /\ hasRef[attempts]
  /\ sync' = [sync EXCEPT ![m] = [of |-> attempts, answer |-> "none"]]
  /\ UNCHANGED <<refund, attemptVars, gateway, event>>

SyncAnswer(m) ==
  /\ sync[m].of > 0
  /\ sync[m].answer = "none"
  /\ sync' = [sync EXCEPT ![m].answer = gateway[sync[m].of]]
  /\ UNCHANGED <<refund, attemptVars, gateway, event>>

SyncFinish(m) ==
  /\ sync[m].answer \in DOMAIN VerdictOf
  /\ ResolveProcessingRefund(sync[m].of, VerdictOf[sync[m].answer])
  /\ sync' = [sync EXCEPT ![m] = Idle]
  /\ UNCHANGED <<attempts, hasRef, call, gateway, event>>

(* The gateway does not answer the question, or the process dies. *)
SyncLost(m) ==
  /\ sync[m] # Idle
  /\ sync' = [sync EXCEPT ![m] = Idle]
  /\ UNCHANGED <<refund, attemptVars, gateway, event>>

-----------------------------------------------------------------------------
CallStep(a) ==
  \/ PersistGatewayResult(a) \/ FailUnresolvedAttempt(a) \/ LoseAnswer(a)

GatewayStep(a) == GatewayTakes(a) \/ GatewayDecides(a)

SyncStep(m) == SyncStart(m) \/ SyncAnswer(m) \/ SyncFinish(m) \/ SyncLost(m)

Next ==
  \/ ApproveRefund \/ RejectRefund \/ ProcessRefund
  \/ \E a \in Attempts : CallStep(a) \/ GatewayStep(a) \/ RefundWebhook(a)
  \/ \E m \in Admins : SyncStep(m)

Spec == Init /\ [][Next]_vars

(* Handlers and the gateway do not stall for ever, the gateway delivers    *)
(* its webhooks, and an admin who watches a refund that stays PROCESSING   *)
(* keeps asking until one question is answered and applied.                *)
Fairness ==
  /\ \A a \in Attempts : /\ WF_vars(CallStep(a))
                         /\ WF_vars(GatewayDecides(a))
                         /\ WF_vars(RefundWebhook(a))
  /\ \A m \in Admins : WF_vars(SyncStart(m)) /\ SF_vars(SyncAnswer(m))
                                             /\ SF_vars(SyncFinish(m))

FairSpec == Spec /\ Fairness

-----------------------------------------------------------------------------
(* Safety. *)

(* A transaction row never tells a verdict the gateway did not give: it is *)
(* SUCCESS only for money that moved, and FAILED only for an attempt that  *)
(* can no longer move any - an unknown outcome is left open, never called  *)
(* a failure (process_refund's three except branches).                     *)
VerdictsAreTrue ==
  \A a \in Attempts : /\ tx[a] = "SUCCESS" => gateway[a] = "processed"
                      /\ tx[a] = "FAILED" => gateway[a] \in {"refused", "failed"}

(* The customer is told REFUNDED only when some attempt of this refund has *)
(* really been paid out, whichever of answer, webhook and sync said so.    *)
RefundedMeansPaid ==
  refund = "REFUNDED" => \E a \in Attempts : gateway[a] = "processed"

(* PROCESSING always stands for an attempt that is still undecided in the  *)
(* books: a verdict, also one that belongs to an older attempt, takes the  *)
(* refund out of PROCESSING in the step that records it.                   *)
ProcessingIsUndecided ==
  refund = "PROCESSING" => attempts > 0 /\ tx[attempts] \in {"INITIATED", "PROCESSING"}

(* No money moves without an approval: until an admin has approved, and    *)
(* after one has rejected, no attempt exists in the books or at the        *)
(* gateway ("only an explicit ADMIN approve + a separate explicit ADMIN    *)
(* process action ever moves money", refund.py).                           *)
MoneyNeedsApproval ==
  refund \in {"PENDING_APPROVAL", "APPROVED", "REJECTED"} =>
    attempts = 0 /\ \A a \in Attempts : gateway[a] = "none" /\ tx[a] = "NONE"

-----------------------------------------------------------------------------
(* What the code's comments claim, and the model refutes. *)

(* A second attempt is never sent to the gateway while an earlier one can  *)
(* still move, or has moved, the money (process_refund's PROCESSING guard: *)
(* "let a second concurrent call fall through to launch a DUPLICATE        *)
(* gateway attempt - explicitly rejected instead").                        *)
OneLiveAttempt ==
  \A a, b \in Attempts :
    a < b /\ tx[b] # "NONE" => gateway[a] \notin {"pending", "processed"}

(* A PROCESSING refund "eventually reaches REFUNDED/FAILED without anyone  *)
(* polling" (payment_gateway.py), and an unknown outcome is "recoverable   *)
(* by an admin" (refund.py).                                               *)
EveryRefundResolves == refund = "PROCESSING" ~> refund # "PROCESSING"

-----------------------------------------------------------------------------
(* What the customer sees of the refund. *)

Stage ==
  CASE refund = "PENDING_APPROVAL" -> "asked"
    [] refund = "REJECTED" -> "rejected"
    [] refund = "APPROVED" -> "approved"
    [] refund = "PROCESSING" -> "trying"
    [] refund = "FAILED" -> "failed"
    [] refund = "REFUNDED" -> "refunded"

Promise == INSTANCE RefundPromise WITH
  stage   <- Stage,
  payouts <- {a \in Attempts : gateway[a] = "processed"}

(* A verdict changes the refund only while it is PROCESSING and only if it *)
(* is the latest attempt's.  The code asks neither everywhere: a handler   *)
(* that is back from its call does not see that the row has moved on, and  *)
(* _resolve_processing_refund does not compare the attempts.               *)
VerdictInTime ==
  refund' # refund /\ refund' \in {"REFUNDED", "FAILED"} =>
    refund = "PROCESSING" /\ tx'[attempts] \in {"SUCCESS", "FAILED"}

(* Where every verdict is in time, the refund is what RefundPromise says:  *)
(* money moves at most once, and REFUNDED is terminal (refund_state.py).   *)
PaidOnceIfInTime == [][VerdictInTime]_vars => Promise!Spec /\ []OneLiveAttempt

-----------------------------------------------------------------------------
(* Liveness. *)

(* Once the gateway has handed out a reference, the refund does not stay   *)
(* PROCESSING: the webhook or the admin's check resolves it, also when the *)
(* webhook came before the reference was recorded and was used up.         *)
ReferencedRefundResolves ==
  (refund = "PROCESSING" /\ attempts > 0 /\ hasRef[attempts]) ~> refund # "PROCESSING"
=============================================================================
