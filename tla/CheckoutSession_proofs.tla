----------------------- MODULE CheckoutSession_proofs -----------------------
(***************************************************************************)
(* What holds of pay-first checkout for any number of runs of _finalize,   *)
(* sessions, carts and prices.  The safety properties are not inductive:   *)
(* the runs give up their locks half way, so Inv adds what a run in        *)
(* progress may count on (its session is paid at the gateway, its order    *)
(* exists and, past _attach_paid_payment, carries a payment) and what a    *)
(* payment says about its order.                                           *)
(***************************************************************************)
EXTENDS CheckoutSession, TLAPS

(* A run that is under way works on a session that is paid, and from       *)
(* _attach_paid_payment on for an order that exists.                       *)
RunsArePaid ==
  \A w \in Workers :
    /\ job[w].step # "idle" => job[w].s \in Sessions /\ PaidAtGateway(job[w].s)
    /\ job[w].step \in {"attach", "verify", "complete"} =>
         job[w].c \in Carts /\ order[job[w].c] # "NONE"

(* An order's payment points at a session that is paid, and exists only    *)
(* when the order does.                                                    *)
PaymentsArePaid ==
  \A c \in Carts :
    /\ payOf[c] \in Sessions => PaidAtGateway(payOf[c])
    /\ payOf[c] # NoPayment => order[c] # "NONE"

(* Where the money of a PAID payment is. *)
PaidIsUsed ==
  \A c \in Carts :
    paid[c] => /\ payOf[c] \in Sessions
               /\ order[c] = "CONFIRMED" \/ (order[c] = "VOID" /\ owed[c])

(* An order has a payment, and if it is a session's, the payment is PAID. *)
Paying(c) == payOf[c] # NoPayment /\ (payOf[c] \in Sessions => paid[c])

RunsInOrder ==
  \A w \in Workers :
    /\ job[w].step = "verify" => payOf[job[w].c] # NoPayment
    /\ job[w].step = "complete" => Paying(job[w].c)

CompletedIsPaying ==
  \A s \in Sessions :
    session[s].status = "COMPLETED" =>
      session[s].order \in Carts /\ Paying(session[s].order)

Inv ==
  /\ TypeOK /\ RunsArePaid /\ PaymentsArePaid /\ OnePaymentOneOrder
  /\ PaidIsUsed /\ RunsInOrder /\ CompletedIsPaying

-----------------------------------------------------------------------------
LEMMA StartInv == Init => Inv
<1> SUFFICES ASSUME Init PROVE Inv
  OBVIOUS
<1>1. TypeOK
  BY BoundsAssumption DEF Init, TypeOK, Carts, Sessions, Idle, Unborn, NoPayment
<1> QED
  BY <1>1 DEF Inv, Init, RunsArePaid, PaymentsArePaid, OnePaymentOneOrder, Idle,
     PaidIsUsed, RunsInOrder, CompletedIsPaying, Unborn,
     Sessions, NoPayment

(* _attach_paid_payment leaves the payment the order has, fails, or gives  *)
(* the session's payment, unused so far, to an order that has none.        *)
AttachEffect(w) ==
  /\ UNCHANGED <<cart, total, order, paid, owed, session, money>>
  /\ job[w].step = "attach" /\ job[w].c \in Carts /\ job[w].s \in Sessions
  /\ \/ /\ payOf' = payOf /\ payOf[job[w].c] # NoPayment
        /\ job' = [job EXCEPT ![w] = Job("verify", job[w].s, job[w].c, job[w].held)]
     \/ payOf' = payOf /\ job' = [job EXCEPT ![w] = Idle]
     \/ /\ payOf[job[w].c] = NoPayment /\ ~PaymentTaken(job[w].s)
        /\ payOf' = [payOf EXCEPT ![job[w].c] = job[w].s]
        /\ job' = [job EXCEPT ![w] = Job("verify", job[w].s, job[w].c, FALSE)]

LEMMA AttachDoes ==
  ASSUME TypeOK, RunsArePaid, NEW w \in Workers, Attach(w)
  PROVE  AttachEffect(w)
BY DEF Attach, AttachEffect, RunsArePaid

(* verify_payment settles the order the run is about, or changes nothing.  *)
VerifyEffect(w) ==
  /\ UNCHANGED <<cart, total, payOf, session, money>>
  /\ job[w].step = "verify" /\ job[w].c \in Carts /\ job[w].s \in Sessions
  /\ job' = [job EXCEPT ![w] = Job("complete", job[w].s, job[w].c, FALSE)]
  /\ paid' = IF Unsettled(job[w].c) THEN [paid EXCEPT ![job[w].c] = TRUE] ELSE paid
  /\ \/ UNCHANGED <<order, owed>> /\ ~Unsettled(job[w].c)
     \/ /\ Unsettled(job[w].c) /\ order[job[w].c] # "NONE"
        /\ order' = [order EXCEPT ![job[w].c] = "CONFIRMED"] /\ owed' = owed
     \/ /\ Unsettled(job[w].c) /\ order[job[w].c] # "NONE"
        /\ order' = [order EXCEPT ![job[w].c] = "VOID"]
        /\ owed' = [owed EXCEPT ![job[w].c] = TRUE]

LEMMA VerifyPaymentDoes ==
  ASSUME TypeOK, RunsArePaid, NEW w \in Workers, VerifyPayment(w)
  PROVE  VerifyEffect(w)
BY DEF VerifyPayment, VerifyEffect, Settle, RunsArePaid

CrashEffect(w) ==
  /\ UNCHANGED <<cart, total, orderVars, session>>
  /\ job' = [job EXCEPT ![w] = Idle]
  /\ \/ money' = money
     \/ /\ job[w].s \in Sessions /\ money[job[w].s] = "captured"
        /\ \E m \in {"refunding", "refunded"} : money' = [money EXCEPT ![job[w].s] = m]

LEMMA CrashDoes ==
  ASSUME TypeOK, RunsArePaid, NEW w \in Workers, Crash(w)
  PROVE  CrashEffect(w)
<1>1. CASE job[w].step = "refund"
  <2>1. job[w].s \in Sessions
    BY <1>1 DEF RunsArePaid
  <2>2. PICK m \in Asked(money[job[w].s]) : money' = [money EXCEPT ![job[w].s] = m]
    BY <1>1 DEF Crash
  <2>3. CASE m = money[job[w].s]
    BY <1>1, <2>1, <2>2, <2>3 DEF Crash, CrashEffect, TypeOK
  <2>4. CASE m # money[job[w].s]
    BY <1>1, <2>1, <2>2, <2>4 DEF Crash, CrashEffect, Asked
  <2> QED BY <2>3, <2>4
<1>2. CASE job[w].step # "refund"
  BY <1>2 DEF Crash, CrashEffect
<1> QED BY <1>1, <1>2

(* The shapes of the two tables of records, and of a refund and a run.     *)
SessionType == [
  status : {"NONE", "PENDING", "COMPLETED", "REFUNDED", "REFUND_FAILED"},
  amount : 0..MaxPrice, cart : 0..MaxCarts, order : 0..MaxCarts]
JobType == [
  step : {"idle", "attach", "verify", "complete", "refund"},
  s : 0..MaxSessions, c : 0..MaxCarts, held : BOOLEAN]

LEMMA RunTyped ==
  ASSUME TypeOK, NEW w \in Workers, NEW j \in JobType, job' = [job EXCEPT ![w] = j]
  PROVE  job' \in [Workers -> JobType]
BY DEF TypeOK, JobType

LEMMA RefundTyped ==
  ASSUME TypeOK, NEW s \in Sessions, TryRefund(s)
  PROVE  /\ money' \in [Sessions -> {"unpaid", "captured", "refunding", "refunded"}]
         /\ session' \in [Sessions -> SessionType]
<1>1. PICK m \in Asked(money[s]) :
        /\ money' = [money EXCEPT ![s] = m]
        /\ \E v \in RefundVerdicts(money[s], m) : session' = [session EXCEPT ![s].status = v]
  BY DEF TryRefund
<1>2. PICK v \in {"REFUNDED", "REFUND_FAILED"} : session' = [session EXCEPT ![s].status = v]
  BY <1>1 DEF RefundVerdicts
<1>3. session \in [Sessions -> SessionType] /\ session[s] \in SessionType
  BY DEF TypeOK, SessionType
<1>4. [session[s] EXCEPT !.status = v] \in SessionType
  BY <1>3 DEF SessionType
<1>5. session' \in [Sessions -> SessionType]
  BY <1>2, <1>3, <1>4
<1>6. m \in {"unpaid", "captured", "refunding", "refunded"}
  BY <1>1 DEF Asked, TypeOK
<1> QED BY <1>1, <1>5, <1>6 DEF TypeOK

(* Every table keeps its shape.                                            *)
LEMMA KeepTypeOK ==
  ASSUME Inv, [Next]_vars
  PROVE  TypeOK'
<1> USE DEF Inv
<1>1. CASE UNCHANGED <<cart, total, order, payOf, paid, owed, session, money, job>>
  BY <1>1 DEF TypeOK
<1>2. CASE ChangeCart
  BY <1>2 DEF ChangeCart, orderVars, TypeOK
<1>3. CASE PlaceDirectly
  BY <1>3 DEF PlaceDirectly, TypeOK
<1>4. ASSUME NEW s \in Sessions, Start(s)
      PROVE  TypeOK'
  BY <1>4, BoundsAssumption DEF Start, orderVars, TypeOK, Carts, Sessions
<1>5. ASSUME NEW s \in Sessions, Pay(s)
      PROVE  TypeOK'
  BY <1>5 DEF Pay, orderVars, TypeOK
<1>6. ASSUME NEW s \in Sessions, RetryFailedRefund(s)
      PROVE  TypeOK'
  BY <1>6, RefundTyped DEF RetryFailedRefund, orderVars, TypeOK, SessionType
<1>7. ASSUME NEW c \in Carts, PayDirectly(c)
      PROVE  TypeOK'
  BY <1>7 DEF PayDirectly, TypeOK
<1>8. ASSUME NEW c \in Carts, Void(c)
      PROVE  TypeOK'
  BY <1>8 DEF Void, TypeOK
<1>9. ASSUME NEW c \in Carts, PaymentWebhook(c)
      PROVE  TypeOK'
  BY <1>9 DEF PaymentWebhook, Settle, Unsettled, TypeOK
<1>10. ASSUME NEW w \in Workers, NEW s \in Sessions, PlaceOrder(w, s)
      PROVE  TypeOK'
  BY <1>10 DEF PlaceOrder, CanFinalize, Job, TypeOK, Carts, Sessions
<1>11. ASSUME NEW w \in Workers, NEW s \in Sessions, FindOrder(w, s)
      PROVE  TypeOK'
  BY <1>11 DEF FindOrder, CanFinalize, Job, orderVars, TypeOK, Carts, Sessions
<1>12. ASSUME NEW w \in Workers, NEW s \in Sessions, RefuseOrder(w, s)
      PROVE  TypeOK'
  BY <1>12 DEF RefuseOrder, CanFinalize, Job, orderVars, TypeOK, Sessions,
      Idle
<1>13. ASSUME NEW w \in Workers, Attach(w)
      PROVE  TypeOK'
  <2>1. AttachEffect(w)
    BY <1>13, AttachDoes
  <2>2. /\ Job("verify", job[w].s, job[w].c, job[w].held) \in JobType
        /\ Job("verify", job[w].s, job[w].c, FALSE) \in JobType
        /\ Idle \in JobType
    BY <2>1, BoundsAssumption DEF TypeOK, JobType, Job, Idle
  <2>3. job' \in [Workers -> JobType]
    BY <2>1, <2>2, RunTyped DEF AttachEffect
  <2>4. payOf' \in [Carts -> {NoPayment, Cod} \cup Sessions]
    <3>1. payOf \in [Carts -> {NoPayment, Cod} \cup Sessions]
      BY DEF TypeOK
    <3>2. \/ payOf' = payOf
          \/ job[w].s \in Sessions /\ payOf' = [payOf EXCEPT ![job[w].c] = job[w].s]
      BY <2>1 DEF AttachEffect
    <3> QED BY <3>1, <3>2
  <2> QED BY <2>1, <2>3, <2>4 DEF AttachEffect, TypeOK, JobType
<1>14. ASSUME NEW w \in Workers, VerifyPayment(w)
      PROVE  TypeOK'
  <2>1. VerifyEffect(w)
    BY <1>14, VerifyPaymentDoes
  <2> QED BY <2>1 DEF VerifyEffect, Unsettled, Job, TypeOK
<1>15. ASSUME NEW w \in Workers, Complete(w)
      PROVE  TypeOK'
  <2>1. Idle \in JobType
    BY BoundsAssumption DEF JobType, Idle
  <2>2. job' \in [Workers -> JobType]
    BY <1>15, <2>1, RunTyped DEF Complete
  <2>3. session[job[w].s] \in SessionType /\ job[w].c \in 0..MaxCarts /\ job[w].s \in Sessions
    BY <1>15 DEF Complete, RunsArePaid, TypeOK, SessionType
  <2>4. [session[job[w].s] EXCEPT !.status = "COMPLETED", !.order = job[w].c] \in SessionType
    BY <2>3 DEF SessionType
  <2>5. session' \in [Sessions -> SessionType]
    BY <1>15, <2>3, <2>4 DEF Complete, TypeOK, SessionType
  <2> QED BY <1>15, <2>2, <2>5 DEF Complete, orderVars, TypeOK, JobType,
      SessionType
<1>16. ASSUME NEW w \in Workers, RefundAndFail(w)
      PROVE  TypeOK'
  <2>1. Idle \in JobType /\ job[w].s \in Sessions
    BY <1>16, BoundsAssumption DEF RefundAndFail, RunsArePaid, JobType, Idle
  <2>2. job' \in [Workers -> JobType]
    BY <1>16, <2>1, RunTyped DEF RefundAndFail
  <2> QED BY <1>16, <2>1, <2>2, RefundTyped DEF RefundAndFail, orderVars,
      TypeOK, JobType, SessionType
<1>17. ASSUME NEW w \in Workers, Crash(w)
      PROVE  TypeOK'
  <2>1. CrashEffect(w)
    BY <1>17, CrashDoes
  <2>2. Idle \in JobType
    BY BoundsAssumption DEF JobType, Idle
  <2>3. job' \in [Workers -> JobType]
    BY <2>1, <2>2, RunTyped DEF CrashEffect
  <2> QED BY <2>1, <2>3 DEF CrashEffect, orderVars, TypeOK, JobType
<1>18. CASE NewCart
  <2>1. cart + 1 \in Carts
    BY <1>18, BoundsAssumption DEF NewCart, TypeOK, Carts
  <2> QED BY <1>18, <2>1 DEF NewCart, orderVars, TypeOK
<1>19. ASSUME NEW s \in Sessions, RefundEnds(s)
      PROVE  TypeOK'
  BY <1>19 DEF RefundEnds, orderVars, TypeOK
<1> QED BY <1>1, <1>2, <1>3, <1>4, <1>5, <1>6, <1>7, <1>8, <1>9, <1>10, <1>11,
    <1>12, <1>13, <1>14, <1>15, <1>16, <1>17, <1>18, <1>19 DEF Next, WorkerStep,
    Finalize, vars, orderVars

(* Money is never unpaid again, and an order never disappears.             *)
LEMMA KeepRunsArePaid ==
  ASSUME Inv, [Next]_vars
  PROVE  RunsArePaid'
<1> USE DEF Inv
<1>1. CASE UNCHANGED <<order, money, job>>
  BY <1>1 DEF RunsArePaid, PaidAtGateway
<1>2. CASE PlaceDirectly
  BY <1>2 DEF PlaceDirectly, RunsArePaid, PaidAtGateway
<1>3. ASSUME NEW s \in Sessions, Pay(s)
      PROVE  RunsArePaid'
  BY <1>3 DEF Pay, orderVars, RunsArePaid, PaidAtGateway
<1>4. ASSUME NEW s \in Sessions, RetryFailedRefund(s)
      PROVE  RunsArePaid'
  BY <1>4 DEF RetryFailedRefund, TryRefund, Asked, RefundVerdicts, orderVars,
      RunsArePaid, PaidAtGateway
<1>5. ASSUME NEW c \in Carts, PayDirectly(c)
      PROVE  RunsArePaid'
  BY <1>5 DEF PayDirectly, RunsArePaid, PaidAtGateway
<1>6. ASSUME NEW c \in Carts, Void(c)
      PROVE  RunsArePaid'
  BY <1>6 DEF Void, RunsArePaid, PaidAtGateway
<1>7. ASSUME NEW c \in Carts, PaymentWebhook(c)
      PROVE  RunsArePaid'
  BY <1>7 DEF PaymentWebhook, Settle, Unsettled, RunsArePaid, PaidAtGateway,
      TypeOK
<1>8. ASSUME NEW w \in Workers, NEW s \in Sessions, PlaceOrder(w, s)
      PROVE  RunsArePaid'
  BY <1>8 DEF PlaceOrder, CanFinalize, Job, RunsArePaid, PaidAtGateway, TypeOK
<1>9. ASSUME NEW w \in Workers, NEW s \in Sessions, FindOrder(w, s)
      PROVE  RunsArePaid'
  BY <1>9 DEF FindOrder, CanFinalize, Job, orderVars, RunsArePaid,
      PaidAtGateway, TypeOK
<1>10. ASSUME NEW w \in Workers, NEW s \in Sessions, RefuseOrder(w, s)
      PROVE  RunsArePaid'
  BY <1>10 DEF RefuseOrder, CanFinalize, Job, orderVars, RunsArePaid,
      PaidAtGateway
<1>11. ASSUME NEW w \in Workers, Attach(w)
      PROVE  RunsArePaid'
  <2>1. AttachEffect(w)
    BY <1>11, AttachDoes
  <2>2. \A v \in Workers :
          \/ job'[v] = job[v]
          \/ v = w /\ job'[v] = Idle
          \/ /\ v = w /\ job'[v].step = "verify"
             /\ job'[v].s = job[w].s /\ job'[v].c = job[w].c
    BY <2>1 DEF AttachEffect, Job, TypeOK
  <2> QED BY <2>1, <2>2 DEF AttachEffect, RunsArePaid, PaidAtGateway, Idle
<1>12. ASSUME NEW w \in Workers, VerifyPayment(w)
      PROVE  RunsArePaid'
  <2>1. VerifyEffect(w)
    BY <1>12, VerifyPaymentDoes
  <2> QED BY <2>1 DEF VerifyEffect, Unsettled, Job, RunsArePaid,
      PaidAtGateway, TypeOK
<1>13. ASSUME NEW w \in Workers, Complete(w)
      PROVE  RunsArePaid'
  BY <1>13 DEF Complete, Idle, orderVars, RunsArePaid, PaidAtGateway
<1>14. ASSUME NEW w \in Workers, RefundAndFail(w)
      PROVE  RunsArePaid'
  BY <1>14 DEF RefundAndFail, TryRefund, Asked, RefundVerdicts, Idle, orderVars,
      RunsArePaid, PaidAtGateway
<1>15. ASSUME NEW w \in Workers, Crash(w)
      PROVE  RunsArePaid'
  <2>1. CrashEffect(w)
    BY <1>15, CrashDoes
  <2> QED BY <2>1 DEF CrashEffect, Idle, orderVars, RunsArePaid,
      PaidAtGateway, TypeOK
<1>16. ASSUME NEW s \in Sessions, RefundEnds(s)
      PROVE  RunsArePaid'
  BY <1>16 DEF RefundEnds, orderVars, RunsArePaid, PaidAtGateway
<1> QED BY <1>1, <1>2, <1>3, <1>4, <1>5, <1>6, <1>7, <1>8, <1>9, <1>10, <1>11,
    <1>12, <1>13, <1>14, <1>15, <1>16 DEF ChangeCart, NewCart, Start, Next,
    WorkerStep, Finalize, vars, orderVars

(* A payment is made for an existing order with a paid session.            *)
LEMMA KeepPaymentsArePaid ==
  ASSUME Inv, [Next]_vars
  PROVE  PaymentsArePaid'
<1> USE DEF Inv
<1>1. CASE UNCHANGED <<order, payOf, money>>
  BY <1>1 DEF PaymentsArePaid, PaidAtGateway
<1>2. CASE PlaceDirectly
  BY <1>2 DEF PlaceDirectly, PaymentsArePaid, PaidAtGateway
<1>3. ASSUME NEW s \in Sessions, Pay(s)
      PROVE  PaymentsArePaid'
  BY <1>3 DEF Pay, orderVars, PaymentsArePaid, PaidAtGateway
<1>4. ASSUME NEW s \in Sessions, RetryFailedRefund(s)
      PROVE  PaymentsArePaid'
  BY <1>4 DEF RetryFailedRefund, TryRefund, Asked, RefundVerdicts, orderVars,
      PaymentsArePaid, PaidAtGateway
<1>5. ASSUME NEW c \in Carts, PayDirectly(c)
      PROVE  PaymentsArePaid'
  BY <1>5 DEF PayDirectly, PaymentsArePaid, PaidAtGateway, Sessions, Cod
<1>6. ASSUME NEW c \in Carts, Void(c)
      PROVE  PaymentsArePaid'
  BY <1>6 DEF Void, PaymentsArePaid, PaidAtGateway
<1>7. ASSUME NEW c \in Carts, PaymentWebhook(c)
      PROVE  PaymentsArePaid'
  BY <1>7 DEF PaymentWebhook, Settle, Unsettled, PaymentsArePaid,
      PaidAtGateway, TypeOK
<1>8. ASSUME NEW w \in Workers, NEW s \in Sessions, PlaceOrder(w, s)
      PROVE  PaymentsArePaid'
  BY <1>8 DEF PlaceOrder, CanFinalize, Job, PaymentsArePaid, PaidAtGateway
<1>9. ASSUME NEW w \in Workers, Attach(w)
      PROVE  PaymentsArePaid'
  <2>1. AttachEffect(w)
    BY <1>9, AttachDoes
  <2> QED BY <2>1 DEF AttachEffect, Job, PaymentTaken, PaymentsArePaid,
      RunsArePaid, PaidAtGateway, TypeOK
<1>10. ASSUME NEW w \in Workers, VerifyPayment(w)
      PROVE  PaymentsArePaid'
  <2>1. VerifyEffect(w)
    BY <1>10, VerifyPaymentDoes
  <2> QED BY <2>1 DEF VerifyEffect, Unsettled, Job, PaymentsArePaid,
      PaidAtGateway, TypeOK
<1>11. ASSUME NEW w \in Workers, RefundAndFail(w)
      PROVE  PaymentsArePaid'
  BY <1>11 DEF RefundAndFail, TryRefund, Asked, RefundVerdicts, orderVars,
      PaymentsArePaid, PaidAtGateway
<1>12. ASSUME NEW w \in Workers, Crash(w)
      PROVE  PaymentsArePaid'
  <2>1. CrashEffect(w)
    BY <1>12, CrashDoes
  <2> QED BY <2>1 DEF CrashEffect, orderVars, PaymentsArePaid, PaidAtGateway,
      TypeOK
<1>13. ASSUME NEW s \in Sessions, RefundEnds(s)
      PROVE  PaymentsArePaid'
  BY <1>13 DEF RefundEnds, orderVars, PaymentsArePaid, PaidAtGateway
<1> QED BY <1>1, <1>2, <1>3, <1>4, <1>5, <1>6, <1>7, <1>8, <1>9, <1>10, <1>11,
    <1>12, <1>13 DEF ChangeCart, NewCart, Start, FindOrder, RefuseOrder, Complete,
    Next, WorkerStep, Finalize, vars, orderVars

(* Only _attach_paid_payment hands out a session's payment.                *)
LEMMA KeepOnePaymentOneOrder ==
  ASSUME Inv, [Next]_vars
  PROVE  OnePaymentOneOrder'
<1> USE DEF Inv
<1>1. CASE UNCHANGED <<payOf>>
  BY <1>1 DEF OnePaymentOneOrder
<1>2. ASSUME NEW c \in Carts, PayDirectly(c)
      PROVE  OnePaymentOneOrder'
  BY <1>2 DEF PayDirectly, OnePaymentOneOrder, Sessions, Cod
<1>3. ASSUME NEW w \in Workers, Attach(w)
      PROVE  OnePaymentOneOrder'
  <2>1. AttachEffect(w)
    BY <1>3, AttachDoes
  <2>2. CASE payOf' = payOf
    BY <2>2 DEF OnePaymentOneOrder
  <2>3. CASE /\ ~PaymentTaken(job[w].s)
             /\ payOf' = [payOf EXCEPT ![job[w].c] = job[w].s]
    <3>1. \A c \in Carts : payOf'[c] = IF c = job[w].c THEN job[w].s ELSE payOf[c]
      BY <2>1, <2>3 DEF AttachEffect, TypeOK
    <3>2. \A c \in Carts : payOf[c] # job[w].s
      BY <2>3 DEF PaymentTaken
    <3> QED BY <3>1, <3>2 DEF OnePaymentOneOrder
  <2> QED BY <2>1, <2>2, <2>3 DEF AttachEffect
<1> QED BY <1>1, <1>2, <1>3 DEF ChangeCart, NewCart, PlaceDirectly, Start,
    Pay, RetryFailedRefund, RefundEnds, Void, PaymentWebhook, PlaceOrder, FindOrder,
    RefuseOrder, VerifyPayment, Complete, RefundAndFail, Crash, Next,
    WorkerStep, Finalize, vars, orderVars

(* A PAID payment's order is left only for a refund row.                   *)
LEMMA KeepPaidIsUsed ==
  ASSUME Inv, [Next]_vars
  PROVE  PaidIsUsed'
<1> USE DEF Inv
<1>1. CASE UNCHANGED <<order, payOf, paid, owed>>
  BY <1>1 DEF PaidIsUsed
<1>2. CASE PlaceDirectly
  BY <1>2 DEF PlaceDirectly, PaidIsUsed
<1>3. ASSUME NEW c \in Carts, PayDirectly(c)
      PROVE  PaidIsUsed'
  BY <1>3 DEF PayDirectly, PaidIsUsed
<1>4. ASSUME NEW c \in Carts, Void(c)
      PROVE  PaidIsUsed'
  BY <1>4 DEF Void, PaidIsUsed, TypeOK
<1>5. ASSUME NEW c \in Carts, PaymentWebhook(c)
      PROVE  PaidIsUsed'
  BY <1>5 DEF PaymentWebhook, Settle, Unsettled, PaidIsUsed, TypeOK
<1>6. ASSUME NEW w \in Workers, NEW s \in Sessions, PlaceOrder(w, s)
      PROVE  PaidIsUsed'
  BY <1>6 DEF PlaceOrder, CanFinalize, Job, PaidIsUsed
<1>7. ASSUME NEW w \in Workers, Attach(w)
      PROVE  PaidIsUsed'
  <2>1. AttachEffect(w)
    BY <1>7, AttachDoes
  <2> QED BY <2>1 DEF AttachEffect, Job, PaymentTaken, PaidIsUsed, TypeOK
<1>8. ASSUME NEW w \in Workers, VerifyPayment(w)
      PROVE  PaidIsUsed'
  <2>1. VerifyEffect(w)
    BY <1>8, VerifyPaymentDoes
  <2> QED BY <2>1 DEF VerifyEffect, Unsettled, Job, PaidIsUsed, TypeOK
<1> QED BY <1>1, <1>2, <1>3, <1>4, <1>5, <1>6, <1>7, <1>8 DEF ChangeCart,
    NewCart, Start, Pay, RetryFailedRefund, RefundEnds, FindOrder, RefuseOrder, Complete,
    RefundAndFail, Crash, Next, WorkerStep, Finalize, vars, orderVars

(* A run verifies what it attached and completes what it verified.         *)
LEMMA KeepRunsInOrder ==
  ASSUME Inv, [Next]_vars
  PROVE  RunsInOrder'
<1> USE DEF Inv
<1>1. CASE UNCHANGED <<job, payOf, paid>>
  BY <1>1 DEF RunsInOrder, Paying
<1>2. ASSUME NEW c \in Carts, PayDirectly(c)
      PROVE  RunsInOrder'
  BY <1>2 DEF PayDirectly, RunsInOrder, Paying
<1>3. ASSUME NEW c \in Carts, PaymentWebhook(c)
      PROVE  RunsInOrder'
  BY <1>3 DEF PaymentWebhook, Settle, Unsettled, RunsInOrder, Paying
<1>4. ASSUME NEW w \in Workers, NEW s \in Sessions, PlaceOrder(w, s)
      PROVE  RunsInOrder'
  BY <1>4 DEF PlaceOrder, CanFinalize, Job, RunsInOrder, Paying
<1>5. ASSUME NEW w \in Workers, NEW s \in Sessions, FindOrder(w, s)
      PROVE  RunsInOrder'
  BY <1>5 DEF FindOrder, CanFinalize, Job, orderVars, RunsInOrder, Paying
<1>6. ASSUME NEW w \in Workers, NEW s \in Sessions, RefuseOrder(w, s)
      PROVE  RunsInOrder'
  BY <1>6 DEF RefuseOrder, CanFinalize, Job, orderVars, RunsInOrder, Paying
<1>7. ASSUME NEW w \in Workers, Attach(w)
      PROVE  RunsInOrder'
  <2>1. AttachEffect(w)
    BY <1>7, AttachDoes
  <2>2. \A v \in Workers :
          \/ job'[v] = job[v]
          \/ v = w /\ job'[v] = Idle
          \/ /\ v = w /\ job'[v].step = "verify"
             /\ job'[v].s = job[w].s /\ job'[v].c = job[w].c
    BY <2>1 DEF AttachEffect, Job, TypeOK
  <2>3. \A c \in Carts : payOf[c] # NoPayment => payOf'[c] = payOf[c]
    BY <2>1 DEF AttachEffect, TypeOK
  <2>4. job'[w].step = "verify" => payOf'[job[w].c] # NoPayment
    <3>1. job[w].s # NoPayment
      BY <2>1 DEF AttachEffect, Sessions, NoPayment
    <3>2. CASE job' = [job EXCEPT ![w] = Idle]
      BY <3>2 DEF TypeOK, Idle
    <3>3. CASE payOf' = payOf /\ payOf[job[w].c] # NoPayment
      BY <3>3
    <3>4. CASE payOf' = [payOf EXCEPT ![job[w].c] = job[w].s]
      BY <2>1, <3>1, <3>4 DEF AttachEffect, TypeOK
    <3> QED BY <2>1, <3>2, <3>3, <3>4 DEF AttachEffect
  <2>5. \A v \in Workers : job[v].step \in {"verify", "complete"} => job[v].c \in Carts
    BY DEF RunsArePaid
  <2> QED BY <2>1, <2>2, <2>3, <2>4, <2>5 DEF AttachEffect, RunsInOrder,
      Paying, Idle
<1>8. ASSUME NEW w \in Workers, VerifyPayment(w)
      PROVE  RunsInOrder'
  <2>1. VerifyEffect(w)
    BY <1>8, VerifyPaymentDoes
  <2> QED BY <2>1 DEF VerifyEffect, Unsettled, Job, RunsInOrder, Paying,
      TypeOK
<1>9. ASSUME NEW w \in Workers, Complete(w)
      PROVE  RunsInOrder'
  BY <1>9 DEF Complete, Idle, orderVars, RunsInOrder, Paying
<1>10. ASSUME NEW w \in Workers, RefundAndFail(w)
      PROVE  RunsInOrder'
  BY <1>10 DEF RefundAndFail, TryRefund, Asked, RefundVerdicts, Idle, orderVars,
      RunsInOrder, Paying
<1>11. ASSUME NEW w \in Workers, Crash(w)
      PROVE  RunsInOrder'
  <2>1. CrashEffect(w)
    BY <1>11, CrashDoes
  <2> QED BY <2>1 DEF CrashEffect, Idle, orderVars, RunsInOrder, Paying
<1> QED BY <1>1, <1>2, <1>3, <1>4, <1>5, <1>6, <1>7, <1>8, <1>9, <1>10, <1>11
    DEF ChangeCart, NewCart, PlaceDirectly, Start, Pay, RetryFailedRefund,
    RefundEnds, Void, Next, WorkerStep, Finalize, vars, orderVars

(* What a completed session points at keeps its payment.                   *)
LEMMA KeepCompletedIsPaying ==
  ASSUME Inv, [Next]_vars
  PROVE  CompletedIsPaying'
<1> USE DEF Inv
<1>1. CASE UNCHANGED <<session, payOf, paid>>
  BY <1>1 DEF CompletedIsPaying, Paying
<1>2. ASSUME NEW s \in Sessions, Start(s)
      PROVE  CompletedIsPaying'
  BY <1>2 DEF Start, orderVars, CompletedIsPaying, RunsInOrder, Paying
<1>3. ASSUME NEW s \in Sessions, RetryFailedRefund(s)
      PROVE  CompletedIsPaying'
  BY <1>3 DEF RetryFailedRefund, TryRefund, Asked, RefundVerdicts, orderVars,
      CompletedIsPaying, RunsInOrder, Paying
<1>4. ASSUME NEW c \in Carts, PayDirectly(c)
      PROVE  CompletedIsPaying'
  BY <1>4 DEF PayDirectly, CompletedIsPaying, RunsInOrder, Paying
<1>5. ASSUME NEW c \in Carts, PaymentWebhook(c)
      PROVE  CompletedIsPaying'
  BY <1>5 DEF PaymentWebhook, Settle, Unsettled, CompletedIsPaying,
      RunsInOrder, Paying
<1>6. ASSUME NEW w \in Workers, Attach(w)
      PROVE  CompletedIsPaying'
  <2>1. AttachEffect(w)
    BY <1>6, AttachDoes
  <2> QED BY <2>1 DEF AttachEffect, Job, PaymentTaken, CompletedIsPaying,
      RunsInOrder, Paying, TypeOK
<1>7. ASSUME NEW w \in Workers, VerifyPayment(w)
      PROVE  CompletedIsPaying'
  <2>1. VerifyEffect(w)
    BY <1>7, VerifyPaymentDoes
  <2> QED BY <2>1 DEF VerifyEffect, Unsettled, Job, CompletedIsPaying,
      RunsInOrder, Paying
<1>8. ASSUME NEW w \in Workers, Complete(w)
      PROVE  CompletedIsPaying'
  <2>1. job[w].step = "complete" /\ job[w].s \in Sessions /\ job[w].c \in Carts
    BY <1>8 DEF Complete, RunsArePaid
  <2>2. \A r \in Sessions :
          session'[r].order = IF r = job[w].s THEN job[w].c ELSE session[r].order
    BY <1>8, <2>1 DEF Complete, TypeOK
  <2>3. \A r \in Sessions : r # job[w].s => session'[r].status = session[r].status
    BY <1>8, <2>1 DEF Complete, TypeOK
  <2>4. \A c \in Carts : Paying(c)' <=> Paying(c)
    BY <1>8 DEF Complete, orderVars, Paying
  <2>5. Paying(job[w].c)
    BY <2>1 DEF RunsInOrder
  <2>6. ASSUME NEW r \in Sessions, session'[r].status = "COMPLETED"
        PROVE  session'[r].order \in Carts /\ Paying(session'[r].order)
    BY <2>1, <2>2, <2>3, <2>5, <2>6 DEF CompletedIsPaying
  <2> QED BY <2>4, <2>6 DEF CompletedIsPaying, Paying
<1>9. ASSUME NEW w \in Workers, RefundAndFail(w)
      PROVE  CompletedIsPaying'
  BY <1>9 DEF RefundAndFail, TryRefund, Asked, RefundVerdicts, orderVars,
      CompletedIsPaying, RunsInOrder, Paying
<1>10. CASE ChangeCart \/ NewCart \/ PlaceDirectly
  BY <1>1, <1>10 DEF ChangeCart, NewCart, PlaceDirectly, orderVars
<1>11. CASE \E s \in Sessions : Start(s) \/ Pay(s) \/ RetryFailedRefund(s) \/ RefundEnds(s)
  <2>1. ASSUME NEW s \in Sessions, Pay(s) \/ RefundEnds(s)
        PROVE  UNCHANGED <<session, payOf, paid>>
    BY <2>1 DEF Pay, RefundEnds, orderVars
  <2> QED BY <1>1, <1>2, <1>3, <1>11, <2>1
<1>12. CASE \E c \in Carts : PayDirectly(c) \/ Void(c) \/ PaymentWebhook(c)
  <2>1. ASSUME NEW c \in Carts, Void(c)
        PROVE  UNCHANGED <<session, payOf, paid>>
    BY <2>1 DEF Void, orderVars
  <2> QED BY <1>1, <1>4, <1>5, <1>12, <2>1
<1>13. CASE \E w \in Workers : WorkerStep(w)
  <2>1. ASSUME NEW w \in Workers, (\E s \in Sessions : Finalize(w, s)) \/ Crash(w)
        PROVE  UNCHANGED <<session, payOf, paid>>
    BY <2>1 DEF Finalize, PlaceOrder, FindOrder, RefuseOrder, Crash, orderVars
  <2> QED BY <1>1, <1>6, <1>7, <1>8, <1>9, <1>13, <2>1 DEF WorkerStep
<1>14. CASE UNCHANGED vars
  BY <1>1, <1>14 DEF vars, orderVars
<1> QED BY <1>10, <1>11, <1>12, <1>13, <1>14 DEF Next

-----------------------------------------------------------------------------
LEMMA CheckoutInvariance == Spec => []Inv
<1>1. Inv /\ [Next]_vars => Inv'
  BY KeepTypeOK, KeepRunsArePaid, KeepPaymentsArePaid, KeepOnePaymentOneOrder,
     KeepPaidIsUsed, KeepRunsInOrder, KeepCompletedIsPaying
     DEF Inv
<1> QED BY StartInv, <1>1, PTL DEF Spec

(* Every table keeps the shape its columns and CHECK constraints give it. *)
THEOREM CheckoutTypeCorrect == Spec => []TypeOK
<1>1. Inv => TypeOK
  BY DEF Inv
<1> QED BY CheckoutInvariance, <1>1, PTL

(* No order is confirmed by a session nobody has paid, whatever runs of    *)
(* _finalize, webhooks and crashes come together.                          *)
THEOREM OnlyCapturedConfirms == Spec => []ConfirmedIsCaptured
<1>1. Inv => ConfirmedIsCaptured
  BY DEF Inv, PaymentsArePaid, PaidAtGateway, ConfirmedIsCaptured
<1> QED BY CheckoutInvariance, <1>1, PTL

(* No payment of a session pays for two orders. *)
THEOREM PaymentsAreNotReused == Spec => []OnePaymentOneOrder
<1>1. Inv => OnePaymentOneOrder
  BY DEF Inv
<1> QED BY CheckoutInvariance, <1>1, PTL

(* The money of a session that was completed by its own payment is in a    *)
(* confirmed order, or a refund row waits for it.                          *)
THEOREM CompletedSessionsAreSettled == Spec => []CompletedIsSettled
<1>1. Inv => CompletedIsSettled
  BY DEF Inv, CompletedIsPaying, Paying, PaidIsUsed, CompletedIsSettled
<1> QED BY CheckoutInvariance, <1>1, PTL

-----------------------------------------------------------------------------
(* How a session is decided.                                               *)

(* Only a paid session is decided.                                         *)
DecidedIsPaid ==
  \A s \in Sessions : session[s].status \notin {"NONE", "PENDING"} => PaidAtGateway(s)

(* A run that makes an order finds the session open or completed, one that *)
(* refunds finds it open or refused.                                       *)
RunsAreRight ==
  \A w \in Workers :
    /\ job[w].step \in {"attach", "verify", "complete"} =>
         session[job[w].s].status \in {"PENDING", "COMPLETED"}
    /\ job[w].step = "refund" =>
         session[job[w].s].status \in {"PENDING", "REFUNDED", "REFUND_FAILED"}

(* A session whose payment an order carries is completed, or a run is on   *)
(* its way to complete it.                                                 *)
AttachedCompletes ==
  \A c \in Carts :
    payOf[c] \in Sessions =>
      \/ session[payOf[c]].status = "COMPLETED"
      \/ \E w \in Workers : job[w].s = payOf[c] /\ job[w].step \in {"verify", "complete"}

(* What one step does to the sessions, the runs and the money.             *)
SessionAfter(s) ==
  \/ session'[s] = session[s]
  \/ session[s].status = "NONE" /\ session'[s].status = "PENDING"
  \/ /\ session'[s].status = "COMPLETED"
     /\ \E w \in Workers : job[w].step = "complete" /\ job[w].s = s
  \/ /\ session'[s].status \in {"REFUNDED", "REFUND_FAILED"}
     /\ \/ session[s].status = "REFUND_FAILED"
        \/ \E w \in Workers : job[w].step = "refund" /\ job[w].s = s

RunAfter(w) ==
  \/ job'[w] = job[w]
  \/ job'[w] = Idle
  \/ /\ job'[w].s = job[w].s /\ session' = session
     /\ \/ job[w].step = "attach" /\ job'[w].step = "verify"
        \/ job[w].step = "verify" /\ job'[w].step = "complete"
  \/ /\ job[w] = Idle /\ job'[w].step \in {"attach", "refund"} /\ job'[w].s \in Sessions
     /\ session' = session /\ session[job'[w].s].status = "PENDING"

MoneyAfter(s) == PaidAtGateway(s) => PaidAtGateway(s)'

DecisionStep ==
  /\ \A s \in Sessions : SessionAfter(s) /\ MoneyAfter(s)
  /\ \A w \in Workers : RunAfter(w)

(* A refund that is tried.                                                 *)
LEMMA RefundTried ==
  ASSUME Inv, NEW s \in Sessions, TryRefund(s)
  PROVE  /\ session'[s].status \in {"REFUNDED", "REFUND_FAILED"}
         /\ \A r \in Sessions : r # s => session'[r] = session[r] /\ money'[r] = money[r]
         /\ money'[s] \in {money[s], "refunding", "refunded"}
BY DEF Inv, TypeOK, TryRefund, Asked, RefundVerdicts

LEMMA StepDecides ==
  ASSUME Inv, [Next]_vars
  PROVE  DecisionStep
<1> USE DEF Inv
<1>1. CASE UNCHANGED <<session, money, job>>
  BY <1>1 DEF DecisionStep, SessionAfter, RunAfter, MoneyAfter, PaidAtGateway
<1>2. ASSUME NEW s \in Sessions, Start(s)
      PROVE  DecisionStep
  BY <1>2 DEF Start, orderVars, TypeOK, DecisionStep, SessionAfter, RunAfter, MoneyAfter, PaidAtGateway
<1>3. ASSUME NEW s \in Sessions, Pay(s)
      PROVE  DecisionStep
  BY <1>3 DEF Pay, TypeOK, DecisionStep, SessionAfter, RunAfter, MoneyAfter, PaidAtGateway
<1>4. ASSUME NEW s \in Sessions, RetryFailedRefund(s)
      PROVE  DecisionStep
  BY <1>4, RefundTried DEF RetryFailedRefund, DecisionStep, SessionAfter, RunAfter, MoneyAfter, PaidAtGateway
<1>5. ASSUME NEW w \in Workers, NEW s \in Sessions, Finalize(w, s)
      PROVE  DecisionStep
  BY <1>5 DEF Finalize, PlaceOrder, FindOrder, RefuseOrder, CanFinalize, Job, TypeOK, DecisionStep,
     SessionAfter, RunAfter, MoneyAfter, PaidAtGateway
<1>6. ASSUME NEW w \in Workers, Attach(w)
      PROVE  DecisionStep
  <2>1. AttachEffect(w)
    BY <1>6, AttachDoes
  <2> QED BY <2>1 DEF AttachEffect, Job, TypeOK, DecisionStep, SessionAfter, RunAfter, MoneyAfter, PaidAtGateway
<1>7. ASSUME NEW w \in Workers, VerifyPayment(w)
      PROVE  DecisionStep
  <2>1. VerifyEffect(w)
    BY <1>7, VerifyPaymentDoes
  <2> QED BY <2>1 DEF VerifyEffect, Job, TypeOK, DecisionStep, SessionAfter, RunAfter, MoneyAfter, PaidAtGateway
<1>8. ASSUME NEW w \in Workers, Complete(w)
      PROVE  DecisionStep
  <2>1. job[w].step = "complete" /\ job[w].s \in Sessions
    BY <1>8 DEF Complete, RunsArePaid
  <2>2. /\ session'[job[w].s].status = "COMPLETED"
        /\ \A r \in Sessions : r # job[w].s => session'[r] = session[r]
    BY <1>8, <2>1 DEF Complete, TypeOK
  <2> QED BY <1>8, <2>1, <2>2 DEF Complete, TypeOK, DecisionStep, SessionAfter, RunAfter, MoneyAfter, PaidAtGateway
<1>9. ASSUME NEW w \in Workers, RefundAndFail(w)
      PROVE  DecisionStep
  <2>1. job[w].step = "refund" /\ job[w].s \in Sessions /\ TryRefund(job[w].s)
    BY <1>9 DEF RefundAndFail, RunsArePaid
  <2> QED BY <1>9, <2>1, RefundTried DEF RefundAndFail, TypeOK, DecisionStep, SessionAfter, RunAfter, MoneyAfter, PaidAtGateway
<1>10. ASSUME NEW w \in Workers, Crash(w)
      PROVE  DecisionStep
  <2>1. CrashEffect(w)
    BY <1>10, CrashDoes
  <2> QED BY <2>1 DEF CrashEffect, TypeOK, DecisionStep, SessionAfter, RunAfter, MoneyAfter, PaidAtGateway
<1>11. ASSUME NEW s \in Sessions, RefundEnds(s)
      PROVE  DecisionStep
  BY <1>11 DEF RefundEnds, TypeOK, DecisionStep, SessionAfter, RunAfter, MoneyAfter, PaidAtGateway
<1> QED BY <1>1, <1>2, <1>3, <1>4, <1>5, <1>6, <1>7, <1>8, <1>9, <1>10, <1>11 DEF ChangeCart, NewCart,
    PlaceDirectly, PayDirectly, Void, PaymentWebhook, Next, WorkerStep, vars, orderVars

LEMMA KeepDecidedIsPaid ==
  ASSUME Inv, DecidedIsPaid, DecisionStep
  PROVE  DecidedIsPaid'
<1> SUFFICES ASSUME NEW s \in Sessions, session'[s].status \notin {"NONE", "PENDING"}
             PROVE  PaidAtGateway(s)'
  BY DEF DecidedIsPaid
<1>1. PaidAtGateway(s)
  BY DEF DecisionStep, SessionAfter, DecidedIsPaid, Inv, RunsArePaid
<1> QED BY <1>1 DEF DecisionStep, MoneyAfter

(* As long as the runs agree, the status a run relies on is not changed by *)
(* another.                                                                *)
LEMMA KeepRunsAreRight ==
  ASSUME Inv, RunsAreRight, RunsAgree, DecisionStep
  PROVE  RunsAreRight'
<1> SUFFICES ASSUME NEW w \in Workers
             PROVE  /\ job'[w].step \in {"attach", "verify", "complete"} =>
                         session'[job'[w].s].status \in {"PENDING", "COMPLETED"}
                    /\ job'[w].step = "refund" =>
                         session'[job'[w].s].status \in {"PENDING", "REFUNDED", "REFUND_FAILED"}
  BY DEF RunsAreRight
<1>1. CASE job'[w] = job[w] /\ job[w].step # "idle"
  <2>1. job[w].s \in Sessions /\ SessionAfter(job[w].s)
    BY <1>1 DEF Inv, RunsArePaid, DecisionStep
  <2>2. job[w].step = "refund" => ~\E v \in Workers : job[v].step = "complete" /\ job[v].s = job[w].s
    BY DEF RunsAgree
  <2>3. (\E v \in Workers : job[v].step = "refund" /\ job[v].s = job[w].s) => job[w].step = "refund"
    BY DEF RunsAgree
  <2>4. job[w].step \in {"attach", "verify", "complete", "refund"}
    BY <1>1 DEF Inv, TypeOK
  <2> QED BY <1>1, <2>1, <2>2, <2>3, <2>4 DEF SessionAfter, RunsAreRight
<1>2. CASE job'[w] = Idle \/ (job'[w] = job[w] /\ job[w].step = "idle")
  BY <1>2 DEF Idle
<1>3. CASE /\ job'[w].s = job[w].s /\ session' = session
           /\ \/ job[w].step = "attach" /\ job'[w].step = "verify"
              \/ job[w].step = "verify" /\ job'[w].step = "complete"
  BY <1>3 DEF RunsAreRight
<1>4. CASE session' = session /\ session[job'[w].s].status = "PENDING"
  BY <1>4
<1> QED BY <1>1, <1>2, <1>3, <1>4 DEF DecisionStep, RunAfter

(* An order gets the payment of a session from a run that goes on to       *)
(* verify it.                                                              *)
LEMMA PaymentsComeFromRuns ==
  ASSUME Inv, [Next]_vars, NEW c \in Carts, payOf'[c] \in Sessions, payOf'[c] # payOf[c]
  PROVE  \E w \in Workers : job'[w].s = payOf'[c] /\ job'[w].step = "verify"
<1> USE DEF Inv
<1>1. ASSUME NEW d \in Carts, PayDirectly(d)
      PROVE  FALSE
  BY <1>1 DEF PayDirectly, TypeOK, Cod, Sessions
<1>2. ASSUME NEW w \in Workers, Attach(w)
      PROVE  job'[w].s = payOf'[c] /\ job'[w].step = "verify"
  <2>1. AttachEffect(w)
    BY <1>2, AttachDoes
  <2> QED BY <2>1 DEF AttachEffect, Job, TypeOK
<1> QED BY <1>1, <1>2 DEF ChangeCart, NewCart, PlaceDirectly, Start, Pay, RetryFailedRefund, RefundEnds, Void,
    PaymentWebhook, PlaceOrder, FindOrder, RefuseOrder, VerifyPayment, Complete, RefundAndFail, Crash,
    Next, WorkerStep, Finalize, vars, orderVars

LEMMA KeepAttachedCompletes ==
  ASSUME Inv, RunsAreRight, AttachedCompletes, RunsAgree, [Next]_vars, DecisionStep,
         [RunsFinishStep]_vars
  PROVE  AttachedCompletes'
<1> SUFFICES ASSUME NEW c \in Carts, payOf'[c] \in Sessions
             PROVE  \/ session'[payOf'[c]].status = "COMPLETED"
                    \/ \E w \in Workers :
                         job'[w].s = payOf'[c] /\ job'[w].step \in {"verify", "complete"}
  BY DEF AttachedCompletes
<1>1. CASE payOf'[c] # payOf[c]
  BY <1>1, PaymentsComeFromRuns
<1>2. CASE payOf'[c] = payOf[c] /\ session[payOf[c]].status = "COMPLETED"
  BY <1>2 DEF DecisionStep, SessionAfter, RunsAreRight
<1>3. ASSUME payOf'[c] = payOf[c], NEW w \in Workers,
             job[w].s = payOf[c], job[w].step \in {"verify", "complete"}
      PROVE  \/ session'[payOf'[c]].status = "COMPLETED"
             \/ job'[w].s = payOf'[c] /\ job'[w].step \in {"verify", "complete"}
  <2>1. CASE job'[w] = Idle
    <3>1. job'[w] # job[w]
      BY <1>3, <2>1 DEF Idle
    <3> QED BY <1>3, <2>1, <3>1 DEF RunsFinishStep, vars
  <2>2. CASE job'[w] # Idle
    BY <1>3, <2>2 DEF DecisionStep, RunAfter, Idle
  <2> QED BY <2>1, <2>2
<1> QED BY <1>1, <1>2, <1>3 DEF AttachedCompletes

(* What a step does to one session is a step of SessionPromise, or none.   *)
SameSession(s) == StageOf(s)' = StageOf(s) /\ (money'[s] # "unpaid" <=> money[s] # "unpaid")

PromiseMove(s) ==
  \/ SameSession(s)
  \/ /\ StageOf(s) = "none" /\ StageOf(s)' = "open"
     /\ money'[s] # "unpaid" <=> money[s] # "unpaid"
  \/ /\ StageOf(s) = "open" /\ StageOf(s)' = "open"
     /\ money[s] = "unpaid" /\ money'[s] # "unpaid"
  \/ /\ StageOf(s) = "open" /\ StageOf(s)' \in {"ordered", "refused"}
     /\ money[s] # "unpaid" /\ money'[s] # "unpaid"

OneSession == \E s \in Sessions : PromiseMove(s) /\ \A r \in Sessions \ {s} : SameSession(r)

LEMMA RefundIsMove ==
  ASSUME Inv, NEW s \in Sessions, TryRefund(s), PaidAtGateway(s),
         session[s].status \in {"PENDING", "REFUNDED", "REFUND_FAILED"}
  PROVE  OneSession
<1>1. \A r \in Sessions \ {s} : SameSession(r)
  BY RefundTried DEF SameSession, StageOf
<1>2. money[s] # "unpaid" /\ money'[s] # "unpaid" /\ StageOf(s)' = "refused"
  BY RefundTried DEF PaidAtGateway, StageOf
<1>3. StageOf(s) \in {"open", "refused"}
  BY DEF StageOf
<1> QED BY <1>1, <1>2, <1>3 DEF OneSession, PromiseMove, SameSession

LEMMA StepIsPromised ==
  ASSUME Inv, DecidedIsPaid, RunsAreRight, RunsAgree, [Next]_vars
  PROVE  OneSession \/ \A s \in Sessions : SameSession(s)
<1> USE DEF Inv
<1>1. CASE UNCHANGED <<session, money>>
  BY <1>1 DEF SameSession, StageOf
<1>2. ASSUME NEW s \in Sessions, Start(s)
      PROVE  OneSession
  <2>1. \A r \in Sessions \ {s} : SameSession(r)
    BY <1>2 DEF Start, TypeOK, SameSession, StageOf
  <2>2. StageOf(s) = "none" /\ StageOf(s)' = "open" /\ money' = money
    BY <1>2 DEF Start, TypeOK, StageOf
  <2> QED BY <2>1, <2>2 DEF OneSession, PromiseMove
<1>3. ASSUME NEW s \in Sessions, Pay(s)
      PROVE  OneSession
  <2>1. \A r \in Sessions \ {s} : SameSession(r)
    BY <1>3 DEF Pay, TypeOK, SameSession, StageOf
  <2>2. money[s] = "unpaid" /\ money'[s] # "unpaid" /\ session' = session
    BY <1>3 DEF Pay, TypeOK
  <2>3. session[s].status = "PENDING"
    BY <1>3, <2>2 DEF Pay, DecidedIsPaid, PaidAtGateway
  <2>4. StageOf(s) = "open" /\ StageOf(s)' = "open"
    BY <2>2, <2>3 DEF StageOf
  <2> QED BY <2>1, <2>2, <2>4 DEF OneSession, PromiseMove
<1>4. ASSUME NEW s \in Sessions, RetryFailedRefund(s)
      PROVE  OneSession
  BY <1>4, RefundIsMove DEF RetryFailedRefund, DecidedIsPaid
<1>5. ASSUME NEW w \in Workers, Complete(w)
      PROVE  OneSession
  <2>1. job[w].step = "complete" /\ job[w].s \in Sessions /\ money' = money
    BY <1>5 DEF Complete, RunsArePaid
  <2>2. PICK s \in Sessions : s = job[w].s
    BY <2>1
  <2>3. /\ session'[s].status = "COMPLETED"
        /\ \A r \in Sessions \ {s} : session'[r] = session[r]
    BY <1>5, <2>1, <2>2 DEF Complete, TypeOK
  <2>4. \A r \in Sessions \ {s} : SameSession(r)
    BY <2>1, <2>3 DEF SameSession, StageOf
  <2>5. PaidAtGateway(s) /\ session[s].status \in {"PENDING", "COMPLETED"}
    BY <2>1, <2>2 DEF RunsArePaid, RunsAreRight
  <2>6. StageOf(s) \in {"open", "ordered"}
    BY <2>5 DEF StageOf
  <2>7. StageOf(s)' = "ordered"
    BY <2>3 DEF StageOf
  <2> QED BY <2>1, <2>4, <2>5, <2>6, <2>7 DEF OneSession, PromiseMove, SameSession, PaidAtGateway
<1>6. ASSUME NEW w \in Workers, RefundAndFail(w)
      PROVE  OneSession
  BY <1>6, RefundIsMove DEF RefundAndFail, RunsArePaid, RunsAreRight
<1>7. ASSUME NEW w \in Workers, Crash(w)
      PROVE  \A s \in Sessions : SameSession(s)
  <2>1. CrashEffect(w)
    BY <1>7, CrashDoes
  <2> QED BY <2>1 DEF CrashEffect, SameSession, StageOf, TypeOK
<1>8. ASSUME NEW s \in Sessions, RefundEnds(s)
      PROVE  \A r \in Sessions : SameSession(r)
  BY <1>8 DEF RefundEnds, SameSession, StageOf, TypeOK
<1> QED BY <1>1, <1>2, <1>3, <1>4, <1>5, <1>6, <1>7, <1>8 DEF ChangeCart, NewCart, PlaceDirectly, PayDirectly,
    Void, PaymentWebhook, PlaceOrder, FindOrder, RefuseOrder, Attach, VerifyPayment, Next, WorkerStep,
    Finalize, vars, orderVars

LEMMA PromiseStep ==
  ASSUME Inv, Inv', DecidedIsPaid, RunsAreRight, RunsAgree, [Next]_vars
  PROVE  [Promise!Next]_(Promise!promiseVars)
<1>1. CASE \A s \in Sessions : SameSession(s)
  BY <1>1 DEF SameSession, Promise!promiseVars
<1>2. CASE OneSession
  BY <1>2 DEF OneSession, PromiseMove, SameSession, Promise!Next, Promise!Open, Promise!Fund,
     Promise!Decide, Promise!promiseVars
<1> QED BY <1>1, <1>2, StepIsPromised

(* Behaviours in which the runs of a session agree.                        *)
Deciding == DecidedIsPaid /\ RunsAreRight

LEMMA DecisionsStart == Init => Deciding /\ AttachedCompletes /\ Promise!Init
<1> SUFFICES ASSUME Init PROVE Deciding /\ AttachedCompletes /\ Promise!Init
  OBVIOUS
<1>1. Deciding
  BY DEF Init, Idle, Unborn, Deciding, DecidedIsPaid, RunsAreRight
<1>2. AttachedCompletes
  BY DEF Init, AttachedCompletes, NoPayment, Sessions
<1>3. Promise!Init
  BY DEF Init, Unborn, StageOf, Promise!Init
<1> QED BY <1>1, <1>2, <1>3

LEMMA DecisionsHold == Spec /\ []RunsAgree => []Deciding
<1>1. Inv /\ Deciding /\ RunsAgree /\ [Next]_vars => Deciding'
  BY StepDecides, KeepDecidedIsPaid, KeepRunsAreRight DEF Deciding
<1> QED BY <1>1, DecisionsStart, CheckoutInvariance, PTL DEF Spec

(* In every behaviour in which no run of _finalize is about to give the    *)
(* money of a session back while another makes an order of it, a session   *)
(* is decided once, and only with its money in: CheckoutSession implements *)
(* SessionPromise.                                                         *)
THEOREM SessionsAreDecidedOnce == Spec => SessionDecidedOnce
<1>1. Inv /\ Inv' /\ Deciding /\ RunsAgree /\ [Next]_vars => [Promise!Next]_(Promise!promiseVars)
  BY PromiseStep DEF Deciding
<1> QED BY <1>1, DecisionsStart, DecisionsHold, CheckoutInvariance, PTL
        DEF Spec, SessionDecidedOnce, Promise!Spec

(* A customer gets both the goods and the money back only where runs       *)
(* disagree, or where one ended between attaching the payment and its last *)
(* update.                                                                 *)
THEOREM BothHasAReason == Spec => BothNeedsAReason
<1>1. Inv /\ Deciding /\ AttachedCompletes /\ RunsAgree /\ [Next]_vars /\ [RunsFinishStep]_vars
        => AttachedCompletes'
  BY StepDecides, KeepAttachedCompletes DEF Deciding
<1>2. Deciding /\ AttachedCompletes => GoodsOrMoney
  BY DEF Deciding, RunsAreRight, AttachedCompletes, GoodsOrMoney
<1> QED BY <1>1, <1>2, DecisionsStart, DecisionsHold, CheckoutInvariance, PTL
        DEF Spec, BothNeedsAReason, RunsFinish
=============================================================================
