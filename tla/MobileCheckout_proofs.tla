------------------------ MODULE MobileCheckout_proofs ------------------------
(***************************************************************************)
(* Proofs about the checkout of the mobile app, for any number of          *)
(* sessions, presses, lost calls and kills: the variables keep their       *)
(* types, the customer is told of a refused payment only when its money    *)
(* went back, "order placed" is true, and the session that was opened last *)
(* is remembered until its answer is known.  The first two need that an    *)
(* answer stays true while it is on its way: the states "placed" and       *)
(* "refunded" of a session are final, and so is what became of a cash      *)
(* order, because the basket that it took never comes back.                *)
(*                                                                         *)
(* The second half is about the cart that is checked out, for any products *)
(* and any number of taps and losses: when all is quiet the app shows the  *)
(* server's cart, and no tap is lost.  The first rests on what is noted of *)
(* an add that is out, the second on requests of a product being out one   *)
(* at a time, so that each can be compared with the last tap.              *)
(***************************************************************************)
EXTENDS MobileCheckout, MobileCart, FiniteSetTheorems, FunctionTheorems, TLAPS

SessionStates == {"none", "created", "open"} \cup Paid
OpType == [kind : {"start", "complete", "dismiss", "cash", "cashPay", "cancel"},
           s : Sessions \cup {0}, attempt : 1..ConfirmAttempts, mine : BOOLEAN,
           at : {"out", "answered", "asleep"}, answer : Answers]
ResumeType == [on : BOOLEAN, s : Sessions \cup {0}, answer : Answers]

\* What an answer says of the session is so.
Definite(s, answer) ==
  /\ answer = "ok" => session[s] = "placed"
  /\ answer = "refused" => session[s] = "refunded"

\* An operation of the hooks asks about a session or the cash order, has a try left when
\* it sleeps, and an answer when it was answered.
OpOK(o) ==
  /\ o.kind \in {"complete", "dismiss"} => o.s \in Sessions /\ Definite(o.s, o.answer)
  /\ o.kind = "complete" => session[o.s] \in Paid
  /\ o.kind = "cancel" /\ o.s = 0 => order # "none"
  /\ o.kind = "cashPay" /\ o.answer = "ok" => order \in {"confirmed", "cancelled"}
  /\ o.at = "asleep" => o.attempt < ConfirmAttempts
  /\ o.at = "answered" => o.answer # "none"

OpsInv == \A o \in ops : OpOK(o)

ResumeInv == resume.on => resume.s \in Sessions /\ Definite(resume.s, resume.answer)

\* The cash order took the basket.
OrderTookBasket == order # "none" => ~basket

\* What was told, the refusal included.
ToldInv == NeverToldFailed /\ SuccessIsPlaced

IInv == TypeOK /\ OpsInv /\ ResumeInv /\ OrderTookBasket /\ ToldInv /\ RememberedUntilAnswered
-----------------------------------------------------------------------------
(* The backend moves one way. *)

Settling ==
  /\ session' \in [Sessions -> SessionStates]
  /\ \A s \in Sessions :
       /\ session[s] = "placed" => session'[s] = "placed"
       /\ session[s] = "refunded" => session'[s] = "refunded"
       /\ session[s] \in Paid => session'[s] \in Paid
  /\ basket' \in BOOLEAN
  /\ order' \in {"none", "pending", "paid", "confirmed", "cancelled"}
  /\ order # "none" => order' # "none"
  /\ order \in {"confirmed", "cancelled"} => order' \in {"confirmed", "cancelled"}
  /\ OrderTookBasket'

LEMMA StillSettles == ASSUME IInv, UNCHANGED backend PROVE Settling
BY DEF IInv, TypeOK, OrderTookBasket, backend, Settling, SessionStates

\* One session moves on.
LEMMA MovesOn ==
  ASSUME IInv, NEW s \in Sessions, NEW to \in SessionStates, session' = [session EXCEPT ![s] = to],
         session[s] \notin {"placed", "refunded"} \/ session[s] = to, session[s] \in Paid => to \in Paid,
         basket' \in BOOLEAN, basket' => basket, order' = order \/ (order = "pending" /\ order' = "paid")
  PROVE  Settling /\ session'[s] = to
BY DEF IInv, TypeOK, OrderTookBasket, Settling, SessionStates

LEMMA FinalizeSettles ==
  ASSUME IInv, NEW s \in Sessions, NEW outcome \in {"placed", "refunded"}, Finalize(s, outcome)
  PROVE  Settling /\ session'[s] = outcome
<1>1. basket' \in BOOLEAN /\ (basket' => basket)
  BY DEF Finalize, IInv, TypeOK
<1> QED
  BY <1>1, MovesOn DEF Finalize, SessionStates, Paid

LEMMA AskedSettles ==
  ASSUME IInv, NEW s \in Sessions, NEW answer, Asked(s, answer)
  PROVE  /\ Settling
         /\ answer = "ok" => session'[s] = "placed"
         /\ answer = "refused" => session'[s] = "refunded"
<1>1. CASE Finalize(s, "placed") /\ answer = "ok"
  BY <1>1, FinalizeSettles
<1>2. CASE Finalize(s, "refunded") /\ answer = "refused"
  BY <1>2, FinalizeSettles
<1>3. CASE /\ UNCHANGED backend
           /\ answer = "ok" => session[s] = "placed"
           /\ answer = "refused" => session[s] = "refunded"
  BY <1>3, StillSettles DEF backend
<1> QED
  BY <1>1, <1>2, <1>3 DEF Asked

\* A call of an operation is served, and what it answers is so from then on.
LEMMA ServedSettles ==
  ASSUME IInv, NEW o \in ops, NEW s \in Sessions \cup {0}, NEW answer \in {"ok", "notConfirmed", "refused"},
         s = 0 => o.kind \notin {"start", "complete", "dismiss"}, Served(o, s, answer)
  PROVE  /\ Settling
         /\ o.kind \in {"complete", "dismiss"} =>
              /\ s = o.s
              /\ answer = "ok" => session'[s] = "placed"
              /\ answer = "refused" => session'[s] = "refunded"
         /\ o.kind \in {"cashPay", "cancel"} => s = o.s
         /\ o.kind = "cashPay" /\ answer = "ok" => order' \in {"confirmed", "cancelled"}
<1>0. o \in OpType /\ TypeOK /\ OrderTookBasket /\ OpOK(o)
  BY DEF IInv, TypeOK, OpType, OpsInv
<1>1. CASE o.kind = "start"
  <2>1. Opened(s, answer) /\ s \in Sessions
    BY <1>1 DEF Served
  <2>2. CASE session[s] = "none" /\ session' = [session EXCEPT ![s] = "created"] /\ UNCHANGED <<basket, order>>
    BY <1>0, <1>1, <2>1, <2>2, MovesOn DEF SessionStates, Paid, TypeOK
  <2>3. CASE \E outcome \in {"placed", "refunded"} : Finalize(s, outcome)
    BY <1>1, <2>1, <2>3, FinalizeSettles
  <2>4. CASE UNCHANGED backend
    BY <1>1, <2>4, StillSettles
  <2> QED
    BY <1>1, <2>1, <2>2, <2>3, <2>4 DEF Opened
<1>2. CASE o.kind \in {"complete", "dismiss"}
  <2>1. s = o.s /\ Asked(s, answer) /\ s \in Sessions
    BY <1>2 DEF Served
  <2> QED
    BY <1>2, <2>1, AskedSettles
<1>3. CASE o.kind = "cash"
  <2>1. Ordered(s, answer)
    BY <1>3 DEF Served
  <2>2. CASE UNCHANGED backend
    BY <1>3, <2>2, StillSettles
  <2>3. CASE basket /\ basket' = FALSE /\ order' = "pending" /\ UNCHANGED session
    BY <1>0, <1>3, <2>3 DEF TypeOK, OrderTookBasket, Settling, SessionStates
  <2> QED
    BY <2>1, <2>2, <2>3 DEF Ordered
<1>4. CASE o.kind = "cashPay"
  <2>1. Attached(s, answer) /\ s = o.s
    BY <1>4 DEF Served
  <2>2. CASE UNCHANGED backend /\ answer = "refused"
    BY <1>4, <2>1, <2>2, StillSettles
  <2>3. CASE order \in {"pending", "confirmed"} /\ order' = "confirmed" /\ UNCHANGED <<session, basket>>
    BY <1>0, <1>4, <2>1, <2>3 DEF TypeOK, OrderTookBasket, Settling, SessionStates
  <2> QED
    BY <2>1, <2>2, <2>3 DEF Attached
<1>5. CASE o.kind = "cancel"
  <2>1. Cancelled(s, answer) /\ s = o.s
    BY <1>5 DEF Served
  <2>2. CASE UNCHANGED backend
    BY <1>5, <2>1, <2>2, StillSettles
  <2>3. CASE s = 0 /\ order' = "cancelled" /\ UNCHANGED <<session, basket>>
    BY <1>0, <1>5, <2>1, <2>3 DEF OpOK, TypeOK, OrderTookBasket, Settling, SessionStates
  <2> QED
    BY <2>1, <2>2, <2>3 DEF Cancelled
<1> QED
  BY <1>0, <1>1, <1>2, <1>3, <1>4, <1>5 DEF OpType

-----------------------------------------------------------------------------
(* What the operations become. *)

\* What an operation stands on stays.
LEMMA OpKept ==
  ASSUME IInv, Settling, NEW o \in OpType, OpOK(o)
  PROVE  OpOK(o)'
BY DEF OpOK, Definite, Settling

LEMMA OrphanKept ==
  ASSUME IInv, Settling, NEW o \in OpType, OpOK(o)
  PROVE  [o EXCEPT !.mine = FALSE] \in OpType /\ OpOK([o EXCEPT !.mine = FALSE])'
<1> DEFINE q == [o EXCEPT !.mine = FALSE]
<1>1. q \in OpType /\ q.kind = o.kind /\ q.s = o.s /\ q.at = o.at /\ q.answer = o.answer /\ q.attempt = o.attempt
  BY DEF OpType
<1>2. OpOK(o)'
  BY OpKept
<1> HIDE DEF q
<1>3. OpOK(q)'
  BY <1>1, <1>2 DEF OpOK, Definite
<1> QED
  BY <1>1, <1>3 DEF q

\* After a step every operation was there, was there with its screen, or is a sound new one.
OpsAfter ==
  \A o \in ops' :
    \/ o \in ops
    \/ \E q \in ops : o = [q EXCEPT !.mine = FALSE]
    \/ o \in OpType /\ OpOK(o)'

LEMMA OpsKept ==
  ASSUME IInv, Settling, OpsAfter
  PROVE  ops' \subseteq OpType /\ OpsInv'
<1>1. \A o \in ops : o \in OpType /\ OpOK(o)
  BY DEF IInv, TypeOK, OpType, OpsInv
<1>2. ASSUME NEW o \in ops' PROVE o \in OpType /\ OpOK(o)'
  <2>1. CASE o \in ops
    BY <1>1, <2>1, OpKept
  <2>2. CASE \E q \in ops : o = [q EXCEPT !.mine = FALSE]
    BY <1>1, <2>2, OrphanKept
  <2> QED
    BY <1>2, <2>1, <2>2 DEF OpsAfter
<1> QED
  BY <1>2 DEF OpsInv

\* A new operation, or one of the old ones without its screen.
LEMMA NewOp ==
  ASSUME NEW kind \in {"start", "complete", "dismiss", "cash", "cancel"}, NEW s \in Sessions \cup {0},
         kind \in {"complete", "dismiss"} => s \in Sessions,
         kind = "complete" => session'[s] \in Paid,
         kind = "cancel" /\ s = 0 => order' # "none"
  PROVE  Op(kind, s) \in OpType /\ OpOK(Op(kind, s))'
<1> DEFINE q == Op(kind, s)
<1>1. 1 \in 1..ConfirmAttempts
  BY CheckoutBounds
<1>2. q \in OpType /\ q.kind = kind /\ q.s = s /\ q.at = "out" /\ q.answer = "none"
  BY <1>1 DEF Op, OpType, Answers
<1> HIDE DEF q
<1>3. OpOK(q)'
  BY <1>2 DEF OpOK, Definite
<1> QED
  BY <1>2, <1>3 DEF q

LEMMA OrphansAfter ==
  ASSUME NEW gone, ops' = Orphans(ops \ gone)
  PROVE  OpsAfter
BY DEF Orphans, OpsAfter

\* A call that was served or lost.
LEMMA AnsweredOp ==
  ASSUME IInv, NEW o \in ops, NEW s \in Sessions \cup {0},
         NEW answer \in {"ok", "notConfirmed", "refused", "unknown"}, Settling,
         o.kind \in {"complete", "dismiss"} =>
           /\ s = o.s
           /\ answer = "ok" => session'[s] = "placed"
           /\ answer = "refused" => session'[s] = "refunded",
         o.kind \in {"cashPay", "cancel"} => s = o.s,
         o.kind = "cashPay" /\ answer = "ok" => order' \in {"confirmed", "cancelled"}
  PROVE  LET q == [o EXCEPT !.s = s, !.at = "answered", !.answer = answer]
         IN  q \in OpType /\ OpOK(q)'
<1> DEFINE q == [o EXCEPT !.s = s, !.at = "answered", !.answer = answer]
<1>1. o \in OpType /\ OpOK(o)
  BY DEF IInv, TypeOK, OpType, OpsInv
<1>2. q \in OpType /\ q.kind = o.kind /\ q.s = s /\ q.at = "answered" /\ q.answer = answer
  BY <1>1 DEF OpType, Answers
<1>3. OpOK(o)'
  BY <1>1, OpKept
<1> HIDE DEF q
<1>4. OpOK(q)'
  BY <1>2, <1>3 DEF OpOK, Definite
<1> QED
  BY <1>2, <1>4 DEF q

\* An operation asks again: after a pause, or as the payment of the cash order it made.
LEMMA AgainOp ==
  ASSUME IInv, Settling, NEW o \in ops, NEW q \in OpType, q.s = o.s,
         q.answer = o.answer \/ q.answer \notin {"ok", "refused"},
         q.kind = o.kind \/ (q.kind = "cashPay" /\ q.answer # "ok"),
         q.at = "asleep" => q.attempt < ConfirmAttempts,
         q.at = "answered" => q.answer # "none"
  PROVE  OpOK(q)'
<1>1. o \in OpType /\ OpOK(o)
  BY DEF IInv, TypeOK, OpType, OpsInv
<1>2. OpOK(o)'
  BY <1>1, OpKept
<1> QED
  BY <1>2 DEF OpOK, Definite

LEMMA StepOps == ASSUME IInv, [Next]_vars PROVE Settling /\ OpsAfter
<1>0. TypeOK /\ ResumeInv /\ OpsInv /\ \A o \in ops : o \in OpType
  BY DEF IInv, TypeOK, OpType
<1>1. CASE \E s \in Sessions : CustomerPays(s) \/ Capture(s)
  <2>1. PICK s \in Sessions : CustomerPays(s) \/ Capture(s)
    BY <1>1
  <2>2. Settling
    BY <1>0, <2>1, MovesOn DEF CustomerPays, Capture, SessionStates, Paid, TypeOK
  <2> QED
    BY <2>1, <2>2 DEF CustomerPays, Capture, OpsAfter
<1>2. CASE \E s \in Sessions : Webhook(s)
  BY <1>2, FinalizeSettles DEF Webhook, OpsAfter
<1>3. CASE \E kind \in {"start", "cash"} : PressPay(kind)
  <2>1. Settling /\ \E kind \in {"start", "cash"} : ops' = ops \cup {Op(kind, 0)}
    BY <1>3, StillSettles DEF PressPay
  <2> QED
    BY <2>1, NewOp DEF OpsAfter
<1>4. ASSUME NEW o \in ops, Serve(o) PROVE Settling /\ OpsAfter
  <2>1. PICK s \in Sessions \cup {0}, answer \in {"ok", "notConfirmed", "refused"} :
          /\ s = 0 => o.kind \notin {"start", "complete", "dismiss"}
          /\ Served(o, s, answer)
          /\ ops' = (ops \ {o}) \cup {[o EXCEPT !.s = s, !.at = "answered", !.answer = answer]}
    BY <1>4 DEF Serve
  <2> DEFINE q == [o EXCEPT !.s = s, !.at = "answered", !.answer = answer]
  <2>2. /\ Settling
        /\ o.kind \in {"complete", "dismiss"} =>
             /\ s = o.s
             /\ answer = "ok" => session'[s] = "placed"
             /\ answer = "refused" => session'[s] = "refunded"
        /\ o.kind \in {"cashPay", "cancel"} => s = o.s
        /\ o.kind = "cashPay" /\ answer = "ok" => order' \in {"confirmed", "cancelled"}
    BY <2>1, ServedSettles
  <2>3. q \in OpType /\ OpOK(q)'
    BY <2>2, AnsweredOp
  <2> QED
    BY <2>1, <2>2, <2>3 DEF OpsAfter
<1>5. ASSUME NEW o \in ops, Lose(o) PROVE Settling /\ OpsAfter
  <2> DEFINE q == [o EXCEPT !.at = "answered", !.answer = "unknown"]
  <2>1. Settling /\ ops' = (ops \ {o}) \cup {q}
    BY <1>5, StillSettles DEF Lose
  <2>2. q \in OpType /\ q.s = o.s /\ q.answer = "unknown" /\ q.kind = o.kind /\ q.at = "answered"
    BY <1>0 DEF OpType, Answers
  <2>3. OpOK(q)'
    BY <2>1, <2>2, AgainOp
  <2> QED
    BY <2>1, <2>2, <2>3 DEF OpsAfter
<1>6. ASSUME NEW o \in ops, Wake(o) PROVE Settling /\ OpsAfter
  <2> DEFINE q == [o EXCEPT !.at = "out", !.attempt = o.attempt + 1]
  <2>1. Settling /\ ops' = (ops \ {o}) \cup {q}
    BY <1>6, StillSettles DEF Wake
  <2>2. o.attempt + 1 \in 1..ConfirmAttempts
    <3>1. o.attempt \in 1..ConfirmAttempts /\ o.attempt < ConfirmAttempts /\ ConfirmAttempts \in Nat
      BY <1>0, <1>6, CheckoutBounds DEF Wake, OpsInv, OpOK, OpType
    <3> QED
      BY <3>1
  <2>3. q \in OpType /\ q.s = o.s /\ q.answer = o.answer /\ q.kind = o.kind /\ q.at = "out"
    BY <1>0, <2>2 DEF OpType
  <2>4. OpOK(q)'
    BY <2>1, <2>3, AgainOp
  <2> QED
    BY <2>1, <2>3, <2>4 DEF OpsAfter
<1>7. ASSUME NEW o \in ops, StartAnswered(o) PROVE Settling /\ OpsAfter
  <2>1. CASE session' = session
    BY <1>7, <2>1, StillSettles DEF StartAnswered, OpsAfter, backend
  <2>2. CASE session' = [session EXCEPT ![o.s] = IF @ = "created" THEN "open" ELSE @]
    <3>1. session' \in [Sessions -> SessionStates]
      BY <1>0, <2>2 DEF TypeOK, SessionStates
    <3>2. \A s \in Sessions : session'[s] = session[s] \/ (session[s] = "created" /\ session'[s] = "open")
      BY <1>0, <2>2 DEF TypeOK
    <3>3. UNCHANGED <<basket, order>> /\ ops' = ops \ {o}
      BY <1>7 DEF StartAnswered
    <3>4. Settling
      BY <1>0, <3>1, <3>2, <3>3 DEF IInv, OrderTookBasket, TypeOK, Settling, Paid
    <3> QED
      BY <3>3, <3>4 DEF OpsAfter
  <2> QED
    BY <1>7, <2>1, <2>2 DEF StartAnswered
<1>8. ASSUME NEW o \in ops, CompleteAnswered(o) \/ DismissAnswered(o) PROVE Settling /\ OpsAfter
  <2>1. Settling
    BY <1>8, StillSettles DEF CompleteAnswered, DismissAnswered
  <2>2. CASE ops' = ops \ {o} \/ ops' = Orphans(ops \ {o})
    BY <2>1, <2>2, OrphansAfter DEF OpsAfter
  <2>3. CASE /\ o.attempt < ConfirmAttempts
             /\ ops' = (ops \ {o}) \cup {[o EXCEPT !.at = "asleep", !.answer = "none"]}
    <3> DEFINE q == [o EXCEPT !.at = "asleep", !.answer = "none"]
    <3>1. /\ q \in OpType /\ q.s = o.s /\ q.answer = "none" /\ q.kind = o.kind /\ q.at = "asleep"
          /\ q.attempt = o.attempt
      BY <1>0 DEF OpType, Answers
    <3>2. OpOK(q)'
      BY <2>1, <2>3, <3>1, AgainOp
    <3> QED
      BY <2>1, <2>3, <3>1, <3>2 DEF OpsAfter
  <2> QED
    BY <1>8, <2>2, <2>3 DEF CompleteAnswered, DismissAnswered, Success, Refused, TryAgain
<1>9. ASSUME NEW o \in ops, CashAnswered(o) PROVE Settling /\ OpsAfter
  <2> DEFINE q == [o EXCEPT !.kind = "cashPay", !.at = "out", !.answer = "none"]
  <2>1. Settling
    BY <1>9, StillSettles DEF CashAnswered
  <2>2. q \in OpType /\ q.s = o.s /\ q.answer = "none" /\ q.kind = "cashPay" /\ q.at = "out"
    BY <1>0 DEF OpType, Answers
  <2>3. OpOK(q)'
    BY <2>1, <2>2, AgainOp
  <2>4. \A r \in ops' : r \in ops \/ r = q
    BY <1>9 DEF CashAnswered
  <2> QED
    BY <2>1, <2>2, <2>3, <2>4 DEF OpsAfter
<1>10. ASSUME NEW o \in ops, CashPayAnswered(o) \/ CancelAnswered(o) PROVE Settling /\ OpsAfter
  <2>1. Settling
    BY <1>10, StillSettles DEF CashPayAnswered, CancelAnswered
  <2>2. ops' = ops \ {o} \/ ops' = Orphans(ops \ {o})
    BY <1>10 DEF CashPayAnswered, CancelAnswered
  <2> QED
    BY <2>1, <2>2, OrphansAfter DEF OpsAfter
<1>11. CASE SheetSucceeds \/ SheetDismissed
  <2>1. Settling /\ sheet \in Sessions
    BY <1>0, <1>11, StillSettles DEF SheetSucceeds, SheetDismissed, TypeOK
  <2>2. \E kind \in {"complete", "dismiss"} :
          ops' = ops \cup {Op(kind, sheet)} /\ (kind = "complete" => session'[sheet] \in Paid)
    BY <1>11, <2>1 DEF SheetSucceeds, SheetDismissed, backend
  <2> QED
    BY <2>1, <2>2, NewOp DEF OpsAfter
<1>12. CASE CancelOrder
  <2>1. Settling /\ order' = order
    BY <1>12, StillSettles DEF CancelOrder, backend
  <2>2. \E s \in Sessions \cup {0} : (s = 0 => order # "none") /\ ops' = ops \cup {Op("cancel", s)}
    BY <1>12 DEF CancelOrder
  <2> QED
    BY <2>1, <2>2, NewOp DEF OpsAfter
<1>13. CASE CartRead \/ OpenCheckout \/ Leave \/ Kill \/ ResumeCheck \/ ResumeLost \/ ResumeAnswered
  <2>1. Settling
    BY <1>13, StillSettles DEF CartRead, OpenCheckout, Leave, Kill, ResumeCheck, ResumeLost, ResumeAnswered
  <2>2. ops' = ops \/ ops' = {} \/ ops' = Orphans(ops)
    BY <1>13 DEF CartRead, OpenCheckout, Leave, Kill, ResumeCheck, ResumeLost, ResumeAnswered
  <2> QED
    BY <2>1, <2>2 DEF OpsAfter, Orphans
<1>14. CASE ResumeServed
  BY <1>0, <1>14, AskedSettles DEF ResumeServed, ResumeInv, OpsAfter
<1>15. CASE UNCHANGED vars
  BY <1>15, StillSettles DEF vars, OpsAfter
<1> QED
  BY <1>1, <1>2, <1>3, <1>4, <1>5, <1>6, <1>7, <1>8, <1>9, <1>10, <1>11, <1>12, <1>13, <1>14, <1>15
  DEF Next, Answered

-----------------------------------------------------------------------------
(* What the customer is told, and what the phone remembers. *)

Definitely == {"placed", "refused"}

\* Nothing new is told, or something that is so, and a definite answer is never taken back.
ToldAfter ==
  \/ told' = told
  \/ \E s \in Sessions, what \in {"pending", "unknown", "refused", "placed"} :
       /\ Tell(s, what)
       /\ what = "placed" => session'[s] = "placed"
       /\ what = "refused" => session'[s] = "refunded"
       /\ what = "pending" => session'[s] \in Paid

\* The record of the phone follows the sheet that opens last; only an answer that was
\* told, or that nothing could show, removes it.
RecordAfter ==
  /\ unseen => unseen'
  /\ \/ remembered' = latest' /\ mixed' = mixed
     \/ UNCHANGED <<remembered, latest, mixed>>
     \/ \E s \in Sessions :
          /\ Forget(s) /\ latest' = latest
          /\ told'[s] \in Definitely \/ unseen'

CashAfter == cashTold' = cashTold \/ cashTold' = "failed" \/ (cashTold' = "placed" /\ order' \in {"confirmed", "cancelled"})

\* The variables of the phone, and the counters.
PhoneTypes ==
  /\ screen' \in {"away", "checkout", "success", "orders", "failed"}
  /\ shown' \in BOOLEAN /\ sheet' \in Sessions \cup {0}
  /\ remembered' \in Sessions \cup {0} /\ latest' \in Sessions \cup {0}
  /\ mixed' \in BOOLEAN /\ unseen' \in BOOLEAN
  /\ presses' \in 0..MaxPresses /\ failures' \in 0..MaxFailures /\ kills' \in 0..MaxKills

LEMMA TellKeeps ==
  ASSUME told \in [Sessions -> {"nothing", "pending", "unknown", "refused", "placed"}],
         NEW s \in Sessions, NEW what \in {"pending", "unknown", "refused", "placed"}, Tell(s, what)
  PROVE  /\ told' \in [Sessions -> {"nothing", "pending", "unknown", "refused", "placed"}]
         /\ \A t \in Sessions : told'[t] = told[t] \/ (t = s /\ told'[t] = what)
         /\ \A t \in Sessions : told[t] \in Definitely => told'[t] \in Definitely
         /\ what \in Definitely => told'[s] = what
BY DEF Tell, Definitely

LEMMA ToldKept ==
  ASSUME IInv, Settling, ToldAfter, CashAfter
  PROVE  /\ told' \in [Sessions -> {"nothing", "pending", "unknown", "refused", "placed"}]
         /\ cashTold' \in {"nothing", "failed", "placed"}
         /\ \A t \in Sessions : told[t] \in Definitely => told'[t] \in Definitely
         /\ ToldInv'
<1>0. TypeOK /\ NeverToldFailed /\ SuccessIsPlaced
  BY DEF IInv, ToldInv
<1>1. cashTold' \in {"nothing", "failed", "placed"} /\ (cashTold' = "placed" => order' \in {"confirmed", "cancelled"})
  BY <1>0 DEF TypeOK, CashAfter, SuccessIsPlaced, Settling
<1>2. CASE told' = told
  BY <1>0, <1>1, <1>2 DEF TypeOK, ToldInv, NeverToldFailed, SuccessIsPlaced, Settling
<1>3. CASE \E s \in Sessions, what \in {"pending", "unknown", "refused", "placed"} :
              /\ Tell(s, what)
              /\ what = "placed" => session'[s] = "placed"
              /\ what = "refused" => session'[s] = "refunded"
              /\ what = "pending" => session'[s] \in Paid
  <2>1. PICK s \in Sessions, what \in {"pending", "unknown", "refused", "placed"} :
               /\ Tell(s, what)
               /\ what = "placed" => session'[s] = "placed"
               /\ what = "refused" => session'[s] = "refunded"
               /\ what = "pending" => session'[s] \in Paid
    BY <1>3
  <2>2. /\ told' \in [Sessions -> {"nothing", "pending", "unknown", "refused", "placed"}]
        /\ \A t \in Sessions : told'[t] = told[t] \/ (t = s /\ told'[t] = what)
        /\ \A t \in Sessions : told[t] \in Definitely => told'[t] \in Definitely
    BY <1>0, <2>1, TellKeeps DEF TypeOK
  <2>3. NeverToldFailed'
    BY <1>0, <2>1, <2>2 DEF NeverToldFailed, Settling
  <2>4. SuccessIsPlaced'
    BY <1>0, <1>1, <2>1, <2>2 DEF SuccessIsPlaced, Settling
  <2> QED
    BY <1>1, <2>2, <2>3, <2>4 DEF ToldInv
<1> QED
  BY <1>2, <1>3 DEF ToldAfter

LEMMA RecordKept ==
  ASSUME IInv, RecordAfter, PhoneTypes,
         \A t \in Sessions : told[t] \in Definitely => told'[t] \in Definitely
  PROVE  RememberedUntilAnswered'
<1>0. TypeOK /\ RememberedUntilAnswered
  BY DEF IInv
<1> SUFFICES ASSUME latest' # 0, told'[latest'] \notin Definitely, ~mixed', ~unseen'
             PROVE  remembered' = latest'
  BY DEF RememberedUntilAnswered, Definitely
<1>1. CASE UNCHANGED <<remembered, latest, mixed>>
  BY <1>0, <1>1 DEF RememberedUntilAnswered, RecordAfter, TypeOK, Definitely
<1>2. ASSUME NEW s \in Sessions, Forget(s), latest' = latest, told'[s] \in Definitely \/ unseen'
      PROVE  FALSE
  <2>1. latest \in Sessions /\ told[latest] \notin Definitely /\ ~mixed /\ ~unseen
    BY <1>0, <1>2 DEF TypeOK, Forget, RecordAfter
  <2>2. remembered = latest
    BY <1>0, <2>1 DEF RememberedUntilAnswered, Definitely, Sessions
  <2>3. s = latest
    BY <1>2, <2>1, <2>2 DEF Forget
  <2> QED
    BY <1>2, <2>3
<1> QED
  BY <1>1, <1>2 DEF RecordAfter

\* The check of usePendingPaymentResume keeps its type and what it stands on.
ResumeAfter == resume' \in ResumeType /\ ResumeInv'

StepPhone == PhoneTypes /\ ToldAfter /\ RecordAfter /\ CashAfter /\ ResumeAfter

LEMMA ResumeKept ==
  ASSUME IInv, Settling, UNCHANGED resume \/ resume' = Idle
  PROVE  ResumeAfter
<1>0. resume \in ResumeType /\ ResumeInv
  BY DEF IInv, TypeOK, ResumeType
<1>1. CASE resume' = resume
  BY <1>0, <1>1 DEF ResumeAfter, ResumeInv, Definite, Settling
<1>2. CASE resume' = Idle
  BY <1>2 DEF ResumeAfter, ResumeType, ResumeInv, Idle, Answers
<1> QED
  BY <1>1, <1>2

\* Steps that tell nothing and leave the record alone.
LEMMA QuietStep ==
  ASSUME IInv, Settling, UNCHANGED <<remembered, told, latest, mixed, unseen>>,
         UNCHANGED resume \/ resume' = Idle, CashAfter, PhoneTypes
  PROVE  StepPhone
BY ResumeKept DEF StepPhone, ToldAfter, RecordAfter

LEMMA PhoneStill ==
  ASSUME IInv, UNCHANGED <<remembered, latest, mixed, unseen>>,
         screen' \in {"away", "checkout", "success", "orders", "failed"}, shown' \in BOOLEAN,
         sheet' \in {sheet, 0},
         presses' = presses \/ (presses < MaxPresses /\ presses' = presses + 1),
         failures' = failures \/ (failures < MaxFailures /\ failures' = failures + 1),
         kills' = kills \/ (kills < MaxKills /\ kills' = kills + 1)
  PROVE  PhoneTypes
<1>1. MaxPresses \in Nat /\ MaxFailures \in Nat /\ MaxKills \in Nat
  BY CheckoutBounds
<1>2. TypeOK
  BY DEF IInv
<1>3. presses' \in 0..MaxPresses /\ failures' \in 0..MaxFailures /\ kills' \in 0..MaxKills
  BY <1>1, <1>2 DEF TypeOK
<1> QED
  BY <1>2, <1>3 DEF TypeOK, PhoneTypes

\* An answer about a session reaches the screen that asked, or nobody.
LEMMA AnsweredStep ==
  ASSUME IInv, Settling, NEW o \in ops, CompleteAnswered(o) \/ DismissAnswered(o)
  PROVE  StepPhone
<1>0. TypeOK /\ o \in OpType /\ OpOK(o)
  BY DEF IInv, TypeOK, OpType, OpsInv
<1>1. /\ o.s \in Sessions /\ Definite(o.s, o.answer) /\ session' = session /\ o.answer # "none"
      /\ o.kind = "complete" => session[o.s] \in Paid
      /\ UNCHANGED <<backend, resume, cashTold, latest, bounds>>
  BY <1>0 DEF OpOK, CompleteAnswered, DismissAnswered, backend
<1>2. CashAfter /\ ResumeAfter
  BY <1>1, ResumeKept DEF CashAfter
<1>3. CASE o.answer = "ok" /\ Success(o)
  <2>1. /\ Forget(o.s) /\ Tell(o.s, "placed") /\ unseen' = unseen /\ session'[o.s] = "placed"
        /\ UNCHANGED <<latest, presses, failures, kills, shown>> /\ screen' = "success" /\ sheet' = 0
    BY <1>1, <1>3 DEF Success, Go, Definite, bounds
  <2>2. told'[o.s] \in Definitely
    BY <1>0, <1>1, <2>1, TellKeeps DEF TypeOK, Definitely
  <2>3. PhoneTypes
    BY <1>0, <2>1 DEF TypeOK, PhoneTypes, Forget
  <2>4. ToldAfter /\ RecordAfter
    BY <1>1, <2>1, <2>2 DEF ToldAfter, RecordAfter
  <2> QED
    BY <1>2, <2>3, <2>4 DEF StepPhone
<1>4. CASE o.answer = "refused" /\ Refused(o)
  <2>1. /\ Forget(o.s) /\ ShowError(o, "refused") /\ session'[o.s] = "refunded"
        /\ UNCHANGED <<latest, presses, failures, kills, phone>>
    BY <1>1, <1>4 DEF Refused, Definite, bounds
  <2>2. (Tell(o.s, "refused") \/ told' = told) /\ unseen' \in BOOLEAN /\ (unseen => unseen')
    BY <1>0, <2>1 DEF ShowError, TypeOK
  <2>3. Tell(o.s, "refused") \/ unseen'
    BY <1>0, <2>1 DEF ShowError, TypeOK
  <2>4. told'[o.s] \in Definitely \/ unseen'
    BY <1>0, <1>1, <2>3, TellKeeps DEF TypeOK, Definitely
  <2>5. PhoneTypes
    BY <1>0, <2>1, <2>2 DEF TypeOK, PhoneTypes, Forget, phone
  <2>6. ToldAfter /\ RecordAfter
    BY <1>1, <2>1, <2>2, <2>4 DEF ToldAfter, RecordAfter
  <2> QED
    BY <1>2, <2>5, <2>6 DEF StepPhone
<1>5. CASE o.kind = "complete" /\ TryAgain(o) /\ UNCHANGED <<remembered, mixed, unseen>>
  <2>1. Tell(o.s, "pending") \/ told' = told
    BY <1>5 DEF TryAgain
  <2>2. /\ (screen' = "orders" /\ shown' = shown /\ sheet' = 0) \/ UNCHANGED phone
        /\ UNCHANGED <<latest, presses, failures, kills>>
    BY <1>1, <1>5 DEF TryAgain, Go, bounds
  <2>3. PhoneTypes
    BY <1>0, <1>5, <2>2 DEF TypeOK, PhoneTypes, phone
  <2>4. ToldAfter
    BY <1>1, <1>5, <2>1 DEF ToldAfter
  <2> QED
    BY <1>1, <1>2, <1>5, <2>3, <2>4 DEF StepPhone, RecordAfter
<1>6. CASE UNCHANGED <<phone, remembered, told, mixed, unseen>>
  <2>1. PhoneTypes
    BY <1>0, <1>1, <1>6, PhoneStill DEF TypeOK, phone, bounds
  <2> QED
    BY <1>1, <1>2, <1>6, <2>1 DEF StepPhone, ToldAfter, RecordAfter
<1>7. CASE ShowError(o, "unknown") /\ UNCHANGED <<phone, remembered, mixed>>
  <2>1. unseen' = unseen /\ (Tell(o.s, "unknown") \/ told' = told)
    BY <1>0, <1>7 DEF ShowError, TypeOK
  <2>2. PhoneTypes
    BY <1>0, <1>1, <1>7, <2>1, PhoneStill DEF TypeOK, phone, bounds
  <2>3. ToldAfter
    BY <1>1, <2>1 DEF ToldAfter
  <2> QED
    BY <1>1, <1>2, <1>7, <2>1, <2>2, <2>3 DEF StepPhone, RecordAfter
<1>8. o.answer \notin {"ok", "notConfirmed"} /\ ~Unknown(o.answer) => o.answer = "refused"
  BY <1>0, <1>1 DEF OpType, Answers, Unknown
<1>9. CASE CompleteAnswered(o)
  BY <1>3, <1>4, <1>5, <1>8, <1>9 DEF CompleteAnswered
<1>10. CASE DismissAnswered(o)
  BY <1>3, <1>4, <1>6, <1>7, <1>8, <1>10 DEF DismissAnswered
<1> QED
  BY <1>9, <1>10

\* The check at a launch and on the return to the foreground.
LEMMA ResumeStep ==
  ASSUME IInv, Settling, ResumeCheck \/ ResumeServed \/ ResumeLost \/ ResumeAnswered
  PROVE  StepPhone
<1>0. TypeOK /\ ResumeInv
  BY DEF IInv
<1>1. CASE ResumeCheck
  <2>1. resume' = [on |-> TRUE, s |-> remembered, answer |-> "none"] /\ remembered \in Sessions
    BY <1>0, <1>1 DEF ResumeCheck, TypeOK
  <2>2. ResumeAfter
    BY <2>1 DEF ResumeAfter, ResumeType, Answers, ResumeInv, Definite
  <2>3. PhoneTypes /\ UNCHANGED <<remembered, told, cashTold, latest, mixed, unseen>>
    BY <1>0, <1>1, PhoneStill DEF ResumeCheck, TypeOK, phone, history, bounds
  <2> QED
    BY <2>2, <2>3 DEF StepPhone, ToldAfter, RecordAfter, CashAfter
<1>2. CASE ResumeServed
  <2>1. PICK answer \in {"ok", "notConfirmed", "refused"} :
          Asked(resume.s, answer) /\ resume' = [resume EXCEPT !.answer = answer]
    BY <1>2 DEF ResumeServed
  <2>2. resume \in ResumeType /\ resume.on /\ resume.s \in Sessions
    BY <1>0, <1>2 DEF TypeOK, ResumeType, ResumeServed, ResumeInv
  <2>3. resume' \in ResumeType /\ resume'.s = resume.s /\ resume'.answer = answer
    BY <2>1, <2>2 DEF ResumeType, Answers
  <2>4. (answer = "ok" => session'[resume.s] = "placed") /\ (answer = "refused" => session'[resume.s] = "refunded")
    BY <2>1, <2>2, AskedSettles
  <2>5. ResumeAfter
    BY <2>2, <2>3, <2>4 DEF ResumeAfter, ResumeInv, Definite
  <2>6. PhoneTypes /\ UNCHANGED <<remembered, told, cashTold, latest, mixed, unseen>>
    BY <1>0, <1>2, PhoneStill DEF ResumeServed, TypeOK, phone, history, bounds
  <2> QED
    BY <2>5, <2>6 DEF StepPhone, ToldAfter, RecordAfter, CashAfter
<1>3. CASE ResumeLost
  <2>1. resume \in ResumeType /\ resume.on /\ resume.s \in Sessions /\ resume' = [resume EXCEPT !.answer = "unknown"]
    BY <1>0, <1>3 DEF TypeOK, ResumeType, ResumeLost, ResumeInv
  <2>2. resume' \in ResumeType /\ resume'.s = resume.s /\ resume'.answer = "unknown"
    BY <2>1 DEF ResumeType, Answers
  <2>3. ResumeAfter
    BY <2>1, <2>2 DEF ResumeAfter, ResumeInv, Definite
  <2>4. PhoneTypes /\ UNCHANGED <<remembered, told, cashTold, latest, mixed, unseen>>
    BY <1>0, <1>3, PhoneStill DEF ResumeLost, TypeOK, phone, history
  <2> QED
    BY <2>3, <2>4 DEF StepPhone, ToldAfter, RecordAfter, CashAfter
<1>4. CASE ResumeAnswered
  <2>1. resume.s \in Sessions /\ Definite(resume.s, resume.answer)
        /\ UNCHANGED <<backend, phone, cashTold, latest, unseen, bounds>>
    BY <1>0, <1>4 DEF ResumeAnswered, ResumeInv
  <2>2. ResumeAfter
    BY <1>4, ResumeKept DEF ResumeAnswered
  <2>3. CASE UNCHANGED <<remembered, told, mixed>>
    <3>1. PhoneTypes
      BY <1>0, <2>1, <2>3, PhoneStill DEF TypeOK, phone, bounds
    <3> QED
      BY <2>1, <2>2, <2>3, <3>1 DEF StepPhone, ToldAfter, RecordAfter, CashAfter
  <2>4. CASE /\ resume.answer \in {"ok", "refused"}
             /\ Forget(resume.s)
             /\ Tell(resume.s, IF resume.answer = "ok" THEN "placed" ELSE "refused")
    <3>1. PICK what \in {"placed", "refused"} :
            /\ Tell(resume.s, what)
            /\ what = "placed" => session'[resume.s] = "placed"
            /\ what = "refused" => session'[resume.s] = "refunded"
      BY <2>1, <2>4 DEF Definite, backend
    <3>2. told'[resume.s] \in Definitely
      BY <1>0, <2>1, <3>1, TellKeeps DEF TypeOK, Definitely
    <3>3. PhoneTypes
      BY <1>0, <2>1, <2>4 DEF TypeOK, PhoneTypes, Forget, phone, bounds
    <3>4. ToldAfter /\ RecordAfter
      BY <2>1, <2>4, <3>1, <3>2 DEF ToldAfter, RecordAfter
    <3> QED
      BY <2>1, <2>2, <3>3, <3>4 DEF StepPhone, CashAfter
  <2> QED
    BY <1>4, <2>3, <2>4 DEF ResumeAnswered
<1> QED
  BY <1>1, <1>2, <1>3, <1>4

LEMMA StepsPhone == ASSUME IInv, [Next]_vars, Settling PROVE StepPhone
<1>0. TypeOK /\ OpsInv /\ \A o \in ops : o \in OpType
  BY DEF IInv, TypeOK, OpType
<1>1. CASE \/ \E s \in Sessions : CustomerPays(s) \/ Capture(s) \/ Webhook(s)
           \/ \E kind \in {"start", "cash"} : PressPay(kind)
           \/ \E o \in ops : Serve(o) \/ Lose(o) \/ Wake(o) \/ CashAnswered(o)
           \/ CancelOrder \/ UNCHANGED vars
  <2>1. /\ UNCHANGED <<phone, remembered, resume, history, kills>>
        /\ presses' = presses \/ (presses < MaxPresses /\ presses' = presses + 1)
        /\ failures' = failures \/ (failures < MaxFailures /\ failures' = failures + 1)
    BY <1>1 DEF CustomerPays, Capture, Webhook, PressPay, Serve, Lose, Wake, CashAnswered, CancelOrder, vars, bounds
  <2>2. PhoneTypes
    BY <1>0, <2>1, PhoneStill DEF TypeOK, phone, history
  <2> QED
    BY <2>1, <2>2, QuietStep DEF history, CashAfter
<1>2. CASE SheetSucceeds \/ SheetDismissed \/ CartRead \/ OpenCheckout \/ Leave \/ Kill \/ \E o \in ops : CancelAnswered(o)
  <2>1. /\ UNCHANGED <<remembered, history, failures>> /\ (UNCHANGED resume \/ resume' = Idle)
        /\ screen' \in {screen, "checkout", "away"} /\ shown' \in {shown, basket} /\ sheet' \in {sheet, 0}
        /\ presses' = presses \/ (presses < MaxPresses /\ presses' = presses + 1)
        /\ kills' = kills \/ (kills < MaxKills /\ kills' = kills + 1)
    BY <1>2 DEF SheetSucceeds, SheetDismissed, CartRead, OpenCheckout, Leave, Kill, CancelAnswered, Go, phone, bounds
  <2>2. PhoneTypes
    BY <1>0, <2>1, PhoneStill DEF TypeOK, history
  <2> QED
    BY <2>1, <2>2, QuietStep DEF history, CashAfter
<1>3. ASSUME NEW o \in ops, CashPayAnswered(o) PROVE StepPhone
  <2>1. /\ UNCHANGED <<remembered, resume, told, latest, mixed, unseen, bounds>>
        /\ screen' \in {screen, "success", "failed"} /\ shown' = shown /\ sheet' \in {sheet, 0}
    BY <1>3 DEF CashPayAnswered, Go, phone
  <2>2. order' = order /\ (o.answer = "ok" => order \in {"confirmed", "cancelled"})
    BY <1>0, <1>3 DEF CashPayAnswered, backend, OpsInv, OpOK
  <2>3. CashAfter
    BY <1>3, <2>2 DEF CashPayAnswered, CashAfter
  <2>4. PhoneTypes
    BY <1>0, <2>1, PhoneStill DEF TypeOK, bounds
  <2> QED
    BY <2>1, <2>3, <2>4, QuietStep
<1>4. ASSUME NEW o \in ops, StartAnswered(o) PROVE StepPhone
  <2>1. /\ UNCHANGED <<screen, shown, resume, told, cashTold, mixed, unseen, bounds>>
        /\ sheet' \in {sheet, o.s} /\ remembered' \in {remembered, o.s} /\ latest' \in {latest, o.s}
        /\ remembered' = latest' \/ UNCHANGED <<remembered, latest>>
    BY <1>4 DEF StartAnswered
  <2>2. o.s \in Sessions \cup {0}
    BY <1>0 DEF OpType
  <2>3. PhoneTypes
    BY <1>0, <2>1, <2>2 DEF TypeOK, PhoneTypes, bounds
  <2> QED
    BY <2>1, <2>3, ResumeKept DEF StepPhone, ToldAfter, RecordAfter, CashAfter
<1> QED
  BY <1>1, <1>2, <1>3, <1>4, AnsweredStep, ResumeStep DEF Next, Answered
-----------------------------------------------------------------------------
LEMMA InitHolds == Init => IInv
<1> SUFFICES ASSUME Init PROVE IInv
  OBVIOUS
<1>1. resume \in ResumeType /\ ops \subseteq OpType
  BY DEF Init, Idle, ResumeType, Answers
<1>2. presses \in 0..MaxPresses /\ failures \in 0..MaxFailures /\ kills \in 0..MaxKills
  BY CheckoutBounds DEF Init
<1>3. TypeOK
  BY <1>1, <1>2 DEF Init, TypeOK, ResumeType, OpType
<1> QED
  BY <1>3 DEF Init, IInv, OpsInv, ResumeInv, Idle, OrderTookBasket, ToldInv, NeverToldFailed, SuccessIsPlaced,
              RememberedUntilAnswered

LEMMA NextHolds == IInv /\ [Next]_vars => IInv'
<1> SUFFICES ASSUME IInv, [Next]_vars PROVE IInv'
  OBVIOUS
<1>1. Settling /\ OpsAfter
  BY StepOps
<1>2. PhoneTypes /\ ToldAfter /\ RecordAfter /\ CashAfter /\ ResumeAfter
  BY <1>1, StepsPhone DEF StepPhone
<1>3. ops' \subseteq OpType /\ OpsInv'
  BY <1>1, OpsKept
<1>4. /\ told' \in [Sessions -> {"nothing", "pending", "unknown", "refused", "placed"}]
      /\ cashTold' \in {"nothing", "failed", "placed"}
      /\ \A t \in Sessions : told[t] \in Definitely => told'[t] \in Definitely
      /\ ToldInv'
  BY <1>1, <1>2, ToldKept
<1>5. RememberedUntilAnswered'
  BY <1>2, <1>4, RecordKept
<1>6. TypeOK'
  BY <1>1, <1>2, <1>3, <1>4 DEF TypeOK, Settling, PhoneTypes, ResumeAfter, ResumeType, OpType, SessionStates
<1> QED
  BY <1>1, <1>2, <1>3, <1>4, <1>5, <1>6 DEF IInv, Settling, ResumeAfter

LEMMA Inductive == Spec => []IInv
BY InitHolds, NextHolds, PTL DEF Spec

\* Whatever is lost, killed or left, every variable of the checkout keeps its type.
THEOREM CheckoutTypeCorrect == Spec => []TypeOK
<1>1. IInv => TypeOK
  BY DEF IInv
<1> QED
  BY <1>1, Inductive, PTL

\* No failure of the network is passed on as a failure of the payment: a customer who was
\* told that it came to nothing has the money back.
THEOREM RefusalAlwaysRefunded == Spec => []NeverToldFailed
<1>1. IInv => NeverToldFailed
  BY DEF IInv, ToldInv
<1> QED
  BY <1>1, Inductive, PTL

\* "Order placed" and "payment received" are only ever said when it is so.
THEOREM SuccessAlwaysPlaced == Spec => []SuccessIsPlaced
<1>1. IInv => SuccessIsPlaced
  BY DEF IInv, ToldInv
<1> QED
  BY <1>1, Inductive, PTL

\* The phone remembers the session it opened last until the customer knows what became of
\* it, except when the record was removed for another session or its answer had no screen.
THEOREM AlwaysRemembered == Spec => []RememberedUntilAnswered
<1>1. IInv => RememberedUntilAnswered
  BY DEF IInv
<1> QED
  BY <1>1, Inductive, PTL

\* Where the money of one session may go in one step.
MayBecome(from, to) ==
  \/ to = from
  \/ from = "none" /\ to = "created"
  \/ from = "created" /\ to = "open"
  \/ from = "open" /\ to = "authorised"
  \/ from = "authorised" /\ to = "captured"
  \/ from = "captured" /\ to \in {"placed", "refunded"}

SessionMoves ==
  \/ session' = session
  \/ \E s \in Sessions, to \in SessionStates :
       session' = [session EXCEPT ![s] = to] /\ MayBecome(session[s], to)

LEMMA FinalizeMoves ==
  ASSUME NEW s \in Sessions, NEW outcome \in {"placed", "refunded"}, Finalize(s, outcome)
  PROVE  SessionMoves
BY DEF Finalize, SessionMoves, MayBecome, SessionStates, Paid

LEMMA AskedMoves ==
  ASSUME NEW s \in Sessions, NEW answer, Asked(s, answer)
  PROVE  SessionMoves
<1>1. CASE \E outcome \in {"placed", "refunded"} : Finalize(s, outcome)
  BY <1>1, FinalizeMoves
<1>2. CASE UNCHANGED backend
  BY <1>2 DEF backend, SessionMoves
<1> QED
  BY <1>1, <1>2 DEF Asked

LEMMA ServedMoves ==
  ASSUME IInv, NEW o \in ops, NEW s \in Sessions \cup {0}, NEW answer \in {"ok", "notConfirmed", "refused"},
         s = 0 => o.kind \notin {"start", "complete", "dismiss"}, Served(o, s, answer)
  PROVE  SessionMoves
<1>0. o \in OpType
  BY DEF IInv, TypeOK, OpType
<1>1. CASE o.kind = "start"
  <2>1. Opened(s, answer) /\ s \in Sessions
    BY <1>1 DEF Served
  <2>2. CASE session[s] = "none" /\ session' = [session EXCEPT ![s] = "created"]
    BY <2>1, <2>2 DEF SessionMoves, MayBecome, SessionStates
  <2>3. CASE \E outcome \in {"placed", "refunded"} : Finalize(s, outcome)
    BY <2>1, <2>3, FinalizeMoves
  <2>4. CASE UNCHANGED backend
    BY <2>4 DEF backend, SessionMoves
  <2> QED
    BY <2>1, <2>2, <2>3, <2>4 DEF Opened
<1>2. CASE o.kind \in {"complete", "dismiss"}
  BY <1>2, AskedMoves DEF Served
<1>3. CASE o.kind \in {"cash", "cashPay", "cancel"}
  <2>1. session' = session
    BY <1>3 DEF Served, Ordered, Attached, Cancelled, backend
  <2> QED
    BY <2>1 DEF SessionMoves
<1> QED
  BY <1>0, <1>1, <1>2, <1>3 DEF OpType

LEMMA StepMoves == ASSUME IInv, [Next]_vars PROVE SessionMoves
<1>0. TypeOK /\ ResumeInv /\ \A o \in ops : o \in OpType
  BY DEF IInv, TypeOK, OpType
<1>1. ASSUME NEW s \in Sessions, CustomerPays(s) \/ Capture(s) PROVE SessionMoves
  BY <1>1 DEF CustomerPays, Capture, SessionMoves, MayBecome, SessionStates, Paid
<1>2. ASSUME NEW s \in Sessions, Webhook(s) PROVE SessionMoves
  BY <1>2, FinalizeMoves DEF Webhook
<1>3. ASSUME NEW o \in ops, Serve(o) PROVE SessionMoves
  BY <1>3, ServedMoves DEF Serve
<1>4. CASE ResumeServed
  BY <1>0, <1>4, AskedMoves DEF ResumeServed, ResumeInv
<1>5. ASSUME NEW o \in ops, StartAnswered(o) PROVE SessionMoves
  <2>1. \/ session' = session
        \/ session' = [session EXCEPT ![o.s] = IF session[o.s] = "created" THEN "open" ELSE session[o.s]]
    BY <1>5 DEF StartAnswered
  <2>2. CASE o.s \in Sessions /\ session[o.s] = "created" /\ session' = [session EXCEPT ![o.s] = "open"]
    BY <2>2 DEF SessionMoves, MayBecome, SessionStates
  <2>3. CASE session' = session
    BY <2>3 DEF SessionMoves
  <2> QED
    BY <1>0, <2>1, <2>2, <2>3 DEF TypeOK, OpType
<1>6. ASSUME NEW o \in ops, CompleteAnswered(o) \/ DismissAnswered(o) \/ CashAnswered(o) \/ CashPayAnswered(o)
                            \/ CancelAnswered(o) \/ Lose(o) \/ Wake(o)
      PROVE  session' = session
  BY <1>6 DEF CompleteAnswered, DismissAnswered, CashAnswered, CashPayAnswered, CancelAnswered, Lose, Wake, backend
<1>7. CASE \/ \E kind \in {"start", "cash"} : PressPay(kind)
           \/ SheetSucceeds \/ SheetDismissed \/ CancelOrder \/ CartRead \/ OpenCheckout \/ Leave \/ Kill
           \/ ResumeCheck \/ ResumeLost \/ ResumeAnswered \/ UNCHANGED vars
  <2>1. session' = session
    BY <1>7 DEF PressPay, SheetSucceeds, SheetDismissed, CancelOrder, CartRead, OpenCheckout, Leave, Kill,
                ResumeCheck, ResumeLost, ResumeAnswered, backend, vars
  <2> QED
    BY <2>1 DEF SessionMoves
<1> QED
  BY <1>1, <1>2, <1>3, <1>4, <1>5, <1>6, <1>7 DEF Next, Answered, SessionMoves

LEMMA MovesArePromised ==
  ASSUME session \in [Sessions -> SessionStates], SessionMoves
  PROVE  [Promise!Next]_(Promise!promiseVars)
<1>1. CASE session' = session
  BY <1>1 DEF Promise!promiseVars, StageOf
<1>2. ASSUME NEW s \in Sessions, NEW to \in SessionStates,
             session' = [session EXCEPT ![s] = to], MayBecome(session[s], to)
      PROVE  [Promise!Next]_(Promise!promiseVars)
  <2>1. session'[s] = to /\ \A r \in Sessions \ {s} : session'[r] = session[r]
    BY <1>2
  <2>2. \A r \in Sessions \ {s} : StageOf(r)' = StageOf(r)
    BY <2>1 DEF StageOf
  <2>3. CASE session[s] = "none" /\ to = "created"
    <3>1. StageOf(s) = "none" /\ StageOf(s)' = "open"
      BY <2>1, <2>3 DEF StageOf
    <3>2. \A r \in Sessions : (session'[r] \in Funded) = (session[r] \in Funded)
      BY <2>1, <2>3 DEF Funded
    <3> QED
      BY <2>1, <2>2, <3>1, <3>2 DEF Promise!Next, Promise!Open, Promise!promiseVars
  <2>4. CASE session[s] = "authorised" /\ to = "captured"
    <3>1. StageOf(s) = "open" /\ StageOf(s)' = "open"
      BY <2>1, <2>4 DEF StageOf
    <3>2. session'[s] \in Funded /\ session[s] \notin Funded
      BY <2>1, <2>4 DEF Funded
    <3> QED
      BY <2>1, <2>2, <3>1, <3>2 DEF Promise!Next, Promise!Fund, Promise!promiseVars
  <2>5. CASE session[s] = "captured" /\ to \in {"placed", "refunded"}
    <3>1. StageOf(s) = "open" /\ StageOf(s)' \in {"ordered", "refused"}
      BY <2>1, <2>5 DEF StageOf
    <3>2. \A r \in Sessions : (session'[r] \in Funded) = (session[r] \in Funded)
      BY <2>1, <2>5 DEF Funded
    <3>3. session[s] \in Funded
      BY <2>5 DEF Funded
    <3> QED
      BY <2>1, <2>2, <3>1, <3>2, <3>3 DEF Promise!Next, Promise!Decide, Promise!promiseVars
  <2>6. CASE to = session[s] \/ (session[s] = "created" /\ to = "open") \/ (session[s] = "open" /\ to = "authorised")
    <3>1. StageOf(s)' = StageOf(s)
      BY <2>1, <2>6 DEF StageOf
    <3>2. \A r \in Sessions : (session'[r] \in Funded) = (session[r] \in Funded)
      BY <2>1, <2>6 DEF Funded
    <3> QED
      BY <2>1, <2>2, <3>1, <3>2 DEF Promise!promiseVars
  <2> QED
    BY <1>2, <2>3, <2>4, <2>5, <2>6 DEF MayBecome
<1> QED
  BY <1>1, <1>2 DEF SessionMoves

\* Whatever the app asks, as often as it likes, and whoever else asks: a session is decided
\* once and only with its money in, as SessionPromise says.  It is all that MobileCheckout
\* takes the backend to do, and what CheckoutSession does where its runs agree.
THEOREM AppKeepsToPromise == Spec => SessionDecidedOnce
<1>1. Init => Promise!Init
  <2> SUFFICES ASSUME Init PROVE Promise!Init
    OBVIOUS
  <2>1. \A s \in Sessions : StageOf(s) = "none" /\ (session[s] \in Funded) = FALSE
    BY DEF Init, StageOf, Funded
  <2> QED
    BY <2>1 DEF Promise!Init
<1>2. IInv /\ [Next]_vars => [Promise!Next]_(Promise!promiseVars)
  BY StepMoves, MovesArePromised DEF IInv, TypeOK, SessionStates
<1> QED
  BY <1>1, <1>2, Inductive, PTL DEF Spec, SessionDecidedOnce, Promise!Spec
-----------------------------------------------------------------------------
(* The cart (MobileCart). *)

CartRow == [id : Int, qty : Int, line : Int]
CartRows == [Variants -> CartRow]
CartCall ==
  [n : Nat \ {0}, kind : Kinds, v : Variants \cup {None}, id : Int, qty : Int,
   before : [taken : BOOLEAN, rows : CartRows], at : {"out", "served", "failed"}, row : CartRow]

\* Everything has its shape, and a call names a variant unless it clears the cart.
CartShape ==
  /\ srv \in CartRows /\ cache \in CartRows /\ loaded \in BOOLEAN
  /\ fetch \in [at : {"none", "out", "answered"}, rows : CartRows]
  /\ nextId \in Nat \ {0} /\ taps \in Nat /\ losses \in Nat
  /\ calls \subseteq CartCall
  /\ \A c \in calls : c.kind # "clear" => c.v \in Variants
  /\ pendingAdds \in [Variants -> Nat] /\ queued \in [Variants -> Nat]
  /\ desiredQty \in [Variants -> Int \cup {None}]
  /\ intent \in [Variants -> Int] /\ crossed \subseteq Variants /\ unsent \subseteq Variants
  /\ owed \in BOOLEAN /\ undone \in BOOLEAN

\* The server's rows have ids, and so has all that came from it.
RowsHaveIds ==
  /\ \A v \in Variants : srv[v].id \in Nat /\ (srv[v] # NoRow => srv[v].id # 0)
  /\ \A v \in Variants : fetch.rows[v].id \in Nat
  /\ \A c \in calls : c.row.id \in Nat

AddOf(v, n) == \E c \in calls : c.kind = "add" /\ c.v = v /\ c.n = n

\* An add that is noted, or that a follower waits for, is out.
NotesHaveAdds ==
  \A v \in Variants :
    /\ pendingAdds[v] # 0 => AddOf(v, pendingAdds[v])
    /\ queued[v] # 0 => AddOf(v, queued[v])

\* When no request is out, the next read brings the cart, or the last one brought it.
ReadIsServers ==
  calls = {} /\ ~owed /\ ~Orphaned =>
    /\ fetch.at = "none" /\ loaded => cache = srv
    /\ fetch.at = "answered" => fetch.rows = srv

CartInv == CartShape /\ RowsHaveIds /\ NotesHaveAdds /\ ReadIsServers

\* A tap is one of four things.
LEMMA TapKinds ==
  ASSUME CartShape, NEW v \in Variants,
         \/ ProductCard(v) \/ ProductScreen(v) \/ HorizontalProductCard(v)
         \/ MiniProductTile(v) \/ CartPageRow(v)
  PROVE  \/ StartAdd(v)
         \/ cache[v] # NoRow /\ \E q \in Int : UpdateItem(v, q)
         \/ cache[v] # NoRow /\ RemoveItem(v)
         \/ cache[v].id = Temporary /\ \E q \in Int : ChangeWhilePending(v, q)
<1>1. cache[v].qty + 1 \in Int /\ cache[v].qty - 1 \in Int
  BY DEF CartShape, CartRows, CartRow
<1>2. cache[v] # NoRow /\ Increment(v) =>
        \/ cache[v] # NoRow /\ \E q \in Int : UpdateItem(v, q)
        \/ cache[v].id = Temporary /\ \E q \in Int : ChangeWhilePending(v, q)
  BY <1>1 DEF Increment
<1>3. cache[v] # NoRow /\ Decrement(v) =>
        \/ cache[v] # NoRow /\ \E q \in Int : UpdateItem(v, q)
        \/ cache[v] # NoRow /\ RemoveItem(v)
        \/ cache[v].id = Temporary /\ \E q \in Int : ChangeWhilePending(v, q)
  BY <1>1 DEF Decrement
<1>4. CartPageRow(v) =>
        \/ cache[v] # NoRow /\ \E q \in Int : UpdateItem(v, q)
        \/ cache[v] # NoRow /\ RemoveItem(v)
  BY <1>1 DEF CartPageRow
<1> QED
  BY <1>2, <1>3, <1>4 DEF ProductCard, ProductScreen, HorizontalProductCard,
     MiniProductTile, Stepper

\* A call goes on under its number.
SameCall(c, d) ==
  d.n = c.n /\ d.kind = c.kind /\ d.v = c.v /\ d.id = c.id /\ d.qty = c.qty /\ d.before = c.before

LEMMA CallGoesOn ==
  ASSUME NEW c \in CartCall, NEW at \in {"out", "served", "failed"}, NEW row \in CartRow
  PROVE  /\ [c EXCEPT !.at = at] \in CartCall /\ SameCall(c, [c EXCEPT !.at = at])
         /\ [c EXCEPT !.at = at].at = at /\ [c EXCEPT !.at = at].row = c.row
         /\ [c EXCEPT !.at = at, !.row = row] \in CartCall /\ SameCall(c, [c EXCEPT !.at = at, !.row = row])
         /\ [c EXCEPT !.at = at, !.row = row].at = at /\ [c EXCEPT !.at = at, !.row = row].row = row
BY DEF CartCall, SameCall

AddServed(c, d) ==
  /\ c.kind = "add" /\ d.at = "served" /\ srv' = [srv EXCEPT ![c.v] = d.row]
  /\ d.row.qty = srv[c.v].qty + c.qty /\ d.row.line = d.row.qty /\ d.row.id \in Nat \ {0}
  /\ nextId' \in Nat \ {0}
  /\ \/ nextId' = nextId /\ d.row.id = srv[c.v].id
     \/ nextId' = nextId + 1 /\ d.row.id = nextId

ChangeServed(c, d) ==
  /\ c.kind \in {"update", "remove", "sync"} /\ d.at = "served" /\ d.row = c.row
  /\ srv[c.v] # NoRow
  /\ srv' = [srv EXCEPT ![c.v] = IF c.qty = 0 THEN NoRow ELSE Row(srv[c.v].id, c.qty)]
  /\ UNCHANGED nextId

ClearServed(c, d) ==
  /\ c.kind = "clear" /\ d.at = "served" /\ d.row = c.row
  /\ srv' = [v \in Variants |-> NoRow] /\ UNCHANGED nextId

NotServed(c, d) ==
  /\ c.kind \in {"update", "remove", "sync"} /\ d.at = "failed" /\ d.row = c.row
  /\ srv[c.v] = NoRow \/ srv[c.v].id # c.id
  /\ UNCHANGED <<srv, nextId>>

LEMMA ServeKinds ==
  ASSUME CartShape, RowsHaveIds, NEW c \in calls, ServeCart(c)
  PROVE  \E d \in CartCall :
           /\ SameCall(c, d) /\ calls' = (calls \ {c}) \cup {d} /\ c.at = "out"
           /\ AddServed(c, d) \/ ChangeServed(c, d) \/ ClearServed(c, d) \/ NotServed(c, d)
<1>1. c \in CartCall
  BY DEF CartShape
<1>2. c.kind \in {"add", "update", "remove", "clear", "sync"} /\ c.row \in CartRow
  BY <1>1 DEF CartCall, Kinds
<1>3. CASE c.kind = "add"
  <2> DEFINE row == IF srv[c.v] = NoRow THEN Row(nextId, c.qty)
                    ELSE Row(srv[c.v].id, srv[c.v].qty + c.qty)
             d == [c EXCEPT !.at = "served", !.row = row]
  <2>1. c.v \in Variants /\ c.qty \in Int /\ srv[c.v] \in CartRow
    BY <1>1, <1>3 DEF CartShape, CartRows, CartCall
  <2>2. /\ row \in CartRow /\ row.qty = srv[c.v].qty + c.qty /\ row.line = row.qty /\ row.id \in Nat \ {0}
        /\ row.id = IF srv[c.v] = NoRow THEN nextId ELSE srv[c.v].id
    BY <2>1 DEF CartRow, CartShape, RowsHaveIds, Row, NoRow
  <2>3. calls' = (calls \ {c}) \cup {d} /\ srv' = [srv EXCEPT ![c.v] = row] /\ c.at = "out"
    BY <1>3 DEF ServeCart
  <2> HIDE DEF row, d
  <2>4. /\ nextId' = IF srv[c.v] = NoRow THEN nextId + 1 ELSE nextId
        /\ nextId' \in Nat \ {0}
    BY <1>3 DEF ServeCart, CartShape
  <2>5. d \in CartCall /\ SameCall(c, d) /\ d.at = "served" /\ d.row = row
    <3>1. row \in CartRow
      BY <2>2
    <3> QED
      BY <1>1, <3>1 DEF d, CartCall, SameCall
  <2>6. AddServed(c, d)
    BY <1>3, <2>2, <2>3, <2>4, <2>5 DEF AddServed
  <2> QED
    BY <2>3, <2>5, <2>6
<1>4. CASE c.kind = "clear"
  <2> DEFINE d == [c EXCEPT !.at = "served"]
  <2>1. calls' = (calls \ {c}) \cup {d} /\ srv' = NoFetch.rows /\ UNCHANGED nextId /\ c.at = "out"
    BY <1>4 DEF ServeCart
  <2>2. d \in CartCall /\ SameCall(c, d) /\ d.at = "served" /\ d.row = c.row
    BY <1>1, <1>2, CallGoesOn
  <2> HIDE DEF d
  <2>3. ClearServed(c, d)
    BY <1>4, <2>1, <2>2 DEF ClearServed, NoFetch
  <2> QED
    BY <2>1, <2>2, <2>3
<1>5. CASE c.kind \in {"update", "remove", "sync"} /\ srv[c.v].id = c.id /\ srv[c.v] # NoRow
  <2> DEFINE d == [c EXCEPT !.at = "served"]
  <2>1. /\ calls' = (calls \ {c}) \cup {d} /\ UNCHANGED nextId /\ c.at = "out"
        /\ srv' = [srv EXCEPT ![c.v] = IF c.qty = 0 THEN NoRow ELSE Row(srv[c.v].id, c.qty)]
    BY <1>5 DEF ServeCart
  <2>2. d \in CartCall /\ SameCall(c, d) /\ d.at = "served" /\ d.row = c.row
    BY <1>1, <1>2, CallGoesOn
  <2> HIDE DEF d
  <2>3. ChangeServed(c, d)
    BY <1>5, <2>1, <2>2 DEF ChangeServed
  <2> QED
    BY <2>1, <2>2, <2>3
<1>6. CASE c.kind \in {"update", "remove", "sync"} /\ ~(srv[c.v].id = c.id /\ srv[c.v] # NoRow)
  <2> DEFINE d == [c EXCEPT !.at = "failed"]
  <2>1. calls' = (calls \ {c}) \cup {d} /\ UNCHANGED <<srv, nextId>> /\ c.at = "out"
    BY <1>6 DEF ServeCart
  <2>2. d \in CartCall /\ SameCall(c, d) /\ d.at = "failed" /\ d.row = c.row
    BY <1>1, <1>2, CallGoesOn
  <2> HIDE DEF d
  <2>3. NotServed(c, d)
    BY <1>6, <2>1, <2>2 DEF NotServed
  <2> QED
    BY <2>1, <2>2, <2>3
<1> QED
  BY <1>2, <1>3, <1>4, <1>5, <1>6

-----------------------------------------------------------------------------
(* The shape. *)

NewCallOK(c) == c \in CartCall /\ (c.kind # "clear" => c.v \in Variants) /\ c.row.id \in Nat

LEMMA NoRowIsRow ==
  /\ NoRow \in CartRow /\ NoRow.id = 0 /\ NoRow.qty = 0
  /\ NoFetch.rows = [v \in Variants |-> NoRow] /\ NoFetch.rows \in CartRows
  /\ NoFetch = [at |-> "none", rows |-> [v \in Variants |-> NoRow]]
  /\ Fetching = [at |-> "out", rows |-> [v \in Variants |-> NoRow]]
BY DEF NoRow, CartRow, CartRows, NoFetch, Fetching

LEMMA RowTypes ==
  \A i, q \in Int : Row(i, q) \in CartRow /\ Row(i, q).id = i /\ Row(i, q).qty = q
BY DEF Row, CartRow

\* The call that a tap sends.
LEMMA CallIsNew ==
  ASSUME CartShape, NEW kind \in {"add", "update", "remove", "clear"}, NEW v \in Variants \cup {None},
         kind # "clear" => v \in Variants, NEW id \in Int, NEW qty \in Int,
         NEW before \in {Snapshot, NoSnapshot}
  PROVE  LET c == Call(kind, v, id, qty, before) IN
         /\ NewCallOK(c) /\ c.kind = kind /\ c.v = v /\ c.n = taps + 1 /\ c.at = "out" /\ c.qty = qty
         /\ c.before = before
<1>1. before \in [taken : BOOLEAN, rows : CartRows]
  <2>1. Snapshot \in [taken : BOOLEAN, rows : CartRows]
    BY DEF Snapshot, CartShape
  <2>2. NoSnapshot \in [taken : BOOLEAN, rows : CartRows]
    BY NoRowIsRow DEF NoSnapshot
  <2> QED
    BY <2>1, <2>2
<1>2. taps + 1 \in Nat \ {0}
  BY DEF CartShape
<1> QED
  BY <1>1, <1>2, NoRowIsRow DEF Call, NewCallOK, CartCall, Kinds

LEMMA ReadShape ==
  ASSUME CartShape,
         Refetch \/ ServeFetch \/ FetchArrives \/ FetchFails
  PROVE  CartShape'
<1>1. losses + 1 \in Nat
  BY DEF CartShape
<1>2. NoFetch \in [at : {"none", "out", "answered"}, rows : CartRows]
  BY NoRowIsRow
<1>3. Fetching \in [at : {"none", "out", "answered"}, rows : CartRows]
  BY NoRowIsRow
<1>4. CASE Refetch
  BY <1>3, <1>4 DEF CartShape, Refetch, tapHistory, notes, lapses
<1>5. CASE ServeFetch
  <2>1. fetch' \in [at : {"none", "out", "answered"}, rows : CartRows]
    BY <1>5 DEF CartShape, ServeFetch
  <2> QED
    BY <1>5, <2>1 DEF CartShape, ServeFetch, tapHistory, notes, lapses
<1>6. CASE FetchArrives
  BY <1>2, <1>6 DEF CartShape, FetchArrives, tapHistory, notes, lapses
<1>7. CASE FetchFails
  BY <1>1, <1>2, <1>7 DEF CartShape, FetchFails, tapHistory, notes, lapses
<1> QED
  BY <1>4, <1>5, <1>6, <1>7

LEMMA MutateShape ==
  ASSUME CartShape, NEW c, NewCallOK(c), NEW rows \in CartRows, Mutate(c, rows)
  PROVE  /\ cache' \in CartRows /\ loaded' \in BOOLEAN /\ srv' \in CartRows
         /\ fetch' \in [at : {"none", "out", "answered"}, rows : CartRows]
         /\ nextId' \in Nat \ {0} /\ losses' \in Nat
         /\ calls' \subseteq CartCall /\ \A d \in calls' : d.kind # "clear" => d.v \in Variants
         /\ owed' \in BOOLEAN /\ undone' \in BOOLEAN /\ unsent' \subseteq Variants
BY NoRowIsRow DEF CartShape, Mutate, NewCallOK, lapses

AsksOK == taps' \in Nat /\ intent' \in [Variants -> Int]

LEMMA AsksShape ==
  ASSUME CartShape, NEW v \in Variants, NEW q \in Int, Asks(v, q)
  PROVE  AsksOK
BY DEF AsksOK, Asks, CartShape

LEMMA AddShape ==
  ASSUME CartShape, NEW v \in Variants, StartAdd(v)
  PROVE  CartShape'
<1>1. intent[v] + 1 \in Int /\ taps + 1 \in Nat
  BY DEF CartShape
<1>2. AsksOK /\ crossed' \subseteq Variants /\ pendingAdds' \in [Variants -> Nat]
  BY <1>1, AsksShape DEF StartAdd, Crosses, CartShape
<1>3. [cache EXCEPT ![v] = Row(Temporary, 1)] \in CartRows
  BY RowTypes DEF CartShape, CartRows, Temporary
<1>4. NewCallOK(Call("add", v, 0, 1, Snapshot)) /\ NewCallOK(Call("add", v, 0, 1, NoSnapshot))
  BY CallIsNew
<1>5. CASE v \in Carded
  BY <1>2, <1>3, <1>4, <1>5, MutateShape DEF StartAdd, CartShape, AsksOK
<1>6. CASE v \notin Carded
  BY <1>2, <1>4, <1>6 DEF StartAdd, CartShape, AsksOK, NewCallOK, cartShown, lapses
<1> QED
  BY <1>5, <1>6

LEMMA UpdateShape ==
  ASSUME CartShape, NEW v \in Variants, NEW q \in Int, UpdateItem(v, q)
  PROVE  CartShape'
<1>1. AsksOK /\ crossed' \subseteq Variants
  BY AsksShape DEF UpdateItem, Crosses, CartShape
<1>2. cache[v] \in CartRow /\ cache[v].id \in Int
  BY DEF CartShape, CartRows, CartRow
<1>3. [cache EXCEPT ![v].qty = q] \in CartRows
  BY <1>2 DEF CartShape, CartRows, CartRow
<1>4. NewCallOK(Call("update", v, cache[v].id, q, Snapshot))
  BY <1>2, CallIsNew
<1> QED
  BY <1>1, <1>3, <1>4, MutateShape DEF UpdateItem, CartShape, AsksOK, notes

LEMMA RemoveShape ==
  ASSUME CartShape, NEW v \in Variants, RemoveItem(v)
  PROVE  CartShape'
<1>1. AsksOK /\ crossed' \subseteq Variants
  BY AsksShape DEF RemoveItem, Crosses, CartShape
<1>2. cache[v] \in CartRow /\ cache[v].id \in Int
  BY DEF CartShape, CartRows, CartRow
<1>3. [cache EXCEPT ![v] = NoRow] \in CartRows
  BY NoRowIsRow DEF CartShape, CartRows
<1>4. NewCallOK(Call("remove", v, cache[v].id, 0, Snapshot))
  BY <1>2, CallIsNew
<1> QED
  BY <1>1, <1>3, <1>4, MutateShape DEF RemoveItem, CartShape, AsksOK, notes

LEMMA ChangeShape ==
  ASSUME CartShape, NEW v \in Variants, NEW q \in Int, ChangeWhilePending(v, q)
  PROVE  CartShape'
<1>1. AsksOK
  BY AsksShape DEF ChangeWhilePending
<1>2. (IF q = 0 THEN NoRow ELSE Row(Temporary, q)) \in CartRow
  BY RowTypes, NoRowIsRow DEF Temporary
<1>3. cache' \in CartRows
  BY <1>2 DEF ChangeWhilePending, CartShape, CartRows
<1>4. desiredQty' \in [Variants -> Int \cup {None}] /\ queued' \in [Variants -> Nat]
  BY DEF ChangeWhilePending, CartShape
<1> QED
  BY <1>1, <1>3, <1>4 DEF ChangeWhilePending, CartShape, AsksOK, lapses

LEMMA ClearShape ==
  ASSUME CartShape, ClearCart
  PROVE  CartShape'
<1>1. taps' \in Nat /\ intent' \in [Variants -> Int] /\ crossed' \subseteq Variants
  BY DEF ClearCart, Crosses, CartShape
<1>2. NewCallOK(Call("clear", None, 0, 0, Snapshot))
  BY CallIsNew
<1> QED
  BY <1>1, <1>2, NoRowIsRow, MutateShape DEF ClearCart, CartShape, notes

LEMMA ServeShape ==
  ASSUME CartShape, RowsHaveIds, NEW c \in calls, ServeCart(c)
  PROVE  CartShape'
<1>1. PICK d \in CartCall :
        /\ SameCall(c, d) /\ calls' = (calls \ {c}) \cup {d}
        /\ AddServed(c, d) \/ ChangeServed(c, d) \/ ClearServed(c, d) \/ NotServed(c, d)
  BY ServeKinds
<1>2. c \in CartCall /\ c.qty \in Int /\ d.row \in CartRow /\ (c.kind # "clear" => c.v \in Variants /\ srv[c.v] \in CartRow)
  BY DEF CartShape, CartCall, CartRows
<1>3. srv' \in CartRows /\ nextId' \in Nat \ {0}
  <2>1. CASE AddServed(c, d)
    BY <1>2, <2>1 DEF AddServed, CartShape, CartRows
  <2>2. CASE ChangeServed(c, d)
    <3>1. srv[c.v].id \in Int
      BY <1>2, <2>2 DEF ChangeServed, CartRow
    <3>2. (IF c.qty = 0 THEN NoRow ELSE Row(srv[c.v].id, c.qty)) \in CartRow
      BY <1>2, <3>1, RowTypes, NoRowIsRow
    <3> QED
      BY <2>2, <3>2 DEF ChangeServed, CartShape, CartRows
  <2>3. CASE ClearServed(c, d) \/ NotServed(c, d)
    BY <2>3, NoRowIsRow DEF ClearServed, NotServed, CartShape, CartRows
  <2> QED
    BY <1>1, <2>1, <2>2, <2>3
<1>4. calls' \subseteq CartCall /\ \A e \in calls' : e.kind # "clear" => e.v \in Variants
  BY <1>1 DEF SameCall, CartShape
<1> QED
  BY <1>3, <1>4 DEF ServeCart, CartShape, cartShown, notes, tapHistory, lapses

\* A request that is lost goes on as a failed one.
LEMMA LoseKind ==
  ASSUME CartShape, NEW c \in calls, LoseCall(c)
  PROVE  \E d \in CartCall : SameCall(c, d) /\ calls' = (calls \ {c}) \cup {d} /\ d.at = "failed" /\ d.row = c.row
<1>1. c \in CartCall /\ c.row \in CartRow
  BY DEF CartShape, CartCall
<1>2. [c EXCEPT !.at = "failed"] \in CartCall /\ SameCall(c, [c EXCEPT !.at = "failed"])
      /\ [c EXCEPT !.at = "failed"].at = "failed" /\ [c EXCEPT !.at = "failed"].row = c.row
  BY <1>1, CallGoesOn
<1> QED
  BY <1>2 DEF LoseCall

LEMMA LoseShape ==
  ASSUME CartShape, NEW c \in calls, LoseCall(c)
  PROVE  CartShape'
<1>1. PICK d \in CartCall : SameCall(c, d) /\ calls' = (calls \ {c}) \cup {d}
  BY LoseKind
<1>2. calls' \subseteq CartCall /\ \A e \in calls' : e.kind # "clear" => e.v \in Variants
  BY <1>1 DEF SameCall, CartShape
<1>3. losses' \in Nat
  BY DEF LoseCall, CartShape
<1> QED
  BY <1>2, <1>3 DEF LoseCall, CartShape, cartShown, notes, tapHistory, lapses

FetchOK == fetch' \in [at : {"none", "out", "answered"}, rows : CartRows] /\ owed' \in BOOLEAN

LEMMA InvalidateShape ==
  ASSUME CartShape, Invalidate \/ InvalidateWhenIdle \/ UNCHANGED <<fetch, owed>>
  PROVE  FetchOK /\ (fetch' = fetch \/ fetch' = Fetching)
<1>1. Fetching \in [at : {"none", "out", "answered"}, rows : CartRows]
  BY NoRowIsRow
<1>2. CASE Invalidate
  BY <1>1, <1>2 DEF CartShape, FetchOK, Invalidate
<1>3. CASE UNCHANGED fetch /\ owed' = (owed \/ Cardinality(Mutations) = 1)
  BY <1>3 DEF CartShape, FetchOK
<1>4. CASE UNCHANGED <<fetch, owed>>
  BY <1>4 DEF CartShape, FetchOK
<1> QED
  BY <1>2, <1>3, <1>4 DEF InvalidateWhenIdle

LEMMA RestoredShape ==
  ASSUME CartShape, NEW c \in calls
  PROVE  Restored(c) \in CartRows
<1>1. c.before \in [taken : BOOLEAN, rows : CartRows]
  BY DEF CartShape, CartCall
<1> QED
  BY <1>1 DEF Restored, CartShape

UndoesOK(c) == undone' = (undone \/ (c.at = "failed" /\ c.before.taken)) /\ undone' \in BOOLEAN

LEMMA SettleShape ==
  ASSUME CartShape, NEW c \in calls, Settle(c)
  PROVE  CartShape'
<1>1. Invalidate \/ InvalidateWhenIdle
  BY DEF Settle
<1>2. FetchOK
  BY <1>1, InvalidateShape
<1>3. cache' \in CartRows
  BY RestoredShape DEF Settle, CartShape
<1>4. undone' \in BOOLEAN
  BY DEF Settle, Undoes
<1> QED
  BY <1>2, <1>3, <1>4 DEF Settle, FetchOK, CartShape, notes, tapHistory

\* The follower that an add leaves, if any.
LEMMA FollowKind ==
  ASSUME CartShape, RowsHaveIds, NEW c \in calls, SettleAdd(c)
  PROVE  \/ Follow(c) = {} /\ calls' = calls \ {c}
         \/ \E d \in CartCall :
              /\ Follow(c) = {d} /\ calls' = (calls \ {c}) \cup {d}
              /\ d.n = c.n /\ d.kind = "sync" /\ d.v = c.v /\ d.id = c.row.id /\ d.qty = desiredQty[c.v]
              /\ d.at = "out" /\ d.row.id = 0 /\ ~d.before.taken
              /\ queued[c.v] = c.n /\ c.at = "served" /\ desiredQty[c.v] \notin {None, 1}
<1>1. calls' = (calls \ {c}) \cup Follow(c) /\ c.kind = "add" /\ c.at # "out"
  BY DEF SettleAdd
<1>2. CASE queued[c.v] # c.n \/ c.at = "failed" \/ desiredQty[c.v] \in {None, 1}
  BY <1>1, <1>2 DEF Follow
<1>3. CASE queued[c.v] = c.n /\ c.at # "failed" /\ desiredQty[c.v] \notin {None, 1}
  <2> DEFINE d == [c EXCEPT !.kind = "sync", !.id = c.row.id, !.qty = desiredQty[c.v],
                           !.before = NoSnapshot, !.at = "out", !.row = NoRow]
  <2>1. c \in CartCall /\ c.row \in CartRow /\ c.v \in Variants
    BY <1>1 DEF CartShape, CartCall
  <2>2. desiredQty[c.v] \in Int /\ c.row.id \in Int
    BY <1>3, <2>1 DEF CartShape, CartRow
  <2>3. NoSnapshot \in [taken : BOOLEAN, rows : CartRows] /\ NoRow \in CartRow /\ NoRow.id = 0
        /\ ~NoSnapshot.taken
    BY NoRowIsRow DEF NoSnapshot
  <2>4. /\ d \in CartCall /\ d.n = c.n /\ d.kind = "sync" /\ d.v = c.v /\ d.id = c.row.id
        /\ d.qty = desiredQty[c.v] /\ d.at = "out" /\ d.row.id = 0 /\ ~d.before.taken
    BY <2>1, <2>2, <2>3 DEF CartCall, Kinds
  <2>5. Follow(c) = {d}
    BY <1>3 DEF Follow
  <2> HIDE DEF d
  <2>6. c.at = "served"
    BY <1>1, <1>3, <2>1 DEF CartCall
  <2> QED
    BY <1>1, <1>3, <2>4, <2>5, <2>6
<1> QED
  BY <1>2, <1>3

\* What the answer of an add does to the row shown.
LEMMA SwappedRow ==
  ASSUME CartShape, RowsHaveIds, NEW c \in calls, c.kind = "add"
  PROVE  Swapped(c) \in CartRow /\ Swapped(c).id \in Nat
<1>1. c.row \in CartRow /\ c.row.id \in Nat /\ c.v \in Variants
  BY DEF CartShape, CartCall, RowsHaveIds
<1>2. desiredQty[c.v] # None => desiredQty[c.v] \in Int
  BY <1>1 DEF CartShape
<1>3. desiredQty[c.v] # None =>
        Row(c.row.id, desiredQty[c.v]) \in CartRow /\ Row(c.row.id, desiredQty[c.v]).id \in Nat
  BY <1>1, <1>2, RowTypes
<1> QED
  BY <1>1, <1>3, NoRowIsRow DEF Swapped

LEMMA SettleAddShape ==
  ASSUME CartShape, RowsHaveIds, NEW c \in calls, SettleAdd(c)
  PROVE  CartShape'
<1>1. c.kind = "add" /\ c.v \in Variants
  BY DEF SettleAdd, CartShape
<1>2. Invalidate \/ InvalidateWhenIdle \/ UNCHANGED <<fetch, owed>>
  BY DEF SettleAdd
<1>3. FetchOK
  BY <1>2, InvalidateShape
<1>4. cache' \in CartRows
  <2>1. [cache EXCEPT ![c.v] = Swapped(c)] \in CartRows
    BY <1>1, SwappedRow DEF CartShape, CartRows
  <2> QED
    BY <2>1, RestoredShape DEF SettleAdd, CartShape
<1>5. undone' \in BOOLEAN /\ unsent' \subseteq Variants
  BY <1>1 DEF SettleAdd, Undoes, KeepsMore, CartShape
<1>6. calls' \subseteq CartCall /\ \A e \in calls' : e.kind # "clear" => e.v \in Variants
  BY <1>1, FollowKind DEF CartShape
<1>7. /\ pendingAdds' \in [Variants -> Nat] /\ queued' \in [Variants -> Nat]
      /\ desiredQty' \in [Variants -> Int \cup {None}]
  BY DEF SettleAdd, CartShape
<1> QED
  BY <1>3, <1>4, <1>5, <1>6, <1>7 DEF SettleAdd, FetchOK, CartShape, tapHistory

LEMMA SettleSyncShape ==
  ASSUME CartShape, NEW c \in calls, SettleSync(c)
  PROVE  CartShape'
<1>1. FetchOK
  BY InvalidateShape DEF SettleSync
<1> QED
  BY <1>1 DEF SettleSync, FetchOK, CartShape, notes, tapHistory, lapses

-----------------------------------------------------------------------------
(* The cart that is shown when all is quiet. *)

\* A call that goes on keeps what is said of it.
LEMMA AddsGoOn ==
  ASSUME NEW c \in calls, NEW d, SameCall(c, d), calls' = (calls \ {c}) \cup {d}, NotesHaveAdds,
         UNCHANGED <<pendingAdds, queued>>
  PROVE  NotesHaveAdds' /\ calls' # {}
BY DEF SameCall, NotesHaveAdds, AddOf

\* No more requests are out than were, and no note is new.
LEMMA AddsStay ==
  ASSUME calls \subseteq calls', NotesHaveAdds, UNCHANGED <<pendingAdds, queued>>
  PROVE  NotesHaveAdds'
BY DEF NotesHaveAdds, AddOf

LEMMA FetchingIsOut == Fetching.at = "out" /\ \A v \in Variants : Fetching.rows[v].id = 0
BY NoRowIsRow

LEMMA ReadKeeps ==
  ASSUME CartInv, Refetch \/ ServeFetch \/ FetchArrives \/ FetchFails
  PROVE  CartInv'
<1>1. CartShape'
  BY ReadShape DEF CartInv
<1>2. UNCHANGED <<srv, calls, pendingAdds, queued, desiredQty>>
  BY DEF Refetch, ServeFetch, FetchArrives, FetchFails, notes
<1>3. NotesHaveAdds'
  BY <1>2, AddsStay DEF CartInv
<1>4. Orphaned' = Orphaned
  BY <1>2 DEF Orphaned
<1>5. RowsHaveIds'
  <2>1. \A v \in Variants : NoFetch.rows[v].id = 0 /\ Fetching.rows[v].id = 0
    BY NoRowIsRow
  <2> QED
    BY <1>2, <2>1 DEF CartInv, RowsHaveIds, Refetch, ServeFetch, FetchArrives, FetchFails
<1>6. ReadIsServers'
  <2>1. CASE Refetch
    BY <1>2, <1>4, <2>1, FetchingIsOut DEF ReadIsServers, Refetch
  <2>2. CASE ServeFetch
    BY <1>2, <1>4, <2>2 DEF CartInv, ReadIsServers, ServeFetch
  <2>3. CASE FetchArrives
    <3>1. fetch'.at = "none"
      BY <2>3, NoRowIsRow DEF FetchArrives
    <3> QED
      BY <1>2, <1>4, <2>3, <3>1 DEF CartInv, ReadIsServers, FetchArrives
  <2>4. CASE FetchFails
    BY <2>4 DEF ReadIsServers, FetchFails
  <2> QED
    BY <2>1, <2>2, <2>3, <2>4
<1> QED
  BY <1>1, <1>3, <1>5, <1>6 DEF CartInv

\* A tap that sends a request leaves nothing to show.
LEMMA TapSends ==
  ASSUME CartInv, NEW c, NewCallOK(c), calls' = calls \cup {c}, srv' = srv,
         fetch' = fetch \/ fetch' = NoFetch
  PROVE  RowsHaveIds' /\ calls' # {} /\ ReadIsServers'
<1>1. \A v \in Variants : NoFetch.rows[v].id = 0
  BY NoRowIsRow
<1> QED
  BY <1>1 DEF NewCallOK, CartInv, RowsHaveIds, ReadIsServers

LEMMA AddKeeps ==
  ASSUME CartInv, NEW v \in Variants, StartAdd(v)
  PROVE  CartInv'
<1> DEFINE S == Call("add", v, 0, 1, Snapshot)
           N == Call("add", v, 0, 1, NoSnapshot)
<1>1. CartShape'
  BY AddShape DEF CartInv
<1>2. /\ NewCallOK(S) /\ S.kind = "add" /\ S.v = v /\ S.n = taps + 1
      /\ NewCallOK(N) /\ N.kind = "add" /\ N.v = v /\ N.n = taps + 1
  BY CallIsNew DEF CartInv
<1> HIDE DEF S, N
<1>3. PICK c \in {S, N} : calls' = calls \cup {c}
  BY DEF S, N, StartAdd, Mutate
<1>4. srv' = srv /\ (fetch' = fetch \/ fetch' = NoFetch)
  BY DEF StartAdd, Mutate, cartShown
<1>5. RowsHaveIds' /\ ReadIsServers'
  BY <1>2, <1>3, <1>4, TapSends
<1>6. NotesHaveAdds'
  <2>1. pendingAdds' = [pendingAdds EXCEPT ![v] = taps + 1] /\ queued' = queued
    BY DEF StartAdd
  <2>0. PICK n \in Nat : n = taps + 1
    BY DEF CartInv, CartShape
  <2>2. c \in calls' /\ c.kind = "add" /\ c.v = v /\ c.n = n
    BY <1>2, <1>3, <2>0
  <2>3. \A w, m : AddOf(w, m) => AddOf(w, m)'
    BY <1>3 DEF AddOf
  <2>4. AddOf(v, n)'
    BY <2>2 DEF AddOf
  <2>5. pendingAdds' = [pendingAdds EXCEPT ![v] = n]
    BY <2>0, <2>1
  <2> QED
    BY <2>1, <2>3, <2>4, <2>5 DEF CartInv, CartShape, NotesHaveAdds
<1> QED
  BY <1>1, <1>5, <1>6 DEF CartInv

LEMMA SendKeeps ==
  ASSUME CartInv,
         \/ \E v \in Variants, q \in Int : UpdateItem(v, q)
         \/ \E v \in Variants : RemoveItem(v)
         \/ ClearCart
  PROVE  CartInv'
<1>1. CartShape'
  BY UpdateShape, RemoveShape, ClearShape DEF CartInv
<1>2. \A v \in Variants : cache[v].id \in Int
  BY DEF CartInv, CartShape, CartRows, CartRow
<1>3. PICK c : NewCallOK(c) /\ calls' = calls \cup {c}
  <2>1. ASSUME NEW v \in Variants, NEW q \in Int, UpdateItem(v, q)
        PROVE  \E c : NewCallOK(c) /\ calls' = calls \cup {c}
    <3>1. NewCallOK(Call("update", v, cache[v].id, q, Snapshot))
      BY <1>2, CallIsNew DEF CartInv
    <3> QED
      BY <2>1, <3>1 DEF UpdateItem, Mutate
  <2>2. ASSUME NEW v \in Variants, RemoveItem(v)
        PROVE  \E c : NewCallOK(c) /\ calls' = calls \cup {c}
    <3>1. NewCallOK(Call("remove", v, cache[v].id, 0, Snapshot))
      BY <1>2, CallIsNew DEF CartInv
    <3> QED
      BY <2>2, <3>1 DEF RemoveItem, Mutate
  <2>3. ASSUME ClearCart
        PROVE  \E c : NewCallOK(c) /\ calls' = calls \cup {c}
    <3>1. NewCallOK(Call("clear", None, 0, 0, Snapshot))
      BY CallIsNew DEF CartInv
    <3> QED
      BY <2>3, <3>1 DEF ClearCart, Mutate
  <2> QED
    BY <2>1, <2>2, <2>3
<1>4. srv' = srv /\ fetch' = NoFetch /\ UNCHANGED <<pendingAdds, queued>>
  BY DEF UpdateItem, RemoveItem, ClearCart, Mutate, notes
<1>5. RowsHaveIds' /\ ReadIsServers'
  BY <1>3, <1>4, TapSends
<1>6. NotesHaveAdds'
  BY <1>3, <1>4, AddsStay DEF CartInv
<1> QED
  BY <1>1, <1>5, <1>6 DEF CartInv

\* A tap on a row whose add is over leaves a note that nobody will bring.
LEMMA ChangeKeeps ==
  ASSUME CartInv, None \notin Int, NEW v \in Variants, NEW q \in Int, ChangeWhilePending(v, q)
  PROVE  CartInv'
<1>1. CartShape'
  BY ChangeShape DEF CartInv
<1>2. UNCHANGED <<srv, fetch, owed, loaded, calls, pendingAdds>> /\ desiredQty' = [desiredQty EXCEPT ![v] = q]
  BY DEF ChangeWhilePending
<1>3. queued' = queued \/ queued' = [queued EXCEPT ![v] = pendingAdds[v]]
  BY DEF ChangeWhilePending
<1>4. RowsHaveIds'
  BY <1>2 DEF CartInv, RowsHaveIds
<1>5. NotesHaveAdds'
  BY <1>2, <1>3 DEF CartInv, CartShape, NotesHaveAdds, AddOf
<1>6. calls = {} => Orphaned'
  <2>1. ASSUME calls = {} PROVE queued[v] = 0 /\ pendingAdds[v] = 0
    BY <2>1 DEF CartInv, NotesHaveAdds, AddOf
  <2>2. ASSUME calls = {} PROVE queued'[v] = 0
    BY <1>3, <2>1, <2>2 DEF CartInv, CartShape
  <2>3. desiredQty'[v] # None
    BY <1>2 DEF CartInv, CartShape
  <2> QED
    BY <2>2, <2>3 DEF Orphaned
<1>7. ReadIsServers'
  BY <1>2, <1>6 DEF ReadIsServers
<1> QED
  BY <1>1, <1>4, <1>5, <1>7 DEF CartInv

LEMMA ServeKeeps ==
  ASSUME CartInv, NEW c \in calls, ServeCart(c) \/ LoseCall(c)
  PROVE  CartInv'
<1>1. CartShape'
  BY ServeShape, LoseShape DEF CartInv
<1>2. UNCHANGED <<pendingAdds, queued, fetch>>
  BY DEF ServeCart, LoseCall, notes, cartShown
<1>3. ASSUME NEW d \in CartCall, SameCall(c, d), calls' = (calls \ {c}) \cup {d}
      PROVE  NotesHaveAdds' /\ ReadIsServers'
  BY <1>2, <1>3, AddsGoOn DEF CartInv, ReadIsServers
<1>4. c.row.id \in Nat /\ c \in CartCall
  BY DEF CartInv, CartShape, RowsHaveIds
<1>5. CASE ServeCart(c)
  <2>1. PICK d \in CartCall :
          /\ SameCall(c, d) /\ calls' = (calls \ {c}) \cup {d}
          /\ AddServed(c, d) \/ ChangeServed(c, d) \/ ClearServed(c, d) \/ NotServed(c, d)
    BY <1>5, ServeKinds DEF CartInv
  <2>2. c.kind # "clear" => c.v \in Variants
    BY DEF CartInv, CartShape
  <2>3. c.qty \in Int
    BY <1>4 DEF CartCall
  <2>4. \A v \in Variants : srv'[v].id \in Nat /\ (srv'[v] # NoRow => srv'[v].id # 0)
    <3>1. CASE AddServed(c, d)
      BY <2>2, <3>1 DEF AddServed, CartInv, CartShape, CartRows, RowsHaveIds
    <3>2. CASE ChangeServed(c, d)
      <4> DEFINE row == IF c.qty = 0 THEN NoRow ELSE Row(srv[c.v].id, c.qty)
      <4>1. c.v \in Variants /\ srv[c.v].id \in Nat \ {0}
        BY <2>2, <3>2 DEF ChangeServed, CartInv, RowsHaveIds
      <4>2. row.id \in Nat /\ (row # NoRow => row.id # 0)
        BY <2>3, <4>1, NoRowIsRow, RowTypes
      <4> HIDE DEF row
      <4>3. srv' = [srv EXCEPT ![c.v] = row]
        BY <3>2 DEF ChangeServed, row
      <4> QED
        BY <4>1, <4>2, <4>3 DEF CartInv, CartShape, CartRows, RowsHaveIds
    <3>3. CASE ClearServed(c, d) \/ NotServed(c, d)
      BY <3>3, NoRowIsRow DEF ClearServed, NotServed, CartInv, RowsHaveIds
    <3> QED
      BY <2>1, <3>1, <3>2, <3>3
  <2>5. d.row.id \in Nat
    BY <1>4, <2>1 DEF AddServed, ChangeServed, ClearServed, NotServed
  <2>6. RowsHaveIds'
    BY <1>2, <2>1, <2>4, <2>5 DEF CartInv, RowsHaveIds
  <2> QED
    BY <1>1, <1>3, <2>1, <2>6 DEF CartInv
<1>6. CASE LoseCall(c)
  <2>1. PICK d \in CartCall : SameCall(c, d) /\ calls' = (calls \ {c}) \cup {d} /\ d.row = c.row
    BY <1>6, LoseKind DEF CartInv
  <2>2. RowsHaveIds'
    BY <1>2, <1>4, <1>6, <2>1 DEF CartInv, RowsHaveIds, LoseCall
  <2> QED
    BY <1>1, <1>3, <2>1, <2>2 DEF CartInv
<1> QED
  BY <1>5, <1>6

\* The last answer reads the cart again, or leaves a trace that it did not.
LEMMA LastReads ==
  ASSUME CartShape, NEW c \in calls, calls \ {c} = {}, c.kind # "sync",
         Invalidate \/ InvalidateWhenIdle
  PROVE  fetch' = Fetching \/ owed'
<1>1. Mutations = {c}
  BY DEF Mutations
<1>2. Cardinality(Mutations) = 1
  BY <1>1, FS_Singleton
<1> QED
  BY <1>2 DEF Invalidate, InvalidateWhenIdle, CartShape

LEMMA SettleKeeps ==
  ASSUME CartInv, NEW c \in calls, Settle(c) \/ SettleSync(c)
  PROVE  CartInv'
<1>1. CartShape'
  BY SettleShape, SettleSyncShape DEF CartInv
<1>2. /\ calls' = calls \ {c} /\ c.kind # "add" /\ UNCHANGED <<srv, pendingAdds, queued>>
      /\ Invalidate \/ InvalidateWhenIdle
  BY DEF Settle, SettleSync, notes
<1>3. NotesHaveAdds'
  BY <1>2 DEF CartInv, NotesHaveAdds, AddOf
<1>4. RowsHaveIds'
  BY <1>2, InvalidateShape, FetchingIsOut DEF CartInv, RowsHaveIds
<1>5. calls' = {} => fetch' = Fetching \/ owed'
  <2>1. CASE Settle(c)
    BY <1>2, <2>1, LastReads DEF CartInv, Settle
  <2>2. CASE SettleSync(c)
    BY <2>2 DEF SettleSync, Invalidate
  <2> QED
    BY <2>1, <2>2
<1>6. ReadIsServers'
  BY <1>5, FetchingIsOut DEF ReadIsServers
<1> QED
  BY <1>1, <1>3, <1>4, <1>6 DEF CartInv

LEMMA SettleAddKeeps ==
  ASSUME CartInv, NEW c \in calls, SettleAdd(c)
  PROVE  CartInv'
<1>1. CartShape'
  BY SettleAddShape DEF CartInv
<1>2. c.kind = "add" /\ c.v \in Variants /\ c.n \in Nat \ {0} /\ srv' = srv
  BY DEF SettleAdd, CartInv, CartShape, CartCall
<1>3. calls \ {c} \subseteq calls'
  BY DEF SettleAdd
<1>4. /\ pendingAdds' = [pendingAdds EXCEPT ![c.v] = 0]
      /\ IF queued[c.v] = c.n THEN queued' = [queued EXCEPT ![c.v] = 0]
         ELSE UNCHANGED <<desiredQty, queued>>
  BY DEF SettleAdd
<1>5. NotesHaveAdds'
  <2>1. \A v \in Variants : \A n : AddOf(v, n) /\ (v # c.v \/ n # c.n) => AddOf(v, n)'
    BY <1>3 DEF AddOf
  <2>2. \A v \in Variants : pendingAdds'[v] # 0 => v # c.v /\ pendingAdds'[v] = pendingAdds[v]
    BY <1>4 DEF CartInv, CartShape
  <2>3. \A v \in Variants : queued'[v] # 0 => (v # c.v \/ queued[v] # c.n) /\ queued'[v] = queued[v]
    BY <1>4 DEF CartInv, CartShape
  <2> QED
    BY <2>1, <2>2, <2>3 DEF CartInv, NotesHaveAdds
<1>6. RowsHaveIds'
  <2>1. fetch' = fetch \/ fetch' = Fetching
    BY InvalidateShape DEF CartInv, SettleAdd
  <2>2. \A e \in calls' : e.row.id \in Nat
    BY FollowKind DEF CartInv, RowsHaveIds
  <2> QED
    BY <1>2, <2>1, <2>2, FetchingIsOut DEF CartInv, RowsHaveIds
<1>7. calls' = {} => fetch' = Fetching \/ owed' \/ Orphaned'
  <2> SUFFICES ASSUME calls' = {} PROVE fetch' = Fetching \/ owed' \/ Orphaned'
    OBVIOUS
  <2>1. Follow(c) = {} /\ calls \ {c} = {}
    BY DEF SettleAdd
  <2>2. CASE queued[c.v] = c.n
    BY <2>1, <2>2 DEF SettleAdd, Invalidate
  <2>3. CASE queued[c.v] # c.n /\ desiredQty[c.v] # None
    <3>1. queued[c.v] = 0
      BY <1>2, <2>1, <2>3 DEF CartInv, NotesHaveAdds, AddOf
    <3> QED
      BY <1>2, <1>4, <2>3, <3>1 DEF Orphaned
  <2>4. CASE queued[c.v] # c.n /\ desiredQty[c.v] = None
    BY <1>2, <2>1, <2>4, LastReads DEF CartInv, SettleAdd
  <2> QED
    BY <2>2, <2>3, <2>4
<1>8. ReadIsServers'
  BY <1>7, FetchingIsOut DEF ReadIsServers
<1> QED
  BY <1>1, <1>5, <1>6, <1>8 DEF CartInv

\* The rows there are at first are numbered.
LEMMA FirstRows ==
  ASSUME IsFiniteSet(Variants)
  PROVE  /\ Cardinality(Variants) \in Nat /\ Numbering \in [Variants -> Nat \ {0}]
         /\ Numbering \in [Variants -> 1..Cardinality(Variants)]
<1>1. Cardinality(Variants) \in Nat
  BY FS_CardinalityType
<1>2. PICK n \in Nat : n = Cardinality(Variants) /\ ExistsBijection(1..n, Variants)
  BY FS_CardinalityType
<1>3. PICK f \in Bijection(Variants, 1..n) : TRUE
  BY <1>2, Fun_ExistsBijSymmetric, Fun_ExistsBij
<1>4. f \in [Variants -> 1..n] /\ \A v, w \in Variants : f[v] = f[w] => v = w
  BY <1>3 DEF Bijection, Injection, IsInjective
<1>5. Numbering \in [Variants -> 1..n]
  BY <1>2, <1>4 DEF Numbering
<1> QED
  BY <1>1, <1>2, <1>5

LEMMA CartStarts ==
  ASSUME IsFiniteSet(Variants), CartInit
  PROVE  CartInv
<1>1. \A v \in Variants : Row(Numbering[v], 1) \in CartRow /\ Row(Numbering[v], 1).id \in Nat \ {0}
  BY FirstRows, RowTypes
<1>2. \A v \in Variants : srv[v] \in CartRow /\ srv[v].id \in Nat /\ (srv[v] # NoRow => srv[v].id # 0)
  BY <1>1, NoRowIsRow DEF CartInit
<1>3. srv \in CartRows
  <2>1. \E had \in SUBSET Variants :
          srv = [v \in Variants |-> IF v \in had THEN Row(Numbering[v], 1) ELSE NoRow]
    BY DEF CartInit
  <2> QED
    BY <1>2, <2>1 DEF CartRows
<1>4. cache \in CartRows /\ (loaded => cache = srv)
  BY <1>3, NoRowIsRow DEF CartInit
<1>5. /\ fetch \in [at : {"none", "out", "answered"}, rows : CartRows]
      /\ fetch.at # "answered" /\ \A v \in Variants : fetch.rows[v].id = 0
  BY NoRowIsRow DEF CartInit
<1>6. nextId \in Nat \ {0}
  BY FirstRows DEF CartInit
<1>7. intent \in [Variants -> Int]
  BY <1>2 DEF CartInit, CartRow
<1>8. CartShape
  BY <1>3, <1>4, <1>5, <1>6, <1>7 DEF CartInit, CartShape
<1>9. RowsHaveIds /\ NotesHaveAdds /\ ReadIsServers
  BY <1>2, <1>4, <1>5 DEF CartInit, RowsHaveIds, NotesHaveAdds, ReadIsServers
<1> QED
  BY <1>8, <1>9 DEF CartInv

LEMMA CartSteps ==
  ASSUME None \notin Int, CartInv, [CartNext]_cartVars
  PROVE  CartInv'
<1>1. CASE Refetch \/ ServeFetch \/ FetchArrives \/ FetchFails
  BY <1>1, ReadKeeps
<1>2. CASE ClearCart
  BY <1>2, SendKeeps
<1>3. ASSUME NEW v \in Variants,
             \/ ProductCard(v) \/ ProductScreen(v) \/ HorizontalProductCard(v)
             \/ MiniProductTile(v) \/ CartPageRow(v)
      PROVE  CartInv'
  <2>1. \/ StartAdd(v)
        \/ \E q \in Int : UpdateItem(v, q)
        \/ RemoveItem(v)
        \/ \E q \in Int : ChangeWhilePending(v, q)
    BY <1>3, TapKinds DEF CartInv
  <2> QED
    BY <2>1, AddKeeps, SendKeeps, ChangeKeeps
<1>4. ASSUME NEW c \in calls,
             ServeCart(c) \/ LoseCall(c) \/ Settle(c) \/ SettleAdd(c) \/ SettleSync(c)
      PROVE  CartInv'
  BY <1>4, ServeKeeps, SettleKeeps, SettleAddKeeps
<1>5. CASE UNCHANGED cartVars
  BY <1>5 DEF CartInv, CartShape, RowsHaveIds, NotesHaveAdds, AddOf, ReadIsServers, Orphaned, cartVars,
     cartShown, notes, tapHistory, lapses
<1> QED
  BY <1>1, <1>2, <1>3, <1>4, <1>5 DEF CartNext

\* When everything has been answered the app shows the server's cart, for any taps, losses and
\* products, but where a read that should have followed was not made or a note was left behind.
THEOREM CartAlwaysSettles == CartSpec => []SettledCartIsServers
<1>1. CartInit => CartInv
  BY CartStarts, CartAssumption
<1>2. CartInv /\ [CartNext]_cartVars => CartInv'
  BY CartSteps, CartAssumption
<1>3. CartInv => SettledCartIsServers
  BY DEF CartInv, ReadIsServers, SettledCartIsServers, Quiet
<1> QED
  BY <1>1, <1>2, <1>3, PTL DEF CartSpec

-----------------------------------------------------------------------------
(* Every tap arrives. *)

Good == losses = 0 /\ ~undone

\* What each request is for, and that only a lost one can fail to add or to clear.
CallsKnow ==
  /\ ~loaded => \A v \in Variants : cache[v] = NoRow
  /\ \A c \in calls :
       /\ c.kind = "add" => c.qty = 1
       /\ c.kind = "clear" => c.qty = 0
       /\ c.kind \in {"update", "remove"} => c.before.taken
       /\ c.before.taken => loaded
       /\ c.kind \in {"add", "clear"} /\ c.at = "failed" => losses # 0

\* Requests of a variant that never crossed are out one at a time.
OneAtATime == \A v \in Variants \ crossed : \A c, d \in About(v) : c = d

\* The add that is noted is the one that is out.
NotedIsOut ==
  \A v \in Variants \ crossed : \A c \in calls : c.kind = "add" /\ c.v = v => pendingAdds[v] = c.n

AddTaken(v) == \E c \in calls : c.kind = "add" /\ c.v = v /\ c.before.taken

\* A row without an id was put there by an add that is out and took a snapshot; a quantity that is
\* noted waits for the add that is out.
RowsWait ==
  ~undone =>
    /\ \A v \in Variants : cache[v].id = Temporary => AddTaken(v)
    /\ \A v \in Variants \ crossed : desiredQty[v] # None => AddOf(v, queued[v])

\* A request, against the server's row, the quantity asked for last and the one noted.
Fits(c, row, want, noted) ==
  /\ c.kind = "add" =>
       /\ c.at # "failed"
       /\ noted # None => want = noted
       /\ noted = None /\ c.at = "out" => want = row.qty + 1
       /\ noted = None /\ c.at = "served" => want = row.qty
       /\ c.at = "served" => c.row = row /\ row.id # 0
  /\ c.kind # "add" =>
       /\ c.at # "failed" => want = c.qty
       /\ c.at = "served" => row.qty = c.qty
  /\ c.kind = "sync" => c.at # "failed" /\ (c.at = "out" => row # NoRow /\ row.id = c.id)

VariantOK(v) ==
  /\ About(v) = {} => srv[v].qty = intent[v]
  /\ \A c \in About(v) : Fits(c, srv[v], intent[v], desiredQty[v])

TapsOK == Good => \A v \in Variants \ (crossed \cup unsent) : VariantOK(v)

TapsInv == CartInv /\ CallsKnow /\ OneAtATime /\ NotedIsOut /\ RowsWait /\ TapsOK

\* All but what CartInv and RowsWait say.
TapsRest == CallsKnow /\ OneAtATime /\ NotedIsOut /\ TapsOK

\* Neither the server's row of v, nor what was asked or noted of it, nor its requests change.
Aside(v) ==
  /\ srv'[v] = srv[v] /\ intent'[v] = intent[v] /\ desiredQty'[v] = desiredQty[v]
  /\ About(v)' = About(v)

LEMMA AsideKeeps == ASSUME NEW v \in Variants, VariantOK(v), Aside(v) PROVE VariantOK(v)'
BY DEF VariantOK, Aside

\* A new request: alone, or crossed.
LEMMA NewAlone ==
  ASSUME OneAtATime, crossed \subseteq Variants, NEW c, calls' = calls \cup {c},
         NEW vs \in SUBSET Variants, Crosses(vs),
         \A v \in Variants : (c.v = v \/ c.kind = "clear") <=> v \in vs
  PROVE  /\ OneAtATime' /\ crossed \subseteq crossed'
         /\ \A v \in vs \ crossed' : About(v) = {} /\ About(v)' = {c}
         /\ \A v \in Variants \ vs : About(v)' = About(v)
<1>1. crossed' = crossed \cup {v \in vs : About(v) # {}}
  BY DEF Crosses
<1>2. \A v \in vs \ crossed' : About(v) = {} /\ About(v)' = {c}
  BY <1>1 DEF About
<1>3. \A v \in Variants \ vs : About(v)' = About(v)
  BY DEF About
<1>4. OneAtATime'
  BY <1>1, <1>2, <1>3 DEF OneAtATime
<1> QED
  BY <1>1, <1>2, <1>3, <1>4

\* A request goes on as another of the same variant.
LEMMA NextAlone ==
  ASSUME OneAtATime, NEW c \in calls, NEW d, d.v = c.v, d.kind = "clear" <=> c.kind = "clear",
         calls' = (calls \ {c}) \cup {d}, crossed' = crossed
  PROVE  /\ OneAtATime'
         /\ \A v \in Variants \ crossed :
              IF c \in About(v) THEN About(v) = {c} /\ About(v)' = {d}
              ELSE About(v)' = About(v) /\ c.v # v /\ c.kind # "clear"
<1>1. \A v \in Variants \ crossed :
        IF c \in About(v) THEN About(v) = {c} /\ About(v)' = {d}
        ELSE About(v)' = About(v) /\ c.v # v /\ c.kind # "clear"
  <2> TAKE v \in Variants \ crossed
  <2>1. CASE c \in About(v)
    <3>1. About(v) = {c}
      BY <2>1 DEF OneAtATime
    <3>2. About(v)' = {d}
      BY <2>1, <3>1 DEF About
    <3> QED
      BY <2>1, <3>1, <3>2
  <2>2. CASE c \notin About(v)
    BY <2>2 DEF About
  <2> QED
    BY <2>1, <2>2
<1> QED
  BY <1>1 DEF OneAtATime

LEMMA EndAlone ==
  ASSUME OneAtATime, NEW c \in calls, calls' = calls \ {c}, crossed' = crossed
  PROVE  /\ OneAtATime'
         /\ \A v \in Variants \ crossed :
              IF c \in About(v) THEN About(v) = {c} /\ About(v)' = {}
              ELSE About(v)' = About(v) /\ c.v # v /\ c.kind # "clear"
<1>1. \A v \in Variants \ crossed :
        IF c \in About(v) THEN About(v) = {c} /\ About(v)' = {}
        ELSE About(v)' = About(v) /\ c.v # v /\ c.kind # "clear"
  <2> TAKE v \in Variants \ crossed
  <2>1. CASE c \in About(v)
    <3>1. About(v) = {c}
      BY <2>1 DEF OneAtATime
    <3>2. About(v)' = {}
      BY <2>1, <3>1 DEF About
    <3> QED
      BY <2>1, <3>1, <3>2
  <2>2. CASE c \notin About(v)
    BY <2>2 DEF About
  <2> QED
    BY <2>1, <2>2
<1> QED
  BY <1>1 DEF OneAtATime

\* It stays so while no add ends and no row loses its id.
LEMMA WaitGoesOn ==
  ASSUME RowsWait, undone => undone', crossed \subseteq crossed', UNCHANGED <<desiredQty, queued>>,
         \A v \in Variants : AddTaken(v) => AddTaken(v)',
         \A v, n : AddOf(v, n) => AddOf(v, n)',
         undone' \/ \A v \in Variants : cache'[v].id = Temporary => cache[v].id = Temporary \/ AddTaken(v)'
  PROVE  RowsWait'
<1>1. SUFFICES ASSUME ~undone'
               PROVE  /\ \A v \in Variants : cache'[v].id = Temporary => AddTaken(v)'
                      /\ \A v \in Variants \ crossed' : desiredQty'[v] # None => AddOf(v, queued[v])'
  BY DEF RowsWait
<1>2. \A v \in Variants : cache'[v].id = Temporary => AddTaken(v)'
  BY <1>1 DEF RowsWait
<1>3. ASSUME NEW v \in Variants \ crossed', desiredQty'[v] # None PROVE AddOf(v, queued[v])'
  <2>1. AddOf(v, queued[v])
    BY <1>1, <1>3 DEF RowsWait
  <2> QED
    BY <2>1 DEF AddOf
<1> QED
  BY <1>2, <1>3

LEMMA ReadWaits ==
  ASSUME TapsInv, Refetch \/ ServeFetch \/ FetchArrives \/ FetchFails
  PROVE  RowsWait'
<1>1. UNCHANGED <<calls, queued, desiredQty, crossed, undone>>
  BY DEF Refetch, ServeFetch, FetchArrives, FetchFails, notes, tapHistory, lapses
<1>2. \A v \in Variants : cache'[v].id = Temporary => cache[v].id = Temporary
  BY DEF Refetch, ServeFetch, FetchArrives, FetchFails, TapsInv, CartInv, RowsHaveIds, Temporary
<1>3. \A v \in Variants : AddTaken(v) => AddTaken(v)'
  BY <1>1 DEF AddTaken
<1>4. \A v, n : AddOf(v, n) => AddOf(v, n)'
  BY <1>1 DEF AddOf
<1> QED
  BY <1>1, <1>2, <1>3, <1>4, WaitGoesOn DEF TapsInv

\* A request that is sent.
LEMMA SentWaits ==
  ASSUME RowsWait, NEW c, calls' = calls \cup {c}, crossed \subseteq crossed',
         UNCHANGED <<undone, desiredQty, queued>>,
         \A v \in Variants : cache'[v].id = Temporary =>
           cache[v].id = Temporary \/ (c.kind = "add" /\ c.v = v /\ c.before.taken)
  PROVE  RowsWait'
<1>1. \A v \in Variants : AddTaken(v) => AddTaken(v)'
  BY DEF AddTaken
<1>2. \A v, n : AddOf(v, n) => AddOf(v, n)'
  BY DEF AddOf
<1>3. \A v \in Variants : cache'[v].id = Temporary => cache[v].id = Temporary \/ AddTaken(v)'
  BY DEF AddTaken
<1> QED
  BY <1>1, <1>2, <1>3, WaitGoesOn

LEMMA AddWaits ==
  ASSUME TapsInv, NEW v \in Variants, StartAdd(v)
  PROVE  RowsWait'
<1> DEFINE S == Call("add", v, 0, 1, Snapshot)
           N == Call("add", v, 0, 1, NoSnapshot)
<1>1. S.kind = "add" /\ S.v = v /\ S.before = Snapshot
  BY CallIsNew DEF TapsInv, CartInv
<1>2. Snapshot.taken = loaded
  BY DEF Snapshot
<1> HIDE DEF S, N
<1>3. UNCHANGED <<undone, desiredQty, queued>> /\ crossed \subseteq crossed'
  BY DEF StartAdd, Mutate, lapses, Crosses
<1>4. CASE v \in Carded
  <2>1. /\ calls' = calls \cup {S}
        /\ cache' = IF loaded THEN [cache EXCEPT ![v] = Row(Temporary, 1)] ELSE cache
    BY <1>4 DEF StartAdd, Mutate, S
  <2>2. \A w \in Variants : cache'[w].id = Temporary =>
          cache[w].id = Temporary \/ (S.kind = "add" /\ S.v = w /\ S.before.taken)
    BY <1>1, <1>2, <2>1 DEF TapsInv, CartInv, CartShape, CartRows
  <2> QED
    BY <1>3, <2>1, <2>2, SentWaits DEF TapsInv
<1>5. CASE v \notin Carded
  <2>1. calls' = calls \cup {N} /\ cache' = cache
    BY <1>5 DEF StartAdd, cartShown, N
  <2> QED
    BY <1>3, <2>1, SentWaits DEF TapsInv
<1> QED
  BY <1>4, <1>5

LEMMA UpdateWaits ==
  ASSUME TapsInv, NEW v \in Variants, NEW q \in Int, UpdateItem(v, q)
  PROVE  RowsWait'
<1> DEFINE c == Call("update", v, cache[v].id, q, Snapshot)
<1>1. /\ calls' = calls \cup {c} /\ UNCHANGED <<undone, desiredQty, queued>> /\ crossed \subseteq crossed'
      /\ cache' = IF loaded THEN [cache EXCEPT ![v].qty = q] ELSE cache
  BY DEF UpdateItem, Mutate, notes, lapses, Crosses
<1> HIDE DEF c
<1>2. \A w \in Variants : cache'[w].id = cache[w].id
  BY <1>1 DEF TapsInv, CartInv, CartShape, CartRows, CartRow
<1> QED
  BY <1>1, <1>2, SentWaits DEF TapsInv

LEMMA RemoveWaits ==
  ASSUME TapsInv, NEW v \in Variants, RemoveItem(v)
  PROVE  RowsWait'
<1> DEFINE c == Call("remove", v, cache[v].id, 0, Snapshot)
<1>1. /\ calls' = calls \cup {c} /\ UNCHANGED <<undone, desiredQty, queued>> /\ crossed \subseteq crossed'
      /\ cache' = IF loaded THEN [cache EXCEPT ![v] = NoRow] ELSE cache
  BY DEF RemoveItem, Mutate, notes, lapses, Crosses
<1> HIDE DEF c
<1>2. \A w \in Variants : cache'[w].id = Temporary => cache[w].id = Temporary
  BY <1>1, NoRowIsRow DEF TapsInv, CartInv, CartShape, CartRows, Temporary
<1> QED
  BY <1>1, <1>2, SentWaits DEF TapsInv

LEMMA ClearWaits ==
  ASSUME TapsInv, ClearCart
  PROVE  RowsWait'
<1> DEFINE c == Call("clear", None, 0, 0, Snapshot)
<1>1. /\ calls' = calls \cup {c} /\ UNCHANGED <<undone, desiredQty, queued>> /\ crossed \subseteq crossed'
      /\ cache' = IF loaded THEN NoFetch.rows ELSE cache
  BY DEF ClearCart, Mutate, notes, lapses, Crosses
<1> HIDE DEF c
<1>2. \A w \in Variants : cache'[w].id = Temporary => cache[w].id = Temporary
  BY <1>1, NoRowIsRow DEF Temporary
<1> QED
  BY <1>1, <1>2, SentWaits DEF TapsInv

\* The quantity is noted for the add that is out, the only one where none crossed.
LEMMA ChangeWaits ==
  ASSUME TapsInv, NEW v \in Variants, NEW q \in Int, cache[v].id = Temporary,
         ChangeWhilePending(v, q)
  PROVE  RowsWait'
<1>1. /\ UNCHANGED <<undone, calls, crossed>>
      /\ desiredQty' = [desiredQty EXCEPT ![v] = q]
      /\ queued' = IF desiredQty[v] = None THEN [queued EXCEPT ![v] = pendingAdds[v]] ELSE queued
      /\ \A w \in Variants \ {v} : cache'[w] = cache[w]
  BY DEF ChangeWhilePending, Asks, lapses, TapsInv, CartInv, CartShape, CartRows
<1>2. /\ \A w \in Variants \ {v} : desiredQty'[w] = desiredQty[w] /\ queued'[w] = queued[w]
      /\ queued'[v] = IF desiredQty[v] = None THEN pendingAdds[v] ELSE queued[v]
  BY <1>1 DEF TapsInv, CartInv, CartShape
<1>3. SUFFICES ASSUME ~undone
               PROVE  /\ \A w \in Variants : cache'[w].id = Temporary => AddTaken(w)
                      /\ \A w \in Variants \ crossed : desiredQty'[w] # None =>
                           \E c \in calls : c.kind = "add" /\ c.v = w /\ c.n = queued'[w]
  BY <1>1 DEF TapsInv, RowsWait, AddTaken, AddOf
<1>4. AddTaken(v)
  BY <1>3 DEF TapsInv, RowsWait
<1>5. \A w \in Variants : cache'[w].id = Temporary => AddTaken(w)
  BY <1>1, <1>3, <1>4 DEF TapsInv, RowsWait
<1>6. ASSUME v \notin crossed PROVE \E c \in calls : c.kind = "add" /\ c.v = v /\ c.n = queued'[v]
  <2>1. CASE desiredQty[v] = None
    BY <1>2, <1>4, <1>6, <2>1 DEF TapsInv, NotedIsOut, AddTaken
  <2>2. CASE desiredQty[v] # None
    BY <1>2, <1>3, <1>6, <2>2 DEF TapsInv, RowsWait, AddOf
  <2> QED
    BY <2>1, <2>2
<1> QED
  BY <1>2, <1>3, <1>5, <1>6 DEF TapsInv, RowsWait, AddOf

\* A request that is served, or lost, is still the request it was.
LEMMA GoesOnWaits ==
  ASSUME RowsWait, NEW c \in calls, NEW d, SameCall(c, d), calls' = (calls \ {c}) \cup {d},
         UNCHANGED <<cache, crossed, undone, desiredQty, queued>>
  PROVE  RowsWait'
<1>1. \A v \in Variants : AddTaken(v) => AddTaken(v)'
  BY DEF AddTaken, SameCall
<1>2. \A v, n : AddOf(v, n) => AddOf(v, n)'
  BY DEF AddOf, SameCall
<1> QED
  BY <1>1, <1>2, WaitGoesOn

LEMMA ServeWaits ==
  ASSUME TapsInv, NEW c \in calls, ServeCart(c) \/ LoseCall(c)
  PROVE  RowsWait'
<1>1. UNCHANGED <<cache, crossed, undone, desiredQty, queued>>
  BY DEF ServeCart, LoseCall, cartShown, tapHistory, notes, lapses
<1>2. PICK d \in CartCall : SameCall(c, d) /\ calls' = (calls \ {c}) \cup {d}
  BY ServeKinds, LoseKind DEF TapsInv, CartInv
<1> QED
  BY <1>1, <1>2, GoesOnWaits DEF TapsInv

LEMMA SettleWaits ==
  ASSUME TapsInv, NEW c \in calls, Settle(c) \/ SettleSync(c)
  PROVE  RowsWait'
<1>1. /\ c.kind # "add" /\ calls' = calls \ {c} /\ UNCHANGED <<crossed, desiredQty, queued>>
      /\ undone => undone'
      /\ undone' \/ cache' = cache
  <2>1. CASE Settle(c)
    BY <2>1 DEF Settle, Undoes, Restored, notes, tapHistory
  <2>2. CASE SettleSync(c)
    BY <2>2 DEF SettleSync, notes, tapHistory, lapses
  <2> QED
    BY <2>1, <2>2
<1>2. \A v \in Variants : AddTaken(v) => AddTaken(v)'
  BY <1>1 DEF AddTaken
<1>3. \A v, n : AddOf(v, n) => AddOf(v, n)'
  BY <1>1 DEF AddOf
<1> QED
  BY <1>1, <1>2, <1>3, WaitGoesOn DEF TapsInv

\* The answer of an add gives its row an id, and its follower brings what was noted.
LEMMA SettleAddWaits ==
  ASSUME TapsInv, None \notin Variants, NEW c \in calls, SettleAdd(c)
  PROVE  RowsWait'
<1> DEFINE v == c.v
<1>1. /\ c.kind = "add" /\ c.at # "out" /\ v \in Variants /\ c \in CartCall
      /\ calls' = (calls \ {c}) \cup Follow(c)
      /\ UNCHANGED <<loaded, crossed>>
      /\ undone' = (undone \/ (c.at = "failed" /\ c.before.taken))
      /\ cache' = IF c.at = "failed" THEN Restored(c)
                  ELSE IF loaded THEN [cache EXCEPT ![v] = Swapped(c)] ELSE cache
      /\ IF queued[v] = c.n
         THEN /\ desiredQty' = [desiredQty EXCEPT ![v] = None]
              /\ queued' = [queued EXCEPT ![v] = 0]
         ELSE UNCHANGED <<desiredQty, queued>>
  BY DEF SettleAdd, Undoes, tapHistory, TapsInv, CartInv, CartShape
<1> HIDE DEF v
<1>2. c.v = v
  BY DEF v
<1>3. \A w \in Variants \ {v} : queued'[w] = queued[w] /\ desiredQty'[w] = desiredQty[w]
  BY <1>1 DEF TapsInv, CartInv, CartShape
<1>4. SUFFICES ASSUME ~undone'
               PROVE  /\ \A w \in Variants : cache'[w].id = Temporary => AddTaken(w)'
                      /\ \A w \in Variants \ crossed : desiredQty'[w] # None => AddOf(w, queued[w])'
  BY <1>1 DEF TapsInv, RowsWait
<1>5. ~undone /\ (c.at = "failed" => ~c.before.taken)
  BY <1>1, <1>4
<1>6. ASSUME NEW w \in Variants, cache'[w].id = Temporary PROVE AddTaken(w)'
  <2>1. cache[w].id = Temporary /\ (w = v => c.at = "failed")
    <3>1. CASE c.at = "failed"
      BY <1>1, <1>5, <1>6, <3>1 DEF Restored
    <3>2. CASE c.at # "failed" /\ ~loaded
      <4>1. cache' = cache /\ cache[w] = NoRow
        BY <1>1, <3>2 DEF TapsInv, CallsKnow
      <4> QED
        BY <1>6, <4>1, NoRowIsRow DEF Temporary
    <3>3. CASE c.at # "failed" /\ loaded
      <4>1. Swapped(c).id \in Nat
        BY <1>1, SwappedRow DEF TapsInv, CartInv
      <4>2. cache' = [cache EXCEPT ![v] = Swapped(c)]
        BY <1>1, <3>3
      <4> QED
        BY <1>1, <1>6, <4>1, <4>2 DEF TapsInv, CartInv, CartShape, CartRows, Temporary
    <3> QED
      BY <3>1, <3>2, <3>3
  <2>2. PICK d \in calls : d.kind = "add" /\ d.v = w /\ d.before.taken
    BY <1>5, <2>1 DEF TapsInv, RowsWait, AddTaken
  <2>3. d # c
    BY <1>2, <1>5, <2>1, <2>2
  <2> QED
    BY <1>1, <2>2, <2>3 DEF AddTaken
<1>7. v \notin crossed => desiredQty'[v] = None
  <2>1. SUFFICES ASSUME v \notin crossed, desiredQty[v] # None PROVE queued[v] = c.n
    BY <1>1 DEF TapsInv, CartInv, CartShape
  <2>2. PICK d \in calls : d.kind = "add" /\ d.v = v /\ d.n = queued[v]
    BY <1>1, <1>5, <2>1 DEF TapsInv, RowsWait, AddOf
  <2>3. d = c
    BY <1>1, <1>2, <2>1, <2>2 DEF TapsInv, OneAtATime, About
  <2> QED
    BY <2>2, <2>3
<1>8. ASSUME NEW w \in Variants \ crossed, desiredQty'[w] # None PROVE AddOf(w, queued[w])'
  <2>1. w # v
    BY <1>7, <1>8
  <2>2. PICK d \in calls : d.kind = "add" /\ d.v = w /\ d.n = queued[w]
    BY <1>3, <1>5, <1>8, <2>1 DEF TapsInv, RowsWait, AddOf
  <2>3. d \in calls' /\ queued'[w] = queued[w]
    BY <1>1, <1>2, <1>3, <2>1, <2>2
  <2> QED
    BY <2>2, <2>3 DEF AddOf
<1> QED
  BY <1>6, <1>8

LEMMA ReadTaps ==
  ASSUME TapsInv, Refetch \/ ServeFetch \/ FetchArrives \/ FetchFails
  PROVE  TapsRest'
<1>1. UNCHANGED <<srv, calls, pendingAdds, queued, desiredQty, intent, crossed, undone, unsent>>
  BY DEF Refetch, ServeFetch, FetchArrives, FetchFails, notes, tapHistory, lapses
<1>2. Good' => Good
  BY <1>1 DEF Good, TapsInv, CartInv, CartShape, Refetch, ServeFetch, FetchArrives,
     FetchFails
<1>3. losses # 0 => losses' # 0
  BY DEF TapsInv, CartInv, CartShape, Refetch, ServeFetch, FetchArrives, FetchFails
<1>4. \/ loaded' = loaded /\ cache' = cache
      \/ loaded' /\ \A v \in Variants : cache'[v].id \in Nat
  BY DEF Refetch, ServeFetch, FetchArrives, FetchFails, TapsInv, CartInv, RowsHaveIds
<1>5. CallsKnow'
  BY <1>1, <1>3, <1>4 DEF TapsInv, CallsKnow
<1>6. OneAtATime' /\ NotedIsOut'
  BY <1>1 DEF TapsInv, OneAtATime, NotedIsOut, About
<1>8. TapsOK'
  BY <1>1, <1>2 DEF TapsInv, TapsOK, VariantOK, About
<1> QED
  BY <1>5, <1>6, <1>8 DEF TapsRest

LEMMA AddTaps ==
  ASSUME TapsInv, NEW v \in Variants, StartAdd(v)
  PROVE  TapsRest'
<1> DEFINE S == Call("add", v, 0, 1, Snapshot)
           N == Call("add", v, 0, 1, NoSnapshot)
<1>1. /\ NewCallOK(S) /\ S.kind = "add" /\ S.v = v /\ S.n = taps + 1 /\ S.at = "out" /\ S.qty = 1
      /\ NewCallOK(N) /\ N.kind = "add" /\ N.v = v /\ N.n = taps + 1 /\ N.at = "out" /\ N.qty = 1
      /\ S.before = Snapshot /\ N.before = NoSnapshot
  BY CallIsNew DEF TapsInv, CartInv
<1>2. S.before.taken = loaded /\ ~N.before.taken
  BY <1>1 DEF Snapshot, NoSnapshot
<1> HIDE DEF S, N
<1>3. PICK c \in {S, N} : calls' = calls \cup {c}
  BY DEF S, N, StartAdd, Mutate
<1>4. /\ UNCHANGED <<srv, loaded, losses, undone, unsent, desiredQty, queued>>
      /\ cache' = cache \/ (loaded /\ \A w \in Variants \ {v} : cache'[w] = cache[w])
      /\ intent' = [intent EXCEPT ![v] = intent[v] + 1]
      /\ pendingAdds' = [pendingAdds EXCEPT ![v] = taps + 1]
      /\ Crosses({v})
  BY DEF StartAdd, Mutate, cartShown, lapses, Asks, TapsInv, CartInv, CartShape, CartRows
<1>5. /\ OneAtATime' /\ crossed \subseteq crossed'
      /\ v \notin crossed' => About(v) = {} /\ About(v)' = {c}
      /\ \A w \in Variants \ {v} : About(w)' = About(w)
  BY <1>1, <1>3, <1>4, NewAlone DEF TapsInv, CartInv, CartShape
<1>6. CallsKnow'
  BY <1>1, <1>2, <1>3, <1>4 DEF TapsInv, CallsKnow
<1>7. NotedIsOut'
  <2>1. \A w \in Variants \ {v} : pendingAdds'[w] = pendingAdds[w]
    BY <1>4 DEF TapsInv, CartInv, CartShape
  <2>2. pendingAdds'[v] = c.n
    BY <1>1, <1>4 DEF TapsInv, CartInv, CartShape
  <2>3. \A w \in Variants \ {v} : \A e \in calls' : e.v = w => e \in calls
    BY <1>1, <1>3
  <2>4. v \notin crossed' => \A e \in calls' : e.v = v => e = c
    BY <1>5 DEF About
  <2> QED
    BY <1>5, <2>1, <2>2, <2>3, <2>4 DEF TapsInv, NotedIsOut
<1>10. TapsOK'
  <2>1. SUFFICES ASSUME Good, NEW w \in Variants \ (crossed' \cup unsent) PROVE VariantOK(w)'
    BY <1>4 DEF TapsOK, Good
  <2>2. w \notin crossed \cup unsent /\ VariantOK(w)
    BY <1>5, <2>1 DEF TapsInv, TapsOK
  <2>3. CASE w # v
    <3>1. Aside(w)
      BY <1>4, <1>5, <2>3 DEF Aside, TapsInv, CartInv, CartShape
    <3> QED
      BY <2>2, <3>1, AsideKeeps
  <2>4. CASE w = v
    <3>1. About(v) = {} /\ About(v)' = {c}
      BY <1>5, <2>4
    <3>2. desiredQty[v] = None
      BY <2>1, <2>2, <2>4, <3>1 DEF TapsInv, RowsWait, Good, AddOf, About
    <3>3. srv[v].qty = intent[v]
      BY <2>2, <2>4, <3>1 DEF VariantOK
    <3>4. srv'[v] = srv[v] /\ intent'[v] = intent[v] + 1 /\ desiredQty'[v] = None
      BY <1>4, <3>2 DEF TapsInv, CartInv, CartShape
    <3>5. Fits(c, srv'[v], intent'[v], desiredQty'[v])
      BY <1>1, <3>3, <3>4 DEF Fits
    <3> QED
      BY <2>4, <3>1, <3>5 DEF VariantOK
  <2> QED
    BY <2>3, <2>4
<1> QED
  BY <1>5, <1>6, <1>7, <1>10 DEF TapsRest

\* A request that asks for a quantity and was sent with a snapshot.
LEMMA SentTaps ==
  ASSUME TapsInv, NEW c, NewCallOK(c), c.kind \in {"update", "remove", "clear"}, c.at = "out",
         c.before.taken, c.kind = "clear" => c.qty = 0, loaded, calls' = calls \cup {c},
         UNCHANGED <<srv, loaded, losses, undone, unsent, desiredQty, queued, pendingAdds>>,
         \A v \in Variants : cache'[v].id = cache[v].id \/ cache'[v].id = 0,
         NEW vs \in SUBSET Variants, Crosses(vs),
         \A v \in Variants : (c.v = v \/ c.kind = "clear") <=> v \in vs,
         \A v \in vs : intent'[v] = c.qty, \A v \in Variants \ vs : intent'[v] = intent[v]
  PROVE  TapsRest'
<1>1. /\ OneAtATime' /\ crossed \subseteq crossed'
      /\ \A v \in vs \ crossed' : About(v) = {} /\ About(v)' = {c}
      /\ \A v \in Variants \ vs : About(v)' = About(v)
  BY NewAlone DEF TapsInv, CartInv, CartShape
<1>2. CallsKnow'
  BY DEF TapsInv, CallsKnow
<1>3. NotedIsOut'
  BY <1>1 DEF TapsInv, NotedIsOut
<1>5. TapsOK'
  <2>1. SUFFICES ASSUME Good, NEW w \in Variants \ (crossed' \cup unsent) PROVE VariantOK(w)'
    BY DEF TapsOK, Good
  <2>2. w \notin crossed \cup unsent /\ VariantOK(w)
    BY <1>1, <2>1 DEF TapsInv, TapsOK
  <2>3. CASE w \notin vs
    <3>1. Aside(w)
      BY <1>1, <2>3 DEF Aside
    <3> QED
      BY <2>2, <3>1, AsideKeeps
  <2>4. CASE w \in vs
    <3>1. About(w)' = {c}
      BY <1>1, <2>4
    <3>2. Fits(c, srv'[w], intent'[w], desiredQty'[w])
      BY <2>4 DEF Fits
    <3> QED
      BY <3>1, <3>2 DEF VariantOK
  <2> QED
    BY <2>3, <2>4
<1> QED
  BY <1>1, <1>2, <1>3, <1>5 DEF TapsRest

LEMMA SnapshotTaken == loaded => Snapshot.taken
BY DEF Snapshot

LEMMA UpdateTaps ==
  ASSUME TapsInv, None \notin Variants, NEW v \in Variants, NEW q \in Int, cache[v] # NoRow,
         UpdateItem(v, q)
  PROVE  TapsRest'
<1> DEFINE c == Call("update", v, cache[v].id, q, Snapshot)
<1>1. cache[v] \in CartRow /\ cache[v].id \in Int
  BY DEF TapsInv, CartInv, CartShape, CartRows, CartRow
<1>2. /\ NewCallOK(c) /\ c.kind = "update" /\ c.v = v /\ c.at = "out" /\ c.qty = q
      /\ c.before = Snapshot
  BY <1>1, CallIsNew DEF TapsInv, CartInv
<1>3. loaded
  BY DEF TapsInv, CallsKnow
<1>4. /\ calls' = calls \cup {c} /\ cache' = [cache EXCEPT ![v].qty = q] /\ Crosses({v})
      /\ UNCHANGED <<srv, loaded, losses, undone, unsent, desiredQty, queued, pendingAdds>>
      /\ intent' = [intent EXCEPT ![v] = q]
  BY <1>3 DEF UpdateItem, Mutate, Asks, notes, lapses
<1> HIDE DEF c
<1>5. \A w \in Variants : cache'[w].id = cache[w].id
  BY <1>1, <1>4 DEF TapsInv, CartInv, CartShape, CartRows, CartRow
<1>6. intent'[v] = q /\ \A w \in Variants \ {v} : intent'[w] = intent[w]
  BY <1>4 DEF TapsInv, CartInv, CartShape
<1>7. c.before.taken
  BY <1>2, <1>3, SnapshotTaken
<1> QED
  BY <1>2, <1>3, <1>4, <1>5, <1>6, <1>7, SentTaps

LEMMA RemoveTaps ==
  ASSUME TapsInv, None \notin Variants, NEW v \in Variants, cache[v] # NoRow, RemoveItem(v)
  PROVE  TapsRest'
<1> DEFINE c == Call("remove", v, cache[v].id, 0, Snapshot)
<1>1. cache[v] \in CartRow /\ cache[v].id \in Int
  BY DEF TapsInv, CartInv, CartShape, CartRows, CartRow
<1>2. /\ NewCallOK(c) /\ c.kind = "remove" /\ c.v = v /\ c.at = "out" /\ c.qty = 0
      /\ c.before = Snapshot
  BY <1>1, CallIsNew DEF TapsInv, CartInv
<1>3. loaded
  BY DEF TapsInv, CallsKnow
<1>4. /\ calls' = calls \cup {c} /\ cache' = [cache EXCEPT ![v] = NoRow] /\ Crosses({v})
      /\ UNCHANGED <<srv, loaded, losses, undone, unsent, desiredQty, queued, pendingAdds>>
      /\ intent' = [intent EXCEPT ![v] = 0]
  BY <1>3 DEF RemoveItem, Mutate, Asks, notes, lapses
<1> HIDE DEF c
<1>5. \A w \in Variants : cache'[w].id = cache[w].id \/ cache'[w].id = 0
  BY <1>4, NoRowIsRow DEF TapsInv, CartInv, CartShape, CartRows
<1>6. intent'[v] = 0 /\ \A w \in Variants \ {v} : intent'[w] = intent[w]
  BY <1>4 DEF TapsInv, CartInv, CartShape
<1>7. c.before.taken
  BY <1>2, <1>3, SnapshotTaken
<1> QED
  BY <1>2, <1>3, <1>4, <1>5, <1>6, <1>7, SentTaps

LEMMA ClearTaps ==
  ASSUME TapsInv, None \notin Variants, ClearCart
  PROVE  TapsRest'
<1> DEFINE c == Call("clear", None, 0, 0, Snapshot)
<1>1. /\ NewCallOK(c) /\ c.kind = "clear" /\ c.v = None /\ c.at = "out" /\ c.qty = 0
      /\ c.before = Snapshot
  BY CallIsNew DEF TapsInv, CartInv
<1>2. loaded
  BY DEF TapsInv, CallsKnow, ClearCart
<1>3. /\ calls' = calls \cup {c} /\ cache' = NoFetch.rows /\ Crosses(Variants)
      /\ UNCHANGED <<srv, loaded, losses, undone, unsent, desiredQty, queued, pendingAdds>>
      /\ intent' = [v \in Variants |-> 0]
  BY <1>2 DEF ClearCart, Mutate, notes, lapses
<1> HIDE DEF c
<1>4. \A w \in Variants : cache'[w].id = 0 /\ intent'[w] = 0
  BY <1>3, NoRowIsRow
<1>5. c.before.taken
  BY <1>1, <1>2, SnapshotTaken
<1> QED
  BY <1>1, <1>2, <1>3, <1>4, <1>5, SentTaps

LEMMA ChangeTaps ==
  ASSUME TapsInv, None \notin Int, NEW v \in Variants, NEW q \in Int, cache[v].id = Temporary,
         ChangeWhilePending(v, q)
  PROVE  TapsRest'
<1>1. /\ UNCHANGED <<srv, loaded, losses, undone, unsent, calls, crossed, pendingAdds>>
      /\ desiredQty' = [desiredQty EXCEPT ![v] = q] /\ intent' = [intent EXCEPT ![v] = q]
      /\ queued' = IF desiredQty[v] = None THEN [queued EXCEPT ![v] = pendingAdds[v]] ELSE queued
      /\ \A w \in Variants \ {v} : cache'[w] = cache[w]
  BY DEF ChangeWhilePending, Asks, lapses, TapsInv, CartInv, CartShape, CartRows
<1>2. /\ \A w \in Variants \ {v} :
           desiredQty'[w] = desiredQty[w] /\ intent'[w] = intent[w] /\ queued'[w] = queued[w]
      /\ desiredQty'[v] = q /\ intent'[v] = q
      /\ queued'[v] = IF desiredQty[v] = None THEN pendingAdds[v] ELSE queued[v]
  BY <1>1 DEF TapsInv, CartInv, CartShape
<1>3. loaded
  BY NoRowIsRow DEF TapsInv, CallsKnow, Temporary
<1>4. CallsKnow'
  BY <1>1, <1>3 DEF TapsInv, CallsKnow
<1>5. OneAtATime' /\ NotedIsOut'
  BY <1>1 DEF TapsInv, OneAtATime, NotedIsOut, About
<1>6. Good => AddTaken(v)
  BY DEF TapsInv, RowsWait, Good
<1>8. TapsOK'
  <2>1. SUFFICES ASSUME Good, NEW w \in Variants \ (crossed \cup unsent) PROVE VariantOK(w)'
    BY <1>1 DEF TapsOK, Good
  <2>2. VariantOK(w)
    BY <2>1 DEF TapsInv, TapsOK
  <2>3. CASE w # v
    <3>1. Aside(w)
      BY <1>1, <1>2, <2>3 DEF Aside, About
    <3> QED
      BY <2>2, <3>1, AsideKeeps
  <2>4. CASE w = v
    <3>1. PICK c \in calls : c.kind = "add" /\ c.v = v
      BY <1>6, <2>1 DEF AddTaken
    <3>2. About(v) = {c}
      BY <2>4, <3>1 DEF TapsInv, OneAtATime, About
    <3>3. Fits(c, srv[v], intent[v], desiredQty[v])
      BY <2>2, <2>4, <3>2 DEF VariantOK
    <3>4. Fits(c, srv'[v], intent'[v], desiredQty'[v])
      BY <1>1, <1>2, <3>1, <3>3 DEF Fits
    <3>5. About(v)' = {c}
      BY <1>1, <3>2 DEF About
    <3> QED
      BY <2>4, <3>4, <3>5 DEF VariantOK
  <2> QED
    BY <2>3, <2>4
<1> QED
  BY <1>4, <1>5, <1>8 DEF TapsRest

LEMMA ServeTaps ==
  ASSUME TapsInv, None \notin Variants, NEW c \in calls, ServeCart(c)
  PROVE  TapsRest'
<1>1. PICK d \in CartCall :
        /\ SameCall(c, d) /\ calls' = (calls \ {c}) \cup {d} /\ c.at = "out"
        /\ AddServed(c, d) \/ ChangeServed(c, d) \/ ClearServed(c, d) \/ NotServed(c, d)
  BY ServeKinds DEF TapsInv, CartInv
<1>2. UNCHANGED <<cache, loaded, pendingAdds, queued, desiredQty, intent, crossed, undone, unsent, losses>>
  BY DEF ServeCart, cartShown, notes, tapHistory, lapses
<1>3. CallsKnow'
  <2>1. d.kind \in {"add", "clear"} => d.at # "failed"
    BY <1>1 DEF SameCall, AddServed, ChangeServed, ClearServed, NotServed
  <2> QED
    BY <1>1, <1>2, <2>1 DEF TapsInv, CallsKnow, SameCall
<1>4. /\ OneAtATime'
      /\ \A v \in Variants \ crossed :
           IF c \in About(v) THEN About(v) = {c} /\ About(v)' = {d}
           ELSE About(v)' = About(v) /\ c.v # v /\ c.kind # "clear"
  BY <1>1, <1>2, NextAlone DEF TapsInv, SameCall
<1>5. NotedIsOut'
  BY <1>1, <1>2 DEF TapsInv, NotedIsOut, SameCall
<1>7. TapsOK'
  <2>1. SUFFICES ASSUME Good, NEW v \in Variants \ (crossed \cup unsent) PROVE VariantOK(v)'
    BY <1>2 DEF TapsOK, Good
  <2>2. VariantOK(v)
    BY <2>1 DEF TapsInv, TapsOK
  <2>3. CASE c \notin About(v)
    <3>1. c.v # v /\ c.kind # "clear"
      BY <1>4, <2>3
    <3>2. srv'[v] = srv[v]
      BY <1>1, <3>1 DEF AddServed, ChangeServed, ClearServed, NotServed, TapsInv, CartInv, CartShape, CartRows
    <3>3. Aside(v)
      BY <1>2, <1>4, <2>3, <3>2 DEF Aside
    <3> QED
      BY <2>2, <3>3, AsideKeeps
  <2>4. CASE c \in About(v)
    <3>1. About(v)' = {d} /\ Fits(c, srv[v], intent[v], desiredQty[v])
      BY <1>4, <2>2, <2>4 DEF VariantOK
    <3>2. c.kind # "clear" => c.v = v
      BY <2>4 DEF About
    <3>3. srv \in CartRows /\ srv[v].qty \in Int /\ c.qty \in Int
      BY DEF TapsInv, CartInv, CartShape, CartRows, CartRow, CartCall
    <3>4. Fits(d, srv'[v], intent[v], desiredQty[v])
      <4>1. CASE AddServed(c, d)
        <5>1. srv'[v] = d.row /\ d.row.qty = srv[v].qty + 1
          BY <3>2, <3>3, <4>1 DEF AddServed, CartRows, TapsInv, CallsKnow
        <5> QED
          BY <1>1, <3>1, <4>1, <5>1 DEF AddServed, Fits, SameCall
      <4>2. CASE ChangeServed(c, d)
        <5>1. srv'[v].qty = c.qty
          <6>1. srv'[v] = IF c.qty = 0 THEN NoRow ELSE Row(srv[v].id, c.qty)
            BY <3>2, <3>3, <4>2 DEF ChangeServed, CartRows
          <6> QED
            BY <6>1, NoRowIsRow DEF Row
        <5> QED
          BY <1>1, <3>1, <4>2, <5>1 DEF ChangeServed, Fits, SameCall
      <4>3. CASE ClearServed(c, d)
        <5>1. srv'[v].qty = 0 /\ c.qty = 0
          BY <4>3, NoRowIsRow DEF ClearServed, TapsInv, CallsKnow
        <5> QED
          BY <1>1, <3>1, <4>3, <5>1 DEF ClearServed, Fits, SameCall
      <4>4. CASE NotServed(c, d)
        BY <1>1, <3>1, <3>2, <4>4 DEF NotServed, Fits, SameCall
      <4> QED
        BY <1>1, <4>1, <4>2, <4>3, <4>4
    <3> QED
      BY <1>2, <3>1, <3>4 DEF VariantOK
  <2> QED
    BY <2>3, <2>4
<1> QED
  BY <1>3, <1>4, <1>5, <1>7 DEF TapsRest

LEMMA LoseTaps ==
  ASSUME TapsInv, NEW c \in calls, LoseCall(c)
  PROVE  TapsRest'
<1>1. PICK d \in CartCall : SameCall(c, d) /\ calls' = (calls \ {c}) \cup {d} /\ d.at = "failed"
  BY LoseKind DEF TapsInv, CartInv
<1>2. UNCHANGED <<cache, loaded, pendingAdds, crossed>>
  BY DEF LoseCall, cartShown, notes, tapHistory
<1>3. losses' # 0
  BY DEF LoseCall, TapsInv, CartInv, CartShape
<1>4. CallsKnow'
  BY <1>1, <1>2, <1>3 DEF TapsInv, CallsKnow, SameCall
<1>5. OneAtATime'
  BY <1>1, <1>2, NextAlone DEF TapsInv, SameCall
<1>6. NotedIsOut'
  BY <1>1, <1>2 DEF TapsInv, NotedIsOut, SameCall
<1>7. TapsOK'
  BY <1>3 DEF TapsOK, Good
<1> QED
  BY <1>4, <1>5, <1>6, <1>7 DEF TapsRest

\* A request ends: what is asked of its variant is there.
LEMMA EndTaps ==
  ASSUME TapsInv, NEW c \in calls, c.kind # "add", c.at # "out", calls' = calls \ {c},
         UNCHANGED <<srv, loaded, pendingAdds, queued, desiredQty, intent, crossed, unsent, losses>>,
         Good' => Good /\ cache' = cache /\ (c.at = "failed" => c.kind = "sync"),
         ~loaded => cache' = cache
  PROVE  TapsRest'
<1>1. CallsKnow'
  BY DEF TapsInv, CallsKnow
<1>2. /\ OneAtATime'
      /\ \A v \in Variants \ crossed :
           IF c \in About(v) THEN About(v) = {c} /\ About(v)' = {}
           ELSE About(v)' = About(v) /\ c.v # v /\ c.kind # "clear"
  BY EndAlone DEF TapsInv
<1>3. NotedIsOut'
  BY DEF TapsInv, NotedIsOut
<1>5. TapsOK'
  <2>1. SUFFICES ASSUME Good', NEW v \in Variants \ (crossed \cup unsent) PROVE VariantOK(v)'
    BY DEF TapsOK
  <2>2. VariantOK(v)
    BY <2>1 DEF TapsInv, TapsOK
  <2>3. CASE c \notin About(v)
    <3>1. Aside(v)
      BY <1>2, <2>3 DEF Aside
    <3> QED
      BY <2>2, <3>1, AsideKeeps
  <2>4. CASE c \in About(v)
    <3>1. About(v)' = {} /\ Fits(c, srv[v], intent[v], desiredQty[v])
      BY <1>2, <2>2, <2>4 DEF VariantOK
    <3>2. c.at = "served"
      BY <2>1, <3>1 DEF Fits, TapsInv, CartInv, CartShape, CartCall
    <3>3. srv[v].qty = intent[v]
      BY <2>1, <3>1, <3>2 DEF Fits
    <3> QED
      BY <3>1, <3>3 DEF VariantOK
  <2> QED
    BY <2>3, <2>4
<1> QED
  BY <1>1, <1>2, <1>3, <1>5 DEF TapsRest

LEMMA SettleTaps ==
  ASSUME TapsInv, NEW c \in calls, Settle(c)
  PROVE  TapsRest'
<1>1. /\ c.kind \in {"update", "remove", "clear"} /\ c.at # "out" /\ calls' = calls \ {c}
      /\ UNCHANGED <<srv, loaded, pendingAdds, queued, desiredQty, intent, crossed, unsent, losses>>
      /\ undone' = (undone \/ (c.at = "failed" /\ c.before.taken))
      /\ cache' = IF c.at = "failed" THEN Restored(c) ELSE cache
  BY DEF Settle, Undoes, notes, tapHistory
<1>2. c.at \in {"out", "served", "failed"}
  BY DEF TapsInv, CartInv, CartShape, CartCall
<1>3. Good' => Good /\ c.at = "served" /\ cache' = cache
  BY <1>1, <1>2 DEF Good, TapsInv, CallsKnow
<1>4. ~loaded => cache' = cache
  BY <1>1 DEF TapsInv, CallsKnow, Restored
<1> QED
  BY <1>1, <1>3, <1>4, EndTaps

LEMMA SettleSyncTaps ==
  ASSUME TapsInv, NEW c \in calls, SettleSync(c)
  PROVE  TapsRest'
<1>1. /\ c.kind = "sync" /\ c.at # "out" /\ calls' = calls \ {c}
      /\ UNCHANGED <<srv, loaded, cache, pendingAdds, queued, desiredQty, intent, crossed, unsent, undone, losses>>
  BY DEF SettleSync, notes, tapHistory, lapses
<1>2. Good' => Good
  BY <1>1 DEF Good
<1> QED
  BY <1>1, <1>2, EndTaps

LEMMA SettleAddTaps ==
  ASSUME TapsInv, None \notin Variants, NEW c \in calls, SettleAdd(c)
  PROVE  TapsRest'
<1> DEFINE v == c.v
<1>1. /\ c.kind = "add" /\ c.at # "out" /\ v \in Variants /\ c \in CartCall
      /\ calls' = (calls \ {c}) \cup Follow(c)
      /\ UNCHANGED <<srv, loaded, intent, crossed, losses>>
      /\ undone' = (undone \/ (c.at = "failed" /\ c.before.taken))
      /\ cache' = IF c.at = "failed" THEN Restored(c)
                  ELSE IF loaded THEN [cache EXCEPT ![v] = Swapped(c)] ELSE cache
      /\ pendingAdds' = [pendingAdds EXCEPT ![v] = 0]
      /\ IF queued[v] = c.n
         THEN /\ desiredQty' = [desiredQty EXCEPT ![v] = None]
              /\ queued' = [queued EXCEPT ![v] = 0]
         ELSE UNCHANGED <<desiredQty, queued>>
      /\ unsent' = IF queued[v] = c.n /\ c.at = "served" /\ desiredQty[v] = 1 /\ c.row.qty # 1
                   THEN unsent \cup {v} ELSE unsent
  BY DEF SettleAdd, Undoes, KeepsMore, tapHistory, TapsInv, CartInv, CartShape
<1> HIDE DEF v
<1>2. c.at = "served" \/ c.at = "failed"
  BY <1>1 DEF CartCall
<1>3. Good' => Good /\ c.at = "served"
  BY <1>1, <1>2 DEF Good, TapsInv, CallsKnow
<1>4. c.v = v
  BY DEF v
<1>5. \A w \in Variants \ {v} :
        pendingAdds'[w] = pendingAdds[w] /\ queued'[w] = queued[w] /\ desiredQty'[w] = desiredQty[w]
  BY <1>1 DEF TapsInv, CartInv, CartShape
<1>6. \/ Follow(c) = {} /\ calls' = calls \ {c}
      \/ \E d \in CartCall :
           /\ calls' = (calls \ {c}) \cup {d} /\ d.kind = "sync" /\ d.v = v /\ d.id = c.row.id
           /\ d.qty = desiredQty[v] /\ d.at = "out" /\ ~d.before.taken
           /\ desiredQty[v] # None
  BY <1>4, FollowKind DEF TapsInv, CartInv
<1>7. /\ OneAtATime'
      /\ \A w \in Variants \ {v} : w \notin crossed => About(w)' = About(w)
      /\ v \notin crossed =>
           /\ About(v) = {c}
           /\ \/ Follow(c) = {} /\ About(v)' = {}
              \/ \E d \in CartCall :
                   /\ About(v)' = {d} /\ d.kind = "sync" /\ d.id = c.row.id
                   /\ d.qty = desiredQty[v] /\ d.at = "out" /\ desiredQty[v] # None
  <2>1. c \in About(v) /\ \A w \in Variants \ {v} : c \notin About(w)
    BY <1>1, <1>4 DEF About
  <2>2. CASE Follow(c) = {} /\ calls' = calls \ {c}
    <3>1. /\ OneAtATime'
          /\ \A w \in Variants \ crossed :
               IF c \in About(w) THEN About(w) = {c} /\ About(w)' = {}
               ELSE About(w)' = About(w) /\ c.v # w /\ c.kind # "clear"
      BY <1>1, <2>2, EndAlone DEF TapsInv
    <3> QED
      BY <1>1, <2>1, <2>2, <3>1
  <2>3. ASSUME NEW d \in CartCall, calls' = (calls \ {c}) \cup {d}, d.kind = "sync", d.v = v,
               d.id = c.row.id, d.qty = desiredQty[v], d.at = "out", desiredQty[v] # None
        PROVE  /\ OneAtATime'
               /\ \A w \in Variants \ {v} : w \notin crossed => About(w)' = About(w)
               /\ v \notin crossed =>
                    About(v) = {c} /\ About(v)' = {d}
    <3>1. /\ OneAtATime'
          /\ \A w \in Variants \ crossed :
               IF c \in About(w) THEN About(w) = {c} /\ About(w)' = {d}
               ELSE About(w)' = About(w) /\ c.v # w /\ c.kind # "clear"
      BY <1>1, <1>4, <2>3, NextAlone DEF TapsInv
    <3> QED
      BY <1>1, <2>1, <2>3, <3>1
  <2> QED
    BY <1>6, <2>2, <2>3
<1>8. CallsKnow'
  <2>1. ~loaded => \A w \in Variants : cache'[w] = NoRow
    BY <1>1 DEF TapsInv, CallsKnow, Restored
  <2> QED
    BY <1>1, <1>6, <2>1 DEF TapsInv, CallsKnow
<1>9. NotedIsOut'
  <2>1. \A e \in calls' : e.kind = "add" => e \in calls \ {c}
    BY <1>6
  <2>2. v \notin crossed => \A e \in calls' : e.kind = "add" => e.v # v
    BY <1>7, <2>1 DEF About
  <2> QED
    BY <1>1, <1>5, <2>1, <2>2 DEF TapsInv, NotedIsOut
<1>12. ASSUME Good, v \notin crossed, desiredQty[v] # None PROVE queued[v] = c.n
  <2>1. AddOf(v, queued[v])
    BY <1>1, <1>12 DEF TapsInv, RowsWait, Good
  <2> QED
    BY <1>7, <1>12, <2>1 DEF AddOf, About
<1>14. TapsOK'
  <2>1. SUFFICES ASSUME Good', NEW w \in Variants \ (crossed \cup unsent') PROVE VariantOK(w)'
    BY <1>1 DEF TapsOK
  <2>2. Good /\ c.at = "served" /\ VariantOK(w)
    BY <1>1, <1>3, <2>1 DEF TapsInv, TapsOK
  <2>3. CASE w # v
    <3>1. Aside(w)
      BY <1>1, <1>5, <1>7, <2>1, <2>3 DEF Aside
    <3> QED
      BY <2>2, <3>1, AsideKeeps
  <2>4. CASE w = v
    <3>1. About(v) = {c} /\ Fits(c, srv[v], intent[v], desiredQty[v])
      BY <1>7, <2>1, <2>2, <2>4 DEF VariantOK
    <3>2. desiredQty'[v] = None
      BY <1>1, <1>12, <2>1, <2>2, <2>4 DEF TapsInv, CartInv, CartShape
    <3>3. c.row = srv[v] /\ srv[v].id # 0
      BY <1>1, <2>2, <3>1 DEF Fits
    <3>4. CASE Follow(c) = {} /\ About(v)' = {}
      <4>1. queued[v] # c.n \/ desiredQty[v] \in {None, 1}
        BY <1>4, <2>2, <3>4 DEF Follow
      <4>2. CASE desiredQty[v] = None
        <5>1. srv[v].qty = intent[v]
          BY <1>1, <2>2, <3>1, <4>2 DEF Fits
        <5> QED
          BY <1>1, <2>4, <3>4, <5>1 DEF VariantOK
      <4>3. CASE desiredQty[v] # None
        <5>1. queued[v] = c.n /\ desiredQty[v] = 1
          BY <1>12, <2>1, <2>2, <2>4, <4>1, <4>3
        <5>2. c.row.qty = 1
          BY <1>1, <2>1, <2>2, <2>4, <5>1
        <5>3. intent[v] = 1
          BY <1>1, <3>1, <4>3, <5>1 DEF Fits
        <5> QED
          BY <1>1, <2>4, <3>3, <3>4, <5>2, <5>3 DEF VariantOK
      <4> QED
        BY <4>2, <4>3
    <3>5. ASSUME NEW d \in CartCall, About(v)' = {d}, d.kind = "sync", d.id = c.row.id,
                 d.qty = desiredQty[v], d.at = "out", desiredQty[v] # None
          PROVE  VariantOK(w)'
      <4>1. srv[v] # NoRow
        BY <3>3, NoRowIsRow
      <4>2. intent[v] = d.qty
        BY <1>1, <3>1, <3>5 DEF Fits
      <4>3. Fits(d, srv[v], intent[v], None)
        BY <3>3, <3>5, <4>1, <4>2 DEF Fits
      <4> QED
        BY <1>1, <2>4, <3>2, <3>5, <4>3 DEF VariantOK
    <3> QED
      BY <1>7, <2>1, <2>4, <3>4, <3>5
  <2> QED
    BY <2>3, <2>4
<1> QED
  BY <1>7, <1>8, <1>9, <1>14 DEF TapsRest

LEMMA TapsStart == ASSUME IsFiniteSet(Variants), CartInit PROVE TapsInv
<1>1. CartInv
  BY CartStarts
<1>2. loaded \/ \A v \in Variants : cache[v] = NoRow
  BY NoRowIsRow DEF CartInit
<1>3. CallsKnow /\ OneAtATime /\ NotedIsOut
  BY <1>2 DEF CartInit, CallsKnow, OneAtATime, NotedIsOut, About
<1>4. \A v \in Variants : cache[v].id \in Nat /\ desiredQty[v] = None
  BY <1>1, <1>2, NoRowIsRow DEF CartInit, CartInv, RowsHaveIds
<1>5. RowsWait
  BY <1>4 DEF RowsWait, Temporary
<1>6. TapsOK
  BY DEF CartInit, TapsOK, VariantOK, About
<1> QED
  BY <1>1, <1>3, <1>5, <1>6 DEF TapsInv

LEMMA WaitSteps ==
  ASSUME None \notin Variants, TapsInv, [CartNext]_cartVars
  PROVE  RowsWait'
<1>1. ASSUME NEW v \in Variants,
             \/ ProductCard(v) \/ ProductScreen(v) \/ HorizontalProductCard(v)
             \/ MiniProductTile(v) \/ CartPageRow(v)
      PROVE  RowsWait'
  <2>1. \/ StartAdd(v)
        \/ \E q \in Int : UpdateItem(v, q)
        \/ RemoveItem(v)
        \/ cache[v].id = Temporary /\ \E q \in Int : ChangeWhilePending(v, q)
    BY <1>1, TapKinds DEF TapsInv, CartInv
  <2> QED
    BY <2>1, AddWaits, UpdateWaits, RemoveWaits, ChangeWaits
<1>2. ASSUME NEW c \in calls,
             ServeCart(c) \/ LoseCall(c) \/ Settle(c) \/ SettleAdd(c) \/ SettleSync(c)
      PROVE  RowsWait'
  BY <1>2, ServeWaits, SettleWaits, SettleAddWaits
<1>3. ASSUME UNCHANGED cartVars PROVE RowsWait'
  <2>1. UNCHANGED <<cache, calls, desiredQty, queued, crossed, undone>>
    BY <1>3 DEF cartVars, cartShown, notes, tapHistory, lapses
  <2> QED
    BY <2>1 DEF TapsInv, RowsWait, AddTaken, AddOf
<1> QED
  BY <1>1, <1>2, <1>3, ReadWaits, ClearWaits DEF CartNext

LEMMA TapsSteps ==
  ASSUME None \notin Int, None \notin Variants, TapsInv, [CartNext]_cartVars
  PROVE  TapsInv'
<1>1. CartInv'
  BY CartSteps DEF TapsInv
<1>2. ASSUME Refetch \/ ServeFetch \/ FetchArrives \/ FetchFails PROVE TapsRest'
  BY <1>2, ReadTaps
<1>3. ASSUME ClearCart PROVE TapsRest'
  BY <1>3, ClearTaps
<1>4. ASSUME NEW v \in Variants,
             \/ ProductCard(v) \/ ProductScreen(v) \/ HorizontalProductCard(v)
             \/ MiniProductTile(v) \/ CartPageRow(v)
      PROVE  TapsRest'
  <2>1. \/ StartAdd(v)
        \/ cache[v] # NoRow /\ \E q \in Int : UpdateItem(v, q)
        \/ cache[v] # NoRow /\ RemoveItem(v)
        \/ cache[v].id = Temporary /\ \E q \in Int : ChangeWhilePending(v, q)
    BY <1>4, TapKinds DEF TapsInv, CartInv
  <2> QED
    BY <2>1, AddTaps, UpdateTaps, RemoveTaps, ChangeTaps
<1>5. ASSUME NEW c \in calls,
             ServeCart(c) \/ LoseCall(c) \/ Settle(c) \/ SettleAdd(c) \/ SettleSync(c)
      PROVE  TapsRest'
  BY <1>5, ServeTaps, LoseTaps, SettleTaps, SettleAddTaps, SettleSyncTaps
<1>6. ASSUME UNCHANGED cartVars PROVE TapsRest'
  <2>1. UNCHANGED <<srv, cache, loaded, calls, pendingAdds, desiredQty, queued, intent, crossed, undone, unsent, losses>>
    BY <1>6 DEF cartVars, cartShown, notes, tapHistory, lapses
  <2>2. CallsKnow' /\ NotedIsOut'
    BY <2>1 DEF TapsInv, CallsKnow, NotedIsOut
  <2>3. OneAtATime' /\ TapsOK'
    BY <2>1 DEF TapsInv, OneAtATime, TapsOK, Good, VariantOK, About
  <2> QED
    BY <2>2, <2>3 DEF TapsRest
<1>7. TapsRest'
  BY <1>2, <1>3, <1>4, <1>5, <1>6 DEF CartNext
<1> QED
  BY <1>1, <1>7, WaitSteps DEF TapsInv, TapsRest

LEMMA TapsInvariance == CartSpec => []TapsInv
<1>1. CartInit => TapsInv
  BY TapsStart, CartAssumption
<1>2. TapsInv /\ [CartNext]_cartVars => TapsInv'
  BY TapsSteps, CartAssumption
<1> QED
  BY <1>1, <1>2, PTL DEF CartSpec

\* For any products and any number of taps, what was tapped last is what the server has once all is
\* quiet, where no requests crossed, none was lost or undone, and the follower did not mistake its
\* add for the whole row.
THEOREM CartTapsArrive == CartSpec => []TapsArrive
<1>1. TapsInv => TapsArrive
  BY DEF TapsInv, TapsOK, VariantOK, Good, TapsArrive, Quiet, About
<1> QED
  BY <1>1, TapsInvariance, PTL

\* For any products, taps and losses, a quantity tapped before there is a row waits for an add that
\* will be answered, the one its follower follows, unless requests crossed or an error came back.
THEOREM NotedAlwaysBrought == CartSpec => []NotedIsBrought
<1>1. TapsInv => NotedIsBrought
  BY DEF TapsInv, RowsWait, AddOf, NotedIsBrought
<1> QED
  BY <1>1, TapsInvariance, PTL

\* For any products, taps and losses, a row that is shown without an id has its add out, unless an
\* error brought a snapshot back.
THEOREM TemporaryAlwaysHasAdd == CartSpec => []TemporaryHasAdd
<1>1. TapsInv => TemporaryHasAdd
  BY DEF TapsInv, RowsWait, AddTaken, TemporaryHasAdd
<1> QED
  BY <1>1, TapsInvariance, PTL
-----------------------------------------------------------------------------
(* The shape of the cart, its bounds included. *)

\* The adds among some calls that the server has yet to see.
OutIn(C, vs) == {c \in C : c.kind = "add" /\ c.at = "out" /\ c.v \in vs}
AddsOut(vs) == OutIn(calls, vs)

\* The most pieces of v that a row can be of: each tap asks for one more, and an add that
\* is out has yet to bring the one it is for.
Most(v) == 1 + taps - Cardinality(AddsOut({v}))

RowFits(r, most, next) ==
  /\ r.qty \in 0..most /\ r.line \in 0..most /\ (r # NoRow => r.qty # 0)
  /\ r.id \in Temporary..(next - 1)

RowsFit ==
  \A v \in Variants :
    /\ RowFits(srv[v], Most(v), nextId) /\ srv[v].line = srv[v].qty
    /\ RowFits(cache[v], Most(v), nextId) /\ RowFits(fetch.rows[v], Most(v), nextId)

CallFits(c) ==
  /\ c.n \in 1..taps
  /\ \A v \in Variants : RowFits(c.before.rows[v], Most(v), nextId)
  /\ c.kind = "add" => c.qty = 1
  /\ c.kind # "clear" => c.qty \in 0..Most(c.v) /\ RowFits(c.row, Most(c.v), nextId)

CallsFit == \A c \in calls : CallFits(c)

NotesFit ==
  \A v \in Variants :
    /\ pendingAdds[v] <= taps /\ queued[v] <= taps
    /\ desiredQty[v] # None => desiredQty[v] \in 0..Most(v)
    /\ intent[v] \in 0..(1 + taps)

CountsFit ==
  /\ taps <= MaxTaps /\ losses <= MaxLosses /\ IsFiniteSet(calls)
  /\ nextId + Cardinality(AddsOut(Variants)) <= Cardinality(Variants) + 1 + taps
  /\ \A v \in Variants : Most(v) >= 1

CartFits == RowsFit /\ CallsFit /\ NotesFit /\ CountsFit

\* No row has to give way.
Grows ==
  /\ CountsFit' /\ nextId' >= nextId /\ taps' >= taps
  /\ \A v \in Variants : Most(v)' \in Int /\ Most(v)' >= Most(v) /\ Most(v)' <= 1 + taps'

LEMMA OutIsCounted ==
  ASSUME NEW C, IsFiniteSet(C), NEW vs
  PROVE  IsFiniteSet(OutIn(C, vs)) /\ Cardinality(OutIn(C, vs)) \in Nat
<1>1. OutIn(C, vs) \subseteq C
  BY DEF OutIn
<1> QED
  BY <1>1, FS_Subset, FS_CardinalityType

LEMMA MostIsInt ==
  ASSUME CartShape, IsFiniteSet(calls)
  PROVE  \A v \in Variants : Most(v) \in Int /\ Most(v) <= 1 + taps
<1> TAKE v \in Variants
<1>1. Cardinality(AddsOut({v})) \in Nat
  BY OutIsCounted DEF AddsOut
<1> QED
  BY <1>1 DEF Most, CartShape

\* No add is new.
LEMMA OutShrinks ==
  ASSUME NEW C, NEW D, IsFiniteSet(C), NEW vs,
         \A d \in D : d.kind = "add" /\ d.at = "out" => d \in C
  PROVE  /\ Cardinality(OutIn(C, vs)) \in Nat /\ Cardinality(OutIn(D, vs)) \in Nat
         /\ Cardinality(OutIn(D, vs)) <= Cardinality(OutIn(C, vs))
<1>1. OutIn(D, vs) \subseteq OutIn(C, vs)
  BY DEF OutIn
<1> QED
  BY <1>1, OutIsCounted, FS_Subset, FS_CardinalityType

\* An add is served.
LEMMA OutEnds ==
  ASSUME NEW C, IsFiniteSet(C), NEW vs, NEW c \in C, c.kind = "add", c.at = "out", c.v \in vs,
         NEW d, d.at # "out"
  PROVE  /\ Cardinality(OutIn(C, vs)) \in Nat
         /\ Cardinality(OutIn((C \ {c}) \cup {d}, vs)) = Cardinality(OutIn(C, vs)) - 1
<1>1. OutIn((C \ {c}) \cup {d}, vs) = OutIn(C, vs) \ {c} /\ c \in OutIn(C, vs)
  BY DEF OutIn
<1>2. PICK O : O = OutIn(C, vs)
  OBVIOUS
<1>3. IsFiniteSet(O) /\ Cardinality(O) \in Nat /\ c \in O
  BY <1>1, <1>2, OutIsCounted
<1>4. Cardinality(O \ {c}) = Cardinality(O) - 1
  BY <1>3, FS_RemoveElement
<1> QED
  BY <1>1, <1>2, <1>3, <1>4

\* An add is sent.
LEMMA OutGrows ==
  ASSUME NEW C, IsFiniteSet(C), NEW vs, NEW c
  PROVE  /\ Cardinality(OutIn(C, vs)) \in Nat /\ Cardinality(OutIn(C \cup {c}, vs)) \in Nat
         /\ Cardinality(OutIn(C \cup {c}, vs)) <= Cardinality(OutIn(C, vs)) + 1
<1>1. IsFiniteSet(C \cup {c})
  BY FS_AddElement
<1>2. OutIn(C \cup {c}, vs) \subseteq OutIn(C, vs) \cup {c}
  BY DEF OutIn
<1>3. /\ IsFiniteSet(OutIn(C, vs)) /\ Cardinality(OutIn(C, vs)) \in Nat
      /\ Cardinality(OutIn(C \cup {c}, vs)) \in Nat
  BY <1>1, OutIsCounted
<1>4. /\ IsFiniteSet(OutIn(C, vs) \cup {c})
      /\ Cardinality(OutIn(C, vs) \cup {c}) \in Nat
      /\ Cardinality(OutIn(C, vs) \cup {c}) <= Cardinality(OutIn(C, vs)) + 1
  <2> DEFINE O == OutIn(C, vs)
  <2>1. IsFiniteSet(O) /\ Cardinality(O) \in Nat
    BY <1>3
  <2> HIDE DEF O
  <2>2. /\ IsFiniteSet(O \cup {c})
        /\ Cardinality(O \cup {c}) = IF c \in O THEN Cardinality(O) ELSE Cardinality(O) + 1
    BY <2>1, FS_AddElement
  <2>3. /\ IsFiniteSet(O \cup {c}) /\ Cardinality(O \cup {c}) \in Nat
        /\ Cardinality(O \cup {c}) <= Cardinality(O) + 1
    BY <2>1, <2>2
  <2> QED
    BY <2>3 DEF O
<1>5. Cardinality(OutIn(C \cup {c}, vs)) <= Cardinality(OutIn(C, vs) \cup {c})
  BY <1>2, <1>4, FS_Subset
<1> QED
  BY <1>3, <1>4, <1>5

LEMMA FitGrows ==
  ASSUME NEW r \in CartRow, NEW m \in Int, NEW k \in Int, NEW n \in Int, NEW l \in Int,
         k >= m, l >= n, RowFits(r, m, n)
  PROVE  RowFits(r, k, l)
BY DEF RowFits, CartRow, Temporary

\* No add is sent or served.
LEMMA QuietGrows ==
  ASSUME CartShape, CartShape', CountsFit, IsFiniteSet(calls'),
         \A d \in calls' : d.kind = "add" /\ d.at = "out" => d \in calls,
         taps' \in {taps, taps + 1}, taps' <= MaxTaps, losses' <= MaxLosses, nextId' = nextId
  PROVE  Grows /\ (taps' = taps + 1 => \A v \in Variants : Most(v)' >= Most(v) + 1)
<1>1. \A vs : /\ Cardinality(AddsOut(vs)) \in Nat /\ Cardinality(AddsOut(vs)') \in Nat
              /\ Cardinality(AddsOut(vs)') <= Cardinality(AddsOut(vs))
  BY OutShrinks DEF AddsOut, CountsFit
<1>2. Cardinality(Variants) \in Nat /\ taps \in Nat /\ nextId \in Nat
  BY FS_CardinalityType, CartAssumption DEF CartShape
<1>3. ASSUME NEW v \in Variants
      PROVE  /\ Most(v)' \in Int /\ Most(v)' >= Most(v) /\ Most(v)' >= 1 /\ Most(v)' <= 1 + taps'
             /\ (taps' = taps + 1 => Most(v)' >= Most(v) + 1)
  <2>1. Most(v) >= 1
    BY DEF CountsFit
  <2> QED
    BY <1>1, <1>2, <2>1 DEF Most
<1>4. CountsFit'
  BY <1>1, <1>2, <1>3 DEF CountsFit
<1> QED
  BY <1>2, <1>3, <1>4 DEF Grows

LEMMA AddGrows ==
  ASSUME CartShape, CartShape', CountsFit, NEW c, calls' = calls \cup {c},
         taps' = taps + 1, taps' <= MaxTaps, losses' = losses, nextId' = nextId
  PROVE  Grows
<1>1. \A vs : /\ Cardinality(AddsOut(vs)) \in Nat /\ Cardinality(AddsOut(vs)') \in Nat
              /\ Cardinality(AddsOut(vs)') <= Cardinality(AddsOut(vs)) + 1
  BY OutGrows DEF AddsOut, CountsFit
<1>2. Cardinality(Variants) \in Nat /\ taps \in Nat /\ nextId \in Nat /\ IsFiniteSet(calls')
  BY FS_CardinalityType, FS_AddElement, CartAssumption DEF CartShape, CountsFit
<1>3. ASSUME NEW v \in Variants
      PROVE  Most(v)' \in Int /\ Most(v)' >= Most(v) /\ Most(v)' >= 1 /\ Most(v)' <= 1 + taps'
  <2>1. Most(v) >= 1
    BY DEF CountsFit
  <2> QED
    BY <1>1, <1>2, <2>1 DEF Most
<1>4. CountsFit'
  BY <1>1, <1>2, <1>3 DEF CountsFit
<1> QED
  BY <1>2, <1>3, <1>4 DEF Grows

LEMMA ServeGrows ==
  ASSUME CartShape, CartShape', CountsFit, NEW c \in calls, c.kind = "add", c.at = "out", c.v \in Variants,
         NEW d, d.at = "served", calls' = (calls \ {c}) \cup {d},
         taps' = taps, losses' = losses, nextId' \in {nextId, nextId + 1}
  PROVE  Grows /\ Most(c.v)' >= Most(c.v) + 1
<1>1. \A vs : /\ Cardinality(AddsOut(vs)) \in Nat /\ Cardinality(AddsOut(vs)') \in Nat
              /\ Cardinality(AddsOut(vs)') <= Cardinality(AddsOut(vs))
  <2>1. \A e \in calls' : e.kind = "add" /\ e.at = "out" => e \in calls
    OBVIOUS
  <2> QED
    BY <2>1, OutShrinks DEF AddsOut, CountsFit
<1>2. \A vs : c.v \in vs => Cardinality(AddsOut(vs)') = Cardinality(AddsOut(vs)) - 1
  BY OutEnds DEF AddsOut, CountsFit
<1>3. Cardinality(Variants) \in Nat /\ taps \in Nat /\ nextId \in Nat /\ IsFiniteSet(calls')
  BY FS_CardinalityType, FS_AddElement, FS_RemoveElement, CartAssumption DEF CartShape, CountsFit
<1>4. ASSUME NEW v \in Variants
      PROVE  /\ Most(v)' \in Int /\ Most(v)' >= Most(v) /\ Most(v)' >= 1 /\ Most(v)' <= 1 + taps'
             /\ (v = c.v => Most(v)' >= Most(v) + 1)
  <2>1. Most(v) >= 1
    BY DEF CountsFit
  <2>2. v = c.v => Cardinality(AddsOut({v})') = Cardinality(AddsOut({v})) - 1
    BY <1>2
  <2> QED
    BY <1>1, <1>3, <2>1, <2>2 DEF Most
<1>5. Cardinality(AddsOut(Variants)') = Cardinality(AddsOut(Variants)) - 1
  BY <1>2
<1>6. CountsFit'
  BY <1>1, <1>3, <1>4, <1>5 DEF CountsFit
<1> QED
  BY <1>3, <1>4, <1>6 DEF Grows

\* What fitted still does.
LEMMA StillFits ==
  ASSUME CartShape, CartFits, Grows, nextId' \in Int, taps' \in Int
  PROVE  /\ \A v \in Variants : /\ RowFits(srv[v], Most(v)', nextId')
                                /\ RowFits(cache[v], Most(v)', nextId')
                                /\ RowFits(fetch.rows[v], Most(v)', nextId')
                                /\ RowFits(NoRow, Most(v)', nextId')
         /\ \A c \in calls : CallFits(c)'
<1>1. \A v \in Variants : Most(v) \in Int /\ Most(v)' \in Int /\ Most(v)' >= Most(v) /\ Most(v) >= 1
  BY MostIsInt DEF CartFits, CountsFit, Grows
<1>2. nextId \in Int /\ nextId >= 1 /\ nextId' >= nextId /\ taps' >= taps /\ taps \in Nat
  BY DEF CartShape, Grows
<1>3. \A v \in Variants : \A r \in CartRow : RowFits(r, Most(v), nextId) => RowFits(r, Most(v)', nextId')
  BY <1>1, <1>2, FitGrows
<1>4. \A v \in Variants : srv[v] \in CartRow /\ cache[v] \in CartRow /\ fetch.rows[v] \in CartRow
  BY DEF CartShape, CartRows
<1>5. \A v \in Variants : RowFits(NoRow, Most(v), nextId)
  BY <1>1, <1>2 DEF RowFits, NoRow, Temporary
<1>6. ASSUME NEW c \in calls PROVE CallFits(c)'
  <2>1. CallFits(c) /\ c \in CartCall
    BY DEF CartFits, CallsFit, CartShape
  <2>2. c.n \in 1..taps'
    BY <1>2, <2>1 DEF CallFits
  <2>3. \A v \in Variants : RowFits(c.before.rows[v], Most(v)', nextId')
    <3>1. \A v \in Variants : c.before.rows[v] \in CartRow
      BY <2>1 DEF CartCall, CartRows
    <3> QED
      BY <1>3, <2>1, <3>1 DEF CallFits
  <2>4. c.kind # "clear" => c.qty \in 0..Most(c.v)' /\ RowFits(c.row, Most(c.v)', nextId')
    <3> SUFFICES ASSUME c.kind # "clear" PROVE c.qty \in 0..Most(c.v)' /\ RowFits(c.row, Most(c.v)', nextId')
      OBVIOUS
    <3>1. c.v \in Variants /\ c.row \in CartRow
      BY <2>1 DEF CartShape, CartCall
    <3>2. c.qty \in 0..Most(c.v) /\ RowFits(c.row, Most(c.v), nextId)
      BY <2>1 DEF CallFits
    <3>3. RowFits(c.row, Most(c.v)', nextId')
      BY <1>3, <3>1, <3>2
    <3>4. Most(c.v) \in Int /\ Most(c.v)' \in Int /\ Most(c.v)' >= Most(c.v)
      BY <1>1, <3>1
    <3> QED
      BY <3>2, <3>3, <3>4
  <2> QED
    BY <2>1, <2>2, <2>3, <2>4 DEF CallFits
<1> QED
  BY <1>3, <1>4, <1>5, <1>6, NoRowIsRow DEF CartFits, RowsFit

LEMMA NotesStillFit ==
  ASSUME CartShape, CartFits, Grows, taps' \in Int
  PROVE  \A v \in Variants :
           /\ pendingAdds[v] <= taps' /\ queued[v] <= taps'
           /\ desiredQty[v] # None => desiredQty[v] \in 0..Most(v)'
           /\ intent[v] \in 0..(1 + taps')
<1> TAKE v \in Variants
<1>1. Most(v) \in Int /\ Most(v)' \in Int /\ Most(v)' >= Most(v)
  BY MostIsInt DEF CartFits, CountsFit, Grows
<1>2. /\ pendingAdds[v] <= taps /\ queued[v] <= taps /\ intent[v] \in 0..(1 + taps)
      /\ desiredQty[v] # None => desiredQty[v] \in 0..Most(v)
  BY DEF CartFits, NotesFit
<1>3. taps \in Nat /\ taps' >= taps /\ pendingAdds[v] \in Nat /\ queued[v] \in Nat
  BY DEF CartShape, Grows
<1> QED
  BY <1>1, <1>2, <1>3

\* The call that a tap sends.
LEMMA SentFits ==
  ASSUME CartShape, CartShape', CartFits, Grows, taps' = taps + 1,
         NEW kind, NEW v, kind # "clear" => v \in Variants, NEW id,
         NEW q, kind # "clear" => q \in 0..Most(v)', kind = "add" => q = 1,
         NEW before \in {Snapshot, NoSnapshot}, NEW c, c = Call(kind, v, id, q, before)
  PROVE  CallFits(c)'
<1>1. nextId' \in Int /\ taps' \in Int /\ taps \in Nat
  BY DEF CartShape
<1>2. c.n = taps + 1 /\ c.kind = kind /\ c.v = v /\ c.qty = q /\ c.before = before /\ c.row = NoRow
  BY DEF Call
<1>3. \A w \in Variants : RowFits(before.rows[w], Most(w)', nextId') /\ RowFits(NoRow, Most(w)', nextId')
  BY <1>1, StillFits, NoRowIsRow DEF Snapshot, NoSnapshot
<1>4. c.n \in 1..taps'
  BY <1>1, <1>2
<1> QED
  BY <1>2, <1>3, <1>4 DEF CallFits

\* It is shown and sent.
LEMMA MutateFits ==
  ASSUME CartShape, CartShape', CartFits, Grows, NEW c, CallFits(c)', NEW rows,
         \A v \in Variants : RowFits(rows[v], Most(v)', nextId'), Mutate(c, rows)
  PROVE  RowsFit' /\ CallsFit'
<1>1. nextId' \in Int /\ taps' \in Int
  BY DEF CartShape
<1>2. /\ calls' = calls \cup {c} /\ srv' = srv /\ fetch' = NoFetch
      /\ cache' = rows \/ cache' = cache
  BY DEF Mutate
<1>3. \A v \in Variants : srv[v].line = srv[v].qty
  BY DEF CartFits, RowsFit
<1>4. RowsFit'
  BY <1>1, <1>2, <1>3, StillFits, NoRowIsRow DEF RowsFit
<1>5. CallsFit'
  <2>1. \A d \in calls : CallFits(d)'
    BY <1>1, StillFits
  <2> QED
    BY <1>2, <2>1 DEF CallsFit
<1> QED
  BY <1>4, <1>5

\* What a tap asks for.
LEMMA TapQuantities ==
  ASSUME CartShape, NEW v \in Variants,
         \/ ProductCard(v) \/ ProductScreen(v) \/ HorizontalProductCard(v)
         \/ MiniProductTile(v) \/ CartPageRow(v)
  PROVE  \/ StartAdd(v)
         \/ cache[v] # NoRow /\ UpdateItem(v, cache[v].qty + 1)
         \/ cache[v].qty > 1 /\ UpdateItem(v, cache[v].qty - 1)
         \/ RemoveItem(v)
         \/ cache[v] # NoRow /\ ChangeWhilePending(v, cache[v].qty + 1)
         \/ cache[v] # NoRow /\ ChangeWhilePending(v, cache[v].qty - 1)
<1>1. cache[v].qty \in Int
  BY DEF CartShape, CartRows, CartRow
<1>2. cache[v] # NoRow /\ Increment(v) =>
        \/ cache[v] # NoRow /\ UpdateItem(v, cache[v].qty + 1)
        \/ cache[v] # NoRow /\ ChangeWhilePending(v, cache[v].qty + 1)
  BY DEF Increment
<1>3. cache[v] # NoRow /\ Decrement(v) =>
        \/ cache[v].qty > 1 /\ UpdateItem(v, cache[v].qty - 1)
        \/ RemoveItem(v)
        \/ cache[v] # NoRow /\ ChangeWhilePending(v, cache[v].qty - 1)
  BY <1>1 DEF Decrement
<1>4. CartPageRow(v) =>
        \/ cache[v] # NoRow /\ UpdateItem(v, cache[v].qty + 1)
        \/ cache[v].qty > 1 /\ UpdateItem(v, cache[v].qty - 1)
        \/ RemoveItem(v)
  BY DEF CartPageRow
<1> QED
  BY <1>2, <1>3, <1>4 DEF ProductCard, ProductScreen, HorizontalProductCard, MiniProductTile, Stepper

LEMMA AsksFits ==
  ASSUME CartShape, CartFits, Grows, NEW v \in Variants, NEW q, q \in 0..(1 + taps'), Asks(v, q)
  PROVE  taps' = taps + 1 /\ taps' <= MaxTaps /\ \A w \in Variants : intent'[w] \in 0..(1 + taps')
<1>1. taps' = taps + 1 /\ taps < MaxTaps /\ taps \in Nat /\ MaxTaps \in Nat
      /\ intent' = [intent EXCEPT ![v] = q] /\ intent \in [Variants -> Int]
  BY CartAssumption DEF Asks, CartShape
<1>2. \A w \in Variants : intent[w] \in 0..(1 + taps')
  BY <1>1, NotesStillFit
<1> QED
  BY <1>1, <1>2

LEMMA AddFits ==
  ASSUME CartShape, CartFits, NEW v \in Variants, StartAdd(v), CartShape'
  PROVE  CartFits'
<1> DEFINE S == Call("add", v, 0, 1, Snapshot)
           N == Call("add", v, 0, 1, NoSnapshot)
<1>1. /\ taps' = taps + 1 /\ taps < MaxTaps /\ taps \in Nat /\ MaxTaps \in Nat
      /\ losses' = losses /\ nextId' = nextId /\ nextId \in Nat \ {0}
  BY CartAssumption DEF StartAdd, Asks, Mutate, CartShape
<1>2. PICK c : c \in {S, N} /\ calls' = calls \cup {c} /\ (v \in Carded => c = S)
  BY DEF StartAdd, Mutate
<1> HIDE DEF S, N
<1>3. Grows
  BY <1>1, <1>2, AddGrows DEF CartFits
<1>4. Most(v)' \in Int /\ Most(v)' >= 1
  BY <1>3 DEF Grows, CountsFit
<1>5. CallFits(c)'
  <2>1. 1 \in 0..Most(v)'
    BY <1>4
  <2>2. CASE c = S
    BY <1>1, <1>3, <2>1, <2>2, SentFits DEF S
  <2>3. CASE c = N
    BY <1>1, <1>3, <2>1, <2>3, SentFits DEF N
  <2> QED
    BY <1>2, <2>2, <2>3
<1>6. \A w \in Variants : RowFits([cache EXCEPT ![v] = Row(Temporary, 1)][w], Most(w)', nextId')
  <2>1. RowFits(Row(Temporary, 1), Most(v)', nextId')
    BY <1>1, <1>4 DEF RowFits, Row, Temporary
  <2> QED
    BY <1>1, <1>3, <2>1, StillFits DEF CartShape, CartRows
<1>7. RowsFit' /\ CallsFit'
  <2>1. CASE v \in Carded
    <3>1. Mutate(c, [cache EXCEPT ![v] = Row(Temporary, 1)])
      BY <1>2, <2>1 DEF StartAdd, S
    <3> QED
      BY <1>3, <1>5, <1>6, <3>1, MutateFits
  <2>2. CASE v \notin Carded
    <3>1. UNCHANGED <<srv, cache, fetch>>
      BY <2>2 DEF StartAdd, cartShown
    <3>2. \A w \in Variants : srv[w].line = srv[w].qty
      BY DEF CartFits, RowsFit
    <3> QED
      BY <1>1, <1>2, <1>3, <1>5, <3>1, <3>2, StillFits DEF RowsFit, CallsFit
  <2> QED
    BY <2>1, <2>2
<1>8. NotesFit'
  <2>1. intent[v] + 1 \in 0..(1 + taps')
    <3>1. intent[v] \in 0..(1 + taps)
      BY DEF CartFits, NotesFit
    <3> QED
      BY <1>1, <3>1
  <2>2. \A w \in Variants : intent'[w] \in 0..(1 + taps')
    BY <1>3, <2>1, AsksFits DEF StartAdd
  <2>3. /\ pendingAdds' = [pendingAdds EXCEPT ![v] = taps'] /\ UNCHANGED <<desiredQty, queued>>
        /\ pendingAdds \in [Variants -> Nat]
    BY <1>1 DEF StartAdd, CartShape
  <2>4. \A w \in Variants : pendingAdds'[w] <= taps'
    BY <1>1, <1>3, <2>3, NotesStillFit
  <2> QED
    BY <1>1, <1>3, <2>2, <2>3, <2>4, NotesStillFit DEF NotesFit
<1> QED
  BY <1>3, <1>7, <1>8 DEF CartFits, Grows

LEMMA UpdateFits ==
  ASSUME CartShape, CartFits, NEW v \in Variants, NEW q \in Int, UpdateItem(v, q), CartShape',
         q >= 1, q <= cache[v].qty + 1
  PROVE  CartFits'
<1>1. /\ taps' = taps + 1 /\ taps < MaxTaps /\ taps \in Nat /\ MaxTaps \in Nat
      /\ losses' = losses /\ nextId' = nextId /\ losses <= MaxLosses /\ nextId \in Nat
  BY CartAssumption DEF UpdateItem, Asks, Mutate, CartShape, CartFits, CountsFit
<1>2. PICK c : c = Call("update", v, cache[v].id, q, Snapshot)
  OBVIOUS
<1>3. Mutate(c, [cache EXCEPT ![v].qty = q]) /\ Asks(v, q) /\ UNCHANGED <<pendingAdds, desiredQty, queued>>
  BY <1>2 DEF UpdateItem, notes
<1>4. calls' = calls \cup {c} /\ IsFiniteSet(calls') /\ c.kind = "update"
  BY <1>2, <1>3, FS_AddElement DEF Mutate, Call, CartFits, CountsFit
<1>5. Grows /\ \A w \in Variants : Most(w)' >= Most(w) + 1
  BY <1>1, <1>4, QuietGrows DEF CartFits
<1>6. /\ Most(v) \in Int /\ Most(v)' \in Int /\ Most(v)' >= Most(v) + 1 /\ Most(v)' <= 1 + taps'
      /\ cache[v] \in CartRow /\ RowFits(cache[v], Most(v), nextId)
  <2>1. Most(v) \in Int
    BY MostIsInt DEF CartFits, CountsFit
  <2>2. cache[v] \in CartRow /\ RowFits(cache[v], Most(v), nextId)
    BY DEF CartFits, RowsFit, CartShape, CartRows
  <2> QED
    BY <1>5, <2>1, <2>2 DEF Grows
<1>7. q \in 0..Most(v)' /\ q \in 0..(1 + taps')
  BY <1>1, <1>6 DEF RowFits, CartRow
<1>8. CallFits(c)'
  BY <1>1, <1>2, <1>5, <1>7, SentFits
<1>9. \A w \in Variants : RowFits([cache EXCEPT ![v].qty = q][w], Most(w)', nextId')
  <2>1. RowFits([cache[v] EXCEPT !.qty = q], Most(v)', nextId')
    <3>1. RowFits(cache[v], Most(v)', nextId')
      BY <1>1, <1>5, StillFits
    <3> QED
      BY <1>6, <1>7, <3>1 DEF RowFits, CartRow
  <2>2. \A w \in Variants : RowFits(cache[w], Most(w)', nextId')
    BY <1>1, <1>5, StillFits
  <2> QED
    BY <2>1, <2>2 DEF CartShape, CartRows
<1>10. RowsFit' /\ CallsFit'
  BY <1>3, <1>5, <1>8, <1>9, MutateFits
<1>11. NotesFit'
  BY <1>1, <1>3, <1>5, <1>7, AsksFits, NotesStillFit DEF NotesFit
<1> QED
  BY <1>5, <1>10, <1>11 DEF CartFits, Grows

LEMMA RemoveFits ==
  ASSUME CartShape, CartFits, NEW v \in Variants, RemoveItem(v), CartShape'
  PROVE  CartFits'
<1>1. /\ taps' = taps + 1 /\ taps < MaxTaps /\ taps \in Nat /\ MaxTaps \in Nat
      /\ losses' = losses /\ nextId' = nextId /\ losses <= MaxLosses /\ nextId \in Nat
  BY CartAssumption DEF RemoveItem, Asks, Mutate, CartShape, CartFits, CountsFit
<1>2. PICK c : c = Call("remove", v, cache[v].id, 0, Snapshot)
  OBVIOUS
<1>3. Mutate(c, [cache EXCEPT ![v] = NoRow]) /\ Asks(v, 0) /\ UNCHANGED <<pendingAdds, desiredQty, queued>>
  BY <1>2 DEF RemoveItem, notes
<1>4. calls' = calls \cup {c} /\ IsFiniteSet(calls') /\ c.kind = "remove"
  BY <1>2, <1>3, FS_AddElement DEF Mutate, Call, CartFits, CountsFit
<1>5. Grows
  BY <1>1, <1>4, QuietGrows DEF CartFits
<1>6. 0 \in 0..Most(v)' /\ 0 \in 0..(1 + taps')
  BY <1>1, <1>5 DEF Grows, CountsFit
<1>7. CallFits(c)'
  BY <1>1, <1>2, <1>5, <1>6, SentFits
<1>8. \A w \in Variants : RowFits([cache EXCEPT ![v] = NoRow][w], Most(w)', nextId')
  BY <1>1, <1>5, StillFits DEF CartShape, CartRows
<1>9. RowsFit' /\ CallsFit'
  BY <1>3, <1>5, <1>7, <1>8, MutateFits
<1>10. NotesFit'
  BY <1>1, <1>3, <1>5, <1>6, AsksFits, NotesStillFit DEF NotesFit
<1> QED
  BY <1>5, <1>9, <1>10 DEF CartFits, Grows

LEMMA ClearFits ==
  ASSUME CartShape, CartFits, ClearCart, CartShape'
  PROVE  CartFits'
<1>1. /\ taps' = taps + 1 /\ taps < MaxTaps /\ taps \in Nat /\ MaxTaps \in Nat
      /\ losses' = losses /\ nextId' = nextId /\ losses <= MaxLosses /\ nextId \in Nat
      /\ intent' = [w \in Variants |-> 0]
  BY CartAssumption DEF ClearCart, Mutate, CartShape, CartFits, CountsFit
<1>2. PICK c : c = Call("clear", None, 0, 0, Snapshot)
  OBVIOUS
<1>3. Mutate(c, NoFetch.rows) /\ UNCHANGED <<pendingAdds, desiredQty, queued>>
  BY <1>2 DEF ClearCart, notes
<1>4. calls' = calls \cup {c} /\ IsFiniteSet(calls') /\ c.kind = "clear"
  BY <1>2, <1>3, FS_AddElement DEF Mutate, Call, CartFits, CountsFit
<1>5. Grows
  BY <1>1, <1>4, QuietGrows DEF CartFits
<1>6. CallFits(c)'
  BY <1>1, <1>2, <1>5, SentFits
<1>7. \A w \in Variants : RowFits(NoFetch.rows[w], Most(w)', nextId')
  BY <1>1, <1>5, StillFits, NoRowIsRow
<1>8. RowsFit' /\ CallsFit'
  BY <1>3, <1>5, <1>6, <1>7, MutateFits
<1>9. NotesFit'
  BY <1>1, <1>3, <1>5, NotesStillFit DEF NotesFit
<1> QED
  BY <1>5, <1>8, <1>9 DEF CartFits, Grows

LEMMA ChangeFits ==
  ASSUME CartShape, CartFits, NEW v \in Variants, NEW q \in Int, ChangeWhilePending(v, q), CartShape',
         q >= 0, q <= cache[v].qty + 1
  PROVE  CartFits'
<1>1. /\ taps' = taps + 1 /\ taps < MaxTaps /\ taps \in Nat /\ MaxTaps \in Nat
      /\ losses' = losses /\ nextId' = nextId /\ losses <= MaxLosses /\ nextId \in Nat \ {0}
      /\ calls' = calls /\ IsFiniteSet(calls')
  BY CartAssumption DEF ChangeWhilePending, Asks, CartShape, CartFits, CountsFit
<1>2. Grows /\ \A w \in Variants : Most(w)' >= Most(w) + 1
  BY <1>1, QuietGrows DEF CartFits
<1>3. /\ Most(v) \in Int /\ Most(v)' \in Int /\ Most(v)' >= Most(v) + 1 /\ Most(v)' <= 1 + taps'
      /\ cache[v] \in CartRow /\ RowFits(cache[v], Most(v), nextId)
  <2>1. Most(v) \in Int
    BY MostIsInt DEF CartFits, CountsFit
  <2>2. cache[v] \in CartRow /\ RowFits(cache[v], Most(v), nextId)
    BY DEF CartFits, RowsFit, CartShape, CartRows
  <2> QED
    BY <1>2, <2>1, <2>2 DEF Grows
<1>4. q \in 0..Most(v)' /\ q \in 0..(1 + taps')
  BY <1>1, <1>3 DEF RowFits, CartRow
<1>5. RowsFit'
  <2>1. RowFits(IF q = 0 THEN NoRow ELSE Row(Temporary, q), Most(v)', nextId')
    <3>1. RowFits(NoRow, Most(v)', nextId')
      BY <1>1, <1>2, StillFits
    <3>2. q # 0 => RowFits(Row(Temporary, q), Most(v)', nextId')
      BY <1>1, <1>4 DEF RowFits, Row, Temporary
    <3> QED
      BY <3>1, <3>2
  <2>2. /\ cache' = [cache EXCEPT ![v] = IF q = 0 THEN NoRow ELSE Row(Temporary, q)]
        /\ UNCHANGED <<srv, fetch>> /\ cache \in [Variants -> CartRow]
    BY DEF ChangeWhilePending, CartShape, CartRows
  <2>3. \A w \in Variants : RowFits(cache'[w], Most(w)', nextId')
    BY <1>1, <1>2, <2>1, <2>2, StillFits
  <2>4. \A w \in Variants : srv[w].line = srv[w].qty
    BY DEF CartFits, RowsFit
  <2> QED
    BY <1>1, <1>2, <2>2, <2>3, <2>4, StillFits DEF RowsFit
<1>6. CallsFit'
  BY <1>1, <1>2, StillFits DEF CallsFit
<1>7. NotesFit'
  <2>1. /\ desiredQty' = [desiredQty EXCEPT ![v] = q] /\ pendingAdds' = pendingAdds /\ Asks(v, q)
        /\ queued' = queued \/ queued' = [queued EXCEPT ![v] = pendingAdds[v]]
        /\ desiredQty \in [Variants -> Int \cup {None}] /\ queued \in [Variants -> Nat]
    BY DEF ChangeWhilePending, CartShape
  <2>2. \A w \in Variants : intent'[w] \in 0..(1 + taps')
    BY <1>2, <1>4, <2>1, AsksFits
  <2>3. \A w \in Variants : pendingAdds[w] <= taps' /\ queued[w] <= taps'
                            /\ (desiredQty[w] # None => desiredQty[w] \in 0..Most(w)')
    BY <1>1, <1>2, NotesStillFit
  <2>4. \A w \in Variants : queued'[w] <= taps'
    BY <2>1, <2>3
  <2>5. \A w \in Variants : desiredQty'[w] # None => desiredQty'[w] \in 0..Most(w)'
    BY <1>4, <2>1, <2>3
  <2> QED
    BY <2>1, <2>2, <2>3, <2>4, <2>5 DEF NotesFit
<1> QED
  BY <1>2, <1>5, <1>6, <1>7 DEF CartFits, Grows

LEMMA ReadFits ==
  ASSUME CartShape, CartFits, Refetch \/ ServeFetch \/ FetchArrives \/ FetchFails \/ UNCHANGED cartVars, CartShape'
  PROVE  CartFits'
<1>1. /\ UNCHANGED <<taps, nextId, srv, calls, pendingAdds, desiredQty, queued, intent>>
      /\ taps \in Nat /\ nextId \in Nat /\ taps <= MaxTaps /\ IsFiniteSet(calls')
  BY DEF Refetch, ServeFetch, FetchArrives, FetchFails, cartVars, cartShown, notes, tapHistory, CartShape,
     CartFits, CountsFit
<1>2. losses' <= MaxLosses
  <2>1. losses' = losses \/ (losses' = losses + 1 /\ losses < MaxLosses)
    <3>1. CASE FetchFails
      BY <3>1 DEF FetchFails
    <3>2. CASE Refetch \/ ServeFetch \/ FetchArrives
      BY <3>2 DEF Refetch, ServeFetch, FetchArrives
    <3>3. CASE UNCHANGED cartVars
      BY <3>3 DEF cartVars, cartShown, notes, tapHistory, lapses
    <3> QED
      BY <3>1, <3>2, <3>3
  <2> QED
    BY <2>1, CartAssumption DEF CartFits, CountsFit, CartShape
<1>3. Grows
  BY <1>1, <1>2, QuietGrows DEF CartFits
<1>4. /\ cache' = cache \/ cache' = fetch.rows
      /\ \/ fetch' = fetch
         \/ fetch'.rows = srv
         \/ fetch'.rows = [v \in Variants |-> NoRow]
  BY NoRowIsRow DEF Refetch, ServeFetch, FetchArrives, FetchFails, cartVars, cartShown
<1>5. RowsFit'
  <2>1. \A v \in Variants : srv[v].line = srv[v].qty
    BY DEF CartFits, RowsFit
  <2>2. \A v \in Variants : /\ RowFits(srv[v], Most(v)', nextId') /\ RowFits(cache[v], Most(v)', nextId')
                            /\ RowFits(fetch.rows[v], Most(v)', nextId') /\ RowFits(NoRow, Most(v)', nextId')
    BY <1>1, <1>3, StillFits
  <2>3. \A v \in Variants : RowFits(fetch'.rows[v], Most(v)', nextId')
    BY <1>4, <2>2
  <2> QED
    BY <1>1, <1>4, <2>1, <2>2, <2>3 DEF RowsFit
<1>6. CallsFit'
  BY <1>1, <1>3, StillFits DEF CallsFit
<1>7. NotesFit'
  BY <1>1, <1>3, NotesStillFit DEF NotesFit
<1> QED
  BY <1>3, <1>5, <1>6, <1>7 DEF CartFits, Grows

\* A call that goes on with the row it had or one that fits.
LEMMA GoesOnFits ==
  ASSUME CartShape, CartShape', CartFits, Grows, NEW c \in calls, NEW d, SameCall(c, d),
         d.row = c.row \/ RowFits(d.row, Most(c.v)', nextId')
  PROVE  CallFits(d)'
<1>1. nextId' \in Int /\ taps' \in Int
  BY DEF CartShape
<1>2. CallFits(c)'
  BY <1>1, StillFits
<1> QED
  BY <1>2 DEF CallFits, SameCall

LEMMA ServeAddFits ==
  ASSUME CartShape, CartShape', CartFits, NEW c \in calls, NEW d \in CartCall, SameCall(c, d),
         calls' = (calls \ {c}) \cup {d}, c.at = "out", AddServed(c, d),
         UNCHANGED <<cache, fetch, pendingAdds, desiredQty, queued, intent, taps, losses>>
  PROVE  CartFits'
<1>1. c.v \in Variants /\ c.kind = "add" /\ c.qty = 1 /\ d.at = "served" /\ CallFits(c)
  BY DEF CartShape, AddServed, CartFits, CallsFit, CallFits
<1>2. taps <= MaxTaps /\ nextId' \in {nextId, nextId + 1} /\ nextId \in Nat /\ nextId' \in Nat /\ taps' \in Nat
  BY DEF CartFits, CountsFit, AddServed, CartShape
<1>3. Grows /\ Most(c.v)' >= Most(c.v) + 1
  BY <1>1, <1>2, ServeGrows DEF CartFits
<1>4. RowFits(d.row, Most(c.v)', nextId') /\ d.row.line = d.row.qty
  <2>1. /\ RowFits(srv[c.v], Most(c.v), nextId) /\ srv[c.v] \in CartRow /\ d.row \in CartRow
        /\ Most(c.v) \in Int /\ Most(c.v)' \in Int
    BY <1>1, <1>3, MostIsInt DEF CartFits, RowsFit, CountsFit, Grows, CartShape, CartRows, CartCall
  <2>2. d.row.qty = srv[c.v].qty + 1 /\ d.row.line = d.row.qty
    BY <1>1 DEF AddServed
  <2>3. d.row.qty \in 0..Most(c.v)' /\ d.row.qty # 0
    BY <1>3, <2>1, <2>2 DEF RowFits, CartRow
  <2>4. d.row.id \in Temporary..(nextId' - 1)
    BY <1>2, <2>1 DEF RowFits, CartRow, AddServed, Temporary
  <2> QED
    BY <2>2, <2>3, <2>4 DEF RowFits
<1>5. RowsFit'
  <2>1. srv' = [srv EXCEPT ![c.v] = d.row] /\ srv \in [Variants -> CartRow]
    BY DEF AddServed, CartShape, CartRows
  <2>2. \A v \in Variants : RowFits(srv[v], Most(v)', nextId') /\ srv[v].line = srv[v].qty
    BY <1>2, <1>3, StillFits DEF CartFits, RowsFit
  <2>3. \A v \in Variants : RowFits(srv'[v], Most(v)', nextId') /\ srv'[v].line = srv'[v].qty
    BY <1>1, <1>4, <2>1, <2>2
  <2> QED
    BY <1>2, <1>3, <2>3, StillFits DEF RowsFit
<1>6. CallsFit'
  <2>1. CallFits(d)'
    BY <1>3, <1>4, GoesOnFits
  <2> QED
    BY <1>2, <1>3, <2>1, StillFits DEF CallsFit
<1>7. NotesFit'
  BY <1>2, <1>3, NotesStillFit DEF NotesFit
<1> QED
  BY <1>3, <1>5, <1>6, <1>7 DEF CartFits, Grows

\* A call that is answered or lost, and is not an add that is served.
LEMMA AnswerFits ==
  ASSUME CartShape, CartShape', CartFits, NEW c \in calls, NEW d, SameCall(c, d),
         calls' = (calls \ {c}) \cup {d}, d.at # "out", d.row = c.row, losses' <= MaxLosses,
         \/ srv' = srv \/ srv' = [v \in Variants |-> NoRow]
         \/ ChangeServed(c, d),
         UNCHANGED <<nextId, cache, fetch, pendingAdds, desiredQty, queued, intent, taps>>
  PROVE  CartFits'
<1>1. taps <= MaxTaps /\ nextId \in Nat \ {0} /\ taps \in Nat /\ IsFiniteSet(calls')
  BY FS_AddElement, FS_RemoveElement DEF CartFits, CountsFit, CartShape
<1>2. Grows
  BY <1>1, QuietGrows DEF CartFits
<1>3. \A v \in Variants : /\ RowFits(srv[v], Most(v)', nextId') /\ srv[v].line = srv[v].qty
                          /\ RowFits(NoRow, Most(v)', nextId') /\ NoRow.line = NoRow.qty
  BY <1>1, <1>2, StillFits DEF CartFits, RowsFit, NoRow
<1>4. \A v \in Variants : RowFits(srv'[v], Most(v)', nextId') /\ srv'[v].line = srv'[v].qty
  <2>1. CASE srv' = srv \/ srv' = [v \in Variants |-> NoRow]
    BY <1>3, <2>1
  <2>2. CASE ChangeServed(c, d)
    <3>1. c.v \in Variants /\ c \in CartCall /\ c.kind # "clear"
      BY <2>2 DEF ChangeServed, CartShape
    <3>2. RowFits(srv[c.v], Most(c.v)', nextId') /\ srv[c.v] \in CartRow /\ Most(c.v)' \in Int
      BY <1>2, <1>3, <3>1 DEF CartShape, CartRows, Grows
    <3>3. c.qty \in 0..Most(c.v)'
      <4>1. CallFits(c)'
        BY <1>1, <1>2, StillFits
      <4> QED
        BY <3>1, <4>1 DEF CallFits
    <3>4. c.qty # 0 => /\ RowFits(Row(srv[c.v].id, c.qty), Most(c.v)', nextId')
                       /\ Row(srv[c.v].id, c.qty).line = Row(srv[c.v].id, c.qty).qty
      <4>1. srv[c.v].id \in Temporary..(nextId' - 1)
        BY <3>2 DEF RowFits
      <4> QED
        BY <3>2, <3>3, <4>1 DEF RowFits, Row, NoRow
    <3>5. srv' = [srv EXCEPT ![c.v] = IF c.qty = 0 THEN NoRow ELSE Row(srv[c.v].id, c.qty)]
      BY <2>2 DEF ChangeServed
    <3>6. srv \in [Variants -> CartRow]
      BY DEF CartShape, CartRows
    <3> QED
      BY <1>3, <3>1, <3>4, <3>5, <3>6
  <2> QED
    BY <2>1, <2>2
<1>5. RowsFit'
  BY <1>1, <1>2, <1>4, StillFits DEF RowsFit
<1>6. CallsFit'
  <2>1. CallFits(d)'
    BY <1>2, GoesOnFits
  <2> QED
    BY <1>1, <1>2, <2>1, StillFits DEF CallsFit
<1>7. NotesFit'
  BY <1>1, <1>2, NotesStillFit DEF NotesFit
<1> QED
  BY <1>2, <1>5, <1>6, <1>7 DEF CartFits, Grows

LEMMA ServeFits ==
  ASSUME CartShape, CartShape', RowsHaveIds, CartFits, NEW c \in calls, ServeCart(c) \/ LoseCall(c)
  PROVE  CartFits'
<1>1. UNCHANGED <<cache, fetch, pendingAdds, desiredQty, queued, intent, taps>>
  BY DEF ServeCart, LoseCall, cartShown, notes, tapHistory
<1>2. losses \in Nat /\ losses <= MaxLosses /\ MaxLosses \in Nat
  BY CartAssumption DEF CartShape, CartFits, CountsFit
<1>3. CASE ServeCart(c)
  <2>1. PICK d \in CartCall :
          /\ SameCall(c, d) /\ calls' = (calls \ {c}) \cup {d} /\ c.at = "out"
          /\ AddServed(c, d) \/ ChangeServed(c, d) \/ ClearServed(c, d) \/ NotServed(c, d)
    BY <1>3, ServeKinds
  <2>2. losses' = losses
    BY <1>3 DEF ServeCart
  <2>3. CASE AddServed(c, d)
    BY <1>1, <2>1, <2>2, <2>3, ServeAddFits
  <2>4. CASE ChangeServed(c, d)
    <3>1. d.at = "served" /\ d.row = c.row /\ UNCHANGED nextId
      BY <2>4 DEF ChangeServed
    <3> QED
      BY <1>1, <1>2, <2>1, <2>2, <2>4, <3>1, AnswerFits
  <2>5. CASE ClearServed(c, d) \/ NotServed(c, d)
    <3>1. /\ d.at # "out" /\ d.row = c.row /\ UNCHANGED nextId
          /\ srv' = srv \/ srv' = [v \in Variants |-> NoRow]
      BY <2>5 DEF ClearServed, NotServed
    <3> QED
      BY <1>1, <1>2, <2>1, <2>2, <3>1, AnswerFits
  <2> QED
    BY <2>1, <2>3, <2>4, <2>5
<1>4. CASE LoseCall(c)
  <2>1. PICK d \in CartCall : SameCall(c, d) /\ calls' = (calls \ {c}) \cup {d} /\ d.at = "failed" /\ d.row = c.row
    BY <1>4, LoseKind
  <2>2. losses' <= MaxLosses /\ UNCHANGED <<srv, nextId>>
    BY <1>2, <1>4 DEF LoseCall
  <2> QED
    BY <1>1, <2>1, <2>2, AnswerFits
<1> QED
  BY <1>3, <1>4

\* Every row that is shown when a request ends fits.
LEMMA EndRows ==
  ASSUME CartShape, CartShape', CartFits, Grows, UNCHANGED srv, fetch' = fetch \/ fetch' = Fetching,
         \A v \in Variants : RowFits(cache'[v], Most(v)', nextId')
  PROVE  RowsFit'
<1>1. nextId' \in Int /\ taps' \in Int
  BY DEF CartShape
<1>2. \A v \in Variants : srv[v].line = srv[v].qty
  BY DEF CartFits, RowsFit
<1>3. \A v \in Variants : RowFits(srv[v], Most(v)', nextId') /\ RowFits(fetch.rows[v], Most(v)', nextId')
                          /\ RowFits(NoRow, Most(v)', nextId')
  BY <1>1, StillFits
<1>4. \A v \in Variants : RowFits(fetch'.rows[v], Most(v)', nextId')
  BY <1>3, NoRowIsRow
<1> QED
  BY <1>2, <1>3, <1>4 DEF RowsFit

LEMMA RestoredFits ==
  ASSUME CartShape, CartShape', CartFits, Grows, NEW c \in calls
  PROVE  \A v \in Variants : RowFits(Restored(c)[v], Most(v)', nextId')
<1>1. nextId' \in Int /\ taps' \in Int
  BY DEF CartShape
<1>2. CallFits(c)' /\ \A v \in Variants : RowFits(cache[v], Most(v)', nextId')
  BY <1>1, StillFits
<1> QED
  BY <1>2 DEF CallFits, Restored

LEMMA SettleFits ==
  ASSUME CartShape, CartShape', CartFits, NEW c \in calls, Settle(c) \/ SettleSync(c)
  PROVE  CartFits'
<1>1. /\ UNCHANGED <<srv, nextId, pendingAdds, desiredQty, queued, intent, taps, losses>>
      /\ calls' = calls \ {c} /\ cache' \in {cache, Restored(c)}
  BY DEF Settle, SettleSync, notes, tapHistory
<1>2. fetch' = fetch \/ fetch' = Fetching
  BY InvalidateShape DEF Settle, SettleSync
<1>3. /\ taps \in Nat /\ taps <= MaxTaps /\ losses <= MaxLosses /\ nextId \in Nat /\ IsFiniteSet(calls')
  BY <1>1, FS_RemoveElement DEF CartFits, CountsFit, CartShape
<1>4. Grows
  BY <1>1, <1>3, QuietGrows DEF CartFits
<1>5. \A v \in Variants : RowFits(cache'[v], Most(v)', nextId')
  <2>1. \A v \in Variants : RowFits(cache[v], Most(v)', nextId') /\ RowFits(Restored(c)[v], Most(v)', nextId')
    BY <1>1, <1>3, <1>4, StillFits, RestoredFits
  <2> QED
    BY <1>1, <2>1
<1>6. RowsFit'
  BY <1>1, <1>2, <1>4, <1>5, EndRows
<1>7. CallsFit'
  BY <1>1, <1>3, <1>4, StillFits DEF CallsFit
<1>8. NotesFit'
  BY <1>1, <1>3, <1>4, NotesStillFit DEF NotesFit
<1> QED
  BY <1>4, <1>6, <1>7, <1>8 DEF CartFits, Grows

LEMMA SettleAddFits ==
  ASSUME CartShape, CartShape', RowsHaveIds, CartFits, NEW c \in calls, SettleAdd(c)
  PROVE  CartFits'
<1>1. /\ UNCHANGED <<srv, nextId, intent, taps, losses>>
      /\ cache' \in {cache, Restored(c), [cache EXCEPT ![c.v] = Swapped(c)]}
      /\ pendingAdds' = [pendingAdds EXCEPT ![c.v] = 0]
      /\ \/ UNCHANGED <<desiredQty, queued>>
         \/ desiredQty' = [desiredQty EXCEPT ![c.v] = None] /\ queued' = [queued EXCEPT ![c.v] = 0]
      /\ c.kind = "add"
  BY DEF SettleAdd, tapHistory
<1>2. fetch' = fetch \/ fetch' = Fetching
  BY InvalidateShape DEF SettleAdd
<1>3. /\ taps \in Nat /\ taps <= MaxTaps /\ losses <= MaxLosses /\ nextId \in Nat \ {0} /\ c.v \in Variants
  BY <1>1 DEF CartFits, CountsFit, CartShape
<1>4. \/ calls' = calls \ {c}
      \/ \E d \in CartCall :
           /\ calls' = (calls \ {c}) \cup {d} /\ d.n = c.n /\ d.kind = "sync" /\ d.v = c.v
           /\ d.qty = desiredQty[c.v] /\ desiredQty[c.v] # None /\ d.before = NoSnapshot /\ d.row = NoRow
  <2>1. c \in CartCall
    BY DEF CartShape
  <2>2. Follow(c) = {} \/ \E d \in CartCall : Follow(c) = {d}
    BY FollowKind
  <2>3. \A d \in Follow(c) :
          /\ d.n = c.n /\ d.kind = "sync" /\ d.v = c.v /\ d.qty = desiredQty[c.v] /\ desiredQty[c.v] # None
          /\ d.before = NoSnapshot /\ d.row = NoRow
    <3> TAKE d \in Follow(c)
    <3>1. /\ desiredQty[c.v] # None
          /\ d = [c EXCEPT !.kind = "sync", !.id = c.row.id, !.qty = desiredQty[c.v], !.before = NoSnapshot,
                           !.at = "out", !.row = NoRow]
      BY DEF Follow
    <3> QED
      BY <2>1, <3>1 DEF CartCall
  <2>4. calls' = (calls \ {c}) \cup Follow(c)
    BY DEF SettleAdd
  <2> QED
    BY <2>2, <2>3, <2>4
<1>5. IsFiniteSet(calls') /\ \A d \in calls' : d.kind = "add" /\ d.at = "out" => d \in calls
  <2>1. IsFiniteSet(calls \ {c})
    BY FS_RemoveElement DEF CartFits, CountsFit
  <2>2. IsFiniteSet(calls')
    BY <1>4, <2>1, FS_AddElement
  <2>3. \A d \in calls' : d.kind = "add" /\ d.at = "out" => d \in calls
    BY <1>4
  <2> QED
    BY <2>2, <2>3
<1>6. Grows
  BY <1>1, <1>3, <1>5, QuietGrows DEF CartFits
<1>7. /\ CallFits(c)' /\ \A v \in Variants : RowFits(cache[v], Most(v)', nextId')
                                             /\ RowFits(NoRow, Most(v)', nextId')
      /\ Most(c.v)' \in Int
  BY <1>1, <1>3, <1>6, StillFits DEF Grows
<1>8. desiredQty[c.v] # None => desiredQty[c.v] \in 0..Most(c.v)'
  BY <1>1, <1>3, <1>6, NotesStillFit
<1>9. \A v \in Variants : RowFits(cache'[v], Most(v)', nextId')
  <2>1. RowFits(Swapped(c), Most(c.v)', nextId')
    <3>1. RowFits(c.row, Most(c.v)', nextId')
      BY <1>1, <1>7 DEF CallFits
    <3>2. desiredQty[c.v] # None /\ desiredQty[c.v] > 0 =>
            RowFits(Row(c.row.id, desiredQty[c.v]), Most(c.v)', nextId')
      BY <1>7, <1>8, <3>1 DEF RowFits, Row
    <3> QED
      BY <1>3, <1>7, <3>1, <3>2 DEF Swapped
  <2>2. \A v \in Variants : RowFits([cache EXCEPT ![c.v] = Swapped(c)][v], Most(v)', nextId')
    BY <1>7, <2>1 DEF CartShape, CartRows
  <2>3. \A v \in Variants : RowFits(Restored(c)[v], Most(v)', nextId')
    BY <1>6, RestoredFits
  <2> QED
    BY <1>1, <1>7, <2>2, <2>3
<1>10. RowsFit'
  BY <1>1, <1>2, <1>6, <1>9, EndRows
<1>11. CallsFit'
  <2>1. \A e \in calls : CallFits(e)'
    BY <1>1, <1>3, <1>6, StillFits
  <2>2. ASSUME NEW d \in CartCall, d.n = c.n, d.kind = "sync", d.v = c.v, d.qty = desiredQty[c.v],
               desiredQty[c.v] # None, d.before = NoSnapshot, d.row = NoRow
        PROVE  CallFits(d)'
    <3>1. \A v \in Variants : RowFits(d.before.rows[v], Most(v)', nextId')
      BY <1>7, <2>2, NoRowIsRow DEF NoSnapshot
    <3>2. d.n \in 1..taps' /\ d.qty \in 0..Most(d.v)' /\ RowFits(d.row, Most(d.v)', nextId')
      BY <1>3, <1>7, <1>8, <2>2 DEF CallFits
    <3> QED
      BY <2>2, <3>1, <3>2 DEF CallFits
  <2> QED
    BY <1>4, <2>1, <2>2 DEF CallsFit
<1>12. NotesFit'
  <2>1. \A v \in Variants :
          /\ pendingAdds[v] <= taps' /\ queued[v] <= taps'
          /\ desiredQty[v] # None => desiredQty[v] \in 0..Most(v)'
          /\ intent[v] \in 0..(1 + taps')
    BY <1>1, <1>3, <1>6, NotesStillFit
  <2>2. \A v \in Variants : pendingAdds'[v] \in {0, pendingAdds[v]} /\ queued'[v] \in {0, queued[v]}
                            /\ desiredQty'[v] \in {None, desiredQty[v]}
    BY <1>1 DEF CartShape
  <2> QED
    BY <1>1, <1>3, <2>1, <2>2 DEF NotesFit
<1> QED
  BY <1>6, <1>10, <1>11, <1>12 DEF CartFits, Grows

LEMMA FitsStart ==
  ASSUME CartInit
  PROVE  CartFits
<1>1. /\ calls = {} /\ taps = 0 /\ losses = 0 /\ nextId = Cardinality(Variants) + 1
      /\ MaxTaps \in Nat /\ MaxLosses \in Nat /\ Cardinality(Variants) \in Nat
      /\ IsFiniteSet(calls) /\ \A vs : AddsOut(vs) = {}
  BY CartAssumption, FS_CardinalityType, FS_EmptySet DEF CartInit, AddsOut, OutIn
<1>2. \A v \in Variants : Most(v) = 1
  BY <1>1, FS_EmptySet DEF Most
<1>3. CountsFit
  BY <1>1, <1>2, FS_EmptySet DEF CountsFit
<1>4. \A v \in Variants : RowFits(NoRow, 1, nextId) /\ RowFits(Row(Numbering[v], 1), 1, nextId)
  <2> TAKE v \in Variants
  <2>1. Numbering[v] \in 1..Cardinality(Variants)
    BY FirstRows, CartAssumption
  <2> QED
    BY <1>1, <2>1 DEF RowFits, NoRow, Row, Temporary
<1>5. \A v \in Variants : srv[v] \in {NoRow, Row(Numbering[v], 1)}
  BY DEF CartInit
<1>6. \A v \in Variants : RowFits(srv[v], 1, nextId) /\ srv[v].line = srv[v].qty /\ srv[v].qty \in 0..1
  BY <1>4, <1>5 DEF NoRow, Row, RowFits
<1>7. RowsFit
  <2>1. \A v \in Variants : cache[v] \in {srv[v], NoRow} /\ fetch.rows[v] = NoRow
    BY NoRowIsRow DEF CartInit
  <2> QED
    BY <1>2, <1>4, <1>6, <2>1 DEF RowsFit
<1>8. NotesFit
  BY <1>1, <1>2, <1>6 DEF CartInit, NotesFit
<1> QED
  BY <1>1, <1>3, <1>7, <1>8 DEF CartFits, CallsFit

LEMMA FitsSteps ==
  ASSUME CartInv, CartFits, [CartNext]_cartVars
  PROVE  CartFits'
<1>1. CartShape /\ CartShape' /\ RowsHaveIds
  BY CartSteps, CartAssumption DEF CartInv
<1>2. CASE Refetch \/ ServeFetch \/ FetchArrives \/ FetchFails \/ UNCHANGED cartVars
  BY <1>1, <1>2, ReadFits
<1>3. CASE ClearCart
  BY <1>1, <1>3, ClearFits
<1>4. ASSUME NEW v \in Variants,
             \/ ProductCard(v) \/ ProductScreen(v) \/ HorizontalProductCard(v)
             \/ MiniProductTile(v) \/ CartPageRow(v)
      PROVE  CartFits'
  <2>1. /\ cache[v].qty \in Int /\ cache[v].qty + 1 \in Int /\ cache[v].qty - 1 \in Int
        /\ cache[v] # NoRow => cache[v].qty >= 1
    BY <1>1 DEF CartShape, CartRows, CartRow, CartFits, RowsFit, RowFits
  <2>2. CASE StartAdd(v) \/ RemoveItem(v)
    BY <1>1, <2>2, AddFits, RemoveFits
  <2>3. CASE cache[v] # NoRow /\ UpdateItem(v, cache[v].qty + 1)
    BY <1>1, <2>1, <2>3, UpdateFits
  <2>4. CASE cache[v].qty > 1 /\ UpdateItem(v, cache[v].qty - 1)
    BY <1>1, <2>1, <2>4, UpdateFits
  <2>5. CASE cache[v] # NoRow /\ ChangeWhilePending(v, cache[v].qty + 1)
    BY <1>1, <2>1, <2>5, ChangeFits
  <2>6. CASE cache[v] # NoRow /\ ChangeWhilePending(v, cache[v].qty - 1)
    BY <1>1, <2>1, <2>6, ChangeFits
  <2> QED
    BY <1>1, <1>4, <2>2, <2>3, <2>4, <2>5, <2>6, TapQuantities
<1>5. ASSUME NEW c \in calls,
             ServeCart(c) \/ LoseCall(c) \/ Settle(c) \/ SettleAdd(c) \/ SettleSync(c)
      PROVE  CartFits'
  BY <1>1, <1>5, ServeFits, SettleFits, SettleAddFits
<1> QED
  BY <1>2, <1>3, <1>4, <1>5 DEF CartNext

\* No row of the cart, shown or kept, noted or on its way, is ever of more pieces than were tapped for
\* and had at first, nor of none; every row of the server has an id that was given, and the total of
\* the pieces it is of.
THEOREM CartTypeCorrect == CartSpec => []CartTypeOK
<1>1. CartInit => CartInv /\ CartFits
  BY CartStarts, FitsStart, CartAssumption
<1>2. CartInv /\ CartFits /\ [CartNext]_cartVars => CartInv' /\ CartFits'
  BY CartSteps, FitsSteps, CartAssumption
<1>3. CartInv /\ CartFits => CartTypeOK
  <2> SUFFICES ASSUME CartInv, CartFits PROVE CartTypeOK
    OBVIOUS
  <2>1. CartShape /\ RowsHaveIds /\ RowsFit /\ CallsFit /\ NotesFit /\ CountsFit
    BY DEF CartInv, CartFits
  <2>2. /\ taps \in 0..MaxTaps /\ losses \in 0..MaxLosses /\ nextId \in Nat /\ MaxTaps \in Nat
        /\ Cardinality(Variants) \in Nat
        /\ nextId - 1 <= MaxTaps + Cardinality(Variants)
    <3>1. Cardinality(AddsOut(Variants)) \in Nat /\ Cardinality(Variants) \in Nat
      BY <2>1, OutIsCounted, FS_CardinalityType, CartAssumption DEF CountsFit, AddsOut
    <3> QED
      BY <2>1, <3>1, CartAssumption DEF CartShape, CountsFit
  <2>3. \A v \in Variants : Most(v) \in Int /\ Most(v) <= MaxTaps + 1
    BY <2>1, <2>2, MostIsInt DEF CountsFit
  <2>4. \A v \in Variants : \A r \in CartRow : RowFits(r, Most(v), nextId) => r \in [id : Ids, qty : Qty, line : Qty]
    BY <2>2, <2>3 DEF RowFits, CartRow, Ids, Qty, Temporary
  <2>5. srv \in Carts /\ cache \in Carts /\ fetch.rows \in Carts
    <3>1. fetch.rows \in CartRows
      BY <2>1 DEF CartShape
    <3> QED
      BY <2>1, <2>4, <3>1 DEF CartShape, CartRows, RowsFit, Carts
  <2>6. \A v \in Variants : srv[v].id # Temporary /\ srv[v].line = srv[v].qty
    BY <2>1 DEF RowsHaveIds, RowsFit, Temporary
  <2>7. \A c \in calls : c.kind \in Kinds /\ c.at \in {"out", "served", "failed"} /\ c.n \in 1..MaxTaps
    <3> TAKE c \in calls
    <3>1. c \in CartCall /\ c.n \in 1..taps
      BY <2>1 DEF CartShape, CallsFit, CallFits
    <3> QED
      BY <2>2, <3>1 DEF CartCall
  <2>8. pendingAdds \in [Variants -> 0..MaxTaps] /\ queued \in [Variants -> 0..MaxTaps]
    BY <2>1, <2>2 DEF CartShape, NotesFit
  <2>9. intent \in [Variants -> Qty]
    BY <2>1, <2>2 DEF CartShape, NotesFit, Qty
  <2>10. desiredQty \in [Variants -> Qty \cup {None}]
    <3>1. \A v \in Variants : desiredQty[v] \in Qty \cup {None}
      BY <2>1, <2>2, <2>3 DEF NotesFit, Qty
    <3> QED
      BY <2>1, <3>1 DEF CartShape
  <2> QED
    BY <2>1, <2>2, <2>5, <2>6, <2>7, <2>8, <2>9, <2>10 DEF CartShape, CartTypeOK
<1> QED
  BY <1>1, <1>2, <1>3, PTL DEF CartSpec
=============================================================================
