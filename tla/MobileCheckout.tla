--------------------------- MODULE MobileCheckout ---------------------------
(***************************************************************************)
(* The checkout of the mobile app: cash on delivery in two calls, and      *)
(* pay-first online checkout, where the backend opens a session, Razorpay  *)
(* takes the money in a sheet and the app asks the backend to confirm it.  *)
(* The session is remembered on the phone until a definite answer, and     *)
(* asked about again at every launch and return to the foreground.         *)
(* The backend's side of a session is CheckoutSession; here a captured one *)
(* becomes an order, or is refused, when anybody asks.  `refunded' stands  *)
(* for REFUNDED and for REFUND_FAILED, whose money is still owed.  The     *)
(* session and the proof that the app sends are its own and genuine: the   *)
(* refusals of a forged one (checkout_session.py:200-214) are left out.    *)
(* One basket and one phone, signed in; what is remembered is not two      *)
(* hours old.  A definition named Slip_... is a plausible mistake in the   *)
(* one that follows it, kept to show that a property catches it.           *)
(***************************************************************************)
EXTENDS Integers, FiniteSets

CONSTANTS
  MaxSessions,      \* bound: checkout sessions
  ConfirmAttempts,  \* CONFIRM_ATTEMPTS
  MaxPresses,       \* bound: presses of the Pay button and visits of the screen
  MaxFailures,      \* bound: calls without an answer
  MaxKills          \* bound: times the app is killed

ASSUME CheckoutBounds ==
  /\ MaxSessions \in Nat \ {0} /\ ConfirmAttempts \in Nat \ {0}
  /\ MaxPresses \in Nat /\ MaxFailures \in Nat /\ MaxKills \in Nat

VARIABLES
  session,     \* per session: where its money is
  basket,      \* the basket in the database has items
  order,       \* the cash-on-delivery order
  screen, shown,   \* the screen on top; the app shows a basket with items
  sheet,       \* the session whose Razorpay sheet is open, or 0
  remembered,  \* AsyncStorage: the session to ask about, or 0
  ops,         \* the hooks' operations that run
  resume,      \* the check of usePendingPaymentResume, if one runs
  told,        \* history: per session what the customer was told of it
  cashTold,    \* history: the last the customer was told of the cash order
  latest,      \* history: the session whose sheet opened last
  mixed,       \* history: the answer about one session made the phone forget another
  unseen,      \* history: a definite answer came when nothing showed it
  presses, failures, kills

backend == <<session, basket, order>>
phone == <<screen, shown, sheet>>
history == <<told, cashTold, latest, mixed, unseen>>
bounds == <<presses, failures, kills>>
vars == <<backend, phone, remembered, ops, resume, history, bounds>>

Sessions == 1..MaxSessions
Paid == {"authorised", "captured", "placed", "refunded"}
Answers == {"none", "ok", "notConfirmed", "refused", "unknown"}
Idle == [on |-> FALSE, s |-> 0, answer |-> "none"]

TypeOK ==
  /\ session \in [Sessions -> {"none", "created", "open"} \cup Paid]
  /\ basket \in BOOLEAN /\ order \in {"none", "pending", "paid", "confirmed", "cancelled"}
  /\ screen \in {"away", "checkout", "success", "orders", "failed"}
  /\ shown \in BOOLEAN /\ sheet \in Sessions \cup {0}
  /\ remembered \in Sessions \cup {0}
  /\ ops \subseteq [kind : {"start", "complete", "dismiss", "cash", "cashPay", "cancel"},
                    s : Sessions \cup {0}, attempt : 1..ConfirmAttempts, mine : BOOLEAN,
                    at : {"out", "answered", "asleep"}, answer : Answers]
  /\ resume \in [on : BOOLEAN, s : Sessions \cup {0}, answer : Answers]
  /\ told \in [Sessions -> {"nothing", "pending", "unknown", "refused", "placed"}]
  /\ cashTold \in {"nothing", "failed", "placed"}
  /\ latest \in Sessions \cup {0} /\ mixed \in BOOLEAN /\ unseen \in BOOLEAN
  /\ presses \in 0..MaxPresses /\ failures \in 0..MaxFailures /\ kills \in 0..MaxKills

Init ==
  /\ session = [s \in Sessions |-> "none"]
  /\ basket = TRUE /\ order = "none"
  /\ screen = "checkout" /\ shown = TRUE /\ sheet = 0
  /\ remembered = 0 /\ ops = {} /\ resume = Idle
  /\ told = [s \in Sessions |-> "nothing"] /\ cashTold = "nothing"
  /\ latest = 0 /\ mixed = FALSE /\ unseen = FALSE
  /\ presses = 0 /\ failures = 0 /\ kills = 0

-----------------------------------------------------------------------------
(* Razorpay and the backend. *)

\* A UPI app may take the money after the sheet has gone.
CustomerPays(s) ==
  /\ session[s] = "open"
  /\ session' = [session EXCEPT ![s] = "authorised"]
  /\ UNCHANGED <<basket, order, phone, remembered, ops, resume, history, bounds>>

Capture(s) ==
  /\ session[s] = "authorised"
  /\ session' = [session EXCEPT ![s] = "captured"]
  /\ UNCHANGED <<basket, order, phone, remembered, ops, resume, history, bounds>>

\* A captured session takes the basket, or the order the basket has become, or its money
\* goes back.  A cash order without a payment is paid by it.
Finalize(s, outcome) ==
  /\ session[s] = "captured"
  /\ session' = [session EXCEPT ![s] = outcome]
  /\ basket' = (basket /\ outcome # "placed")
  /\ order' = IF outcome = "placed" /\ order = "pending" THEN "paid" ELSE order

Webhook(s) ==
  /\ \E outcome \in {"placed", "refunded"} : Finalize(s, outcome)
  /\ UNCHANGED <<phone, remembered, ops, resume, history, bounds>>

\* What confirm and verify answer about s.
Asked(s, answer) ==
  \/ answer = "notConfirmed" /\ session[s] \in {"created", "open", "authorised"} /\ UNCHANGED backend
  \/ answer = "ok" /\ (Finalize(s, "placed") \/ (session[s] = "placed" /\ UNCHANGED backend))
  \/ answer = "refused" /\ (Finalize(s, "refunded") \/ (session[s] = "refunded" /\ UNCHANGED backend))

\* start: a new session; the one that is pending for this basket; or a refusal - no
\* stock, or the pending one turns out to be paid and is settled.
Opened(s, answer) ==
  \/ /\ answer = "ok" /\ basket
     /\ session[s] = "none" /\ \A t \in 1..(s - 1) : session[t] # "none"
     /\ session' = [session EXCEPT ![s] = "created"] /\ UNCHANGED <<basket, order>>
  \/ answer = "ok" /\ basket /\ session[s] \in {"created", "open", "authorised"} /\ UNCHANGED backend
  \/ answer = "refused" /\ UNCHANGED backend
  \/ answer = "refused" /\ basket /\ \E outcome \in {"placed", "refunded"} : Finalize(s, outcome)

\* Cash on delivery: the cart becomes an order, or the one it became is returned.
Ordered(s, answer) ==
  \/ answer = "ok" /\ basket /\ basket' = FALSE /\ order' = "pending" /\ s = 0 /\ UNCHANGED session
  \/ answer = "ok" /\ ~basket /\ s = 0 /\ order # "none" /\ UNCHANGED backend
  \/ answer = "ok" /\ ~basket /\ s # 0 /\ session[s] = "placed" /\ UNCHANGED backend
  \/ answer = "refused" /\ s = 0 /\ UNCHANGED backend

\* A payment is attached to the cash order; what a session has paid is paid already.
Attached(s, answer) ==
  \/ answer = "ok" /\ s = 0 /\ order \in {"pending", "confirmed"} /\ order' = "confirmed" /\ UNCHANGED <<session, basket>>
  \/ answer = "refused" /\ (s # 0 \/ order \in {"paid", "cancelled"}) /\ UNCHANGED backend

Cancelled(s, answer) ==
  \/ answer = "ok" /\ s = 0 /\ order' = "cancelled" /\ UNCHANGED <<session, basket>>
  \/ answer \in {"ok", "refused"} /\ s # 0 /\ UNCHANGED backend

Served(o, s, answer) ==
  CASE o.kind = "start" -> Opened(s, answer)
    [] o.kind \in {"complete", "dismiss"} -> s = o.s /\ Asked(s, answer)
    [] o.kind = "cash" -> Ordered(s, answer)
    [] o.kind = "cashPay" -> s = o.s /\ Attached(s, answer)
    [] o.kind = "cancel" -> s = o.s /\ Cancelled(s, answer)

Serve(o) ==
  /\ o.at = "out"
  /\ \E s \in Sessions \cup {0}, answer \in {"ok", "notConfirmed", "refused"} :
       /\ s = 0 => o.kind \notin {"start", "complete", "dismiss"}
       /\ Served(o, s, answer)
       /\ ops' = (ops \ {o}) \cup {[o EXCEPT !.s = s, !.at = "answered", !.answer = answer]}
  /\ UNCHANGED <<phone, remembered, resume, history, bounds>>

\* Offline, a time-out, a 5xx: the call was served before, or never will be.
Lose(o) ==
  /\ o.at \in {"out", "answered"} /\ o.answer # "unknown" /\ failures < MaxFailures
  /\ failures' = failures + 1
  /\ ops' = (ops \ {o}) \cup {[o EXCEPT !.at = "answered", !.answer = "unknown"]}
  /\ UNCHANGED <<backend, phone, remembered, resume, history, presses, kills>>

-----------------------------------------------------------------------------
(* The checkout screen. *)

Busy == \E o \in ops : o.mine
Op(kind, s) == [kind |-> kind, s |-> s, attempt |-> 1, mine |-> TRUE, at |-> "out", answer |-> "none"]

\* The screen in front goes, and with it the sheet and the state of its hooks.
Go(to) == screen' = to /\ sheet' = 0 /\ UNCHANGED shown
Orphans(running) == {[o EXCEPT !.mine = FALSE] : o \in running}

OnScreen == screen = "checkout" /\ shown

PressPay(kind) ==
  /\ OnScreen /\ sheet = 0 /\ ~Busy
  /\ presses < MaxPresses /\ presses' = presses + 1
  /\ ops' = ops \cup {Op(kind, 0)}
  /\ UNCHANGED <<backend, phone, remembered, resume, history, failures, kills>>

Slip_StartAnswered(o) ==
  /\ o.kind = "start" /\ o.at = "answered"
  /\ ops' = ops \ {o}
  /\ IF o.answer = "ok"
     THEN /\ latest' = o.s
          /\ sheet' = IF o.mine /\ OnScreen THEN o.s ELSE sheet
          /\ session' = [session EXCEPT ![o.s] = IF @ = "created" THEN "open" ELSE @]
     ELSE UNCHANGED <<latest, sheet, session>>
  /\ UNCHANGED <<basket, order, screen, shown, resume, remembered, told, cashTold, mixed, unseen, bounds>>

\* start: remembered before the sheet opens.
StartAnswered(o) ==
  /\ o.kind = "start" /\ o.at = "answered"
  /\ ops' = ops \ {o}
  /\ IF o.answer = "ok"
     THEN /\ remembered' = o.s /\ latest' = o.s
          /\ sheet' = IF o.mine /\ OnScreen THEN o.s ELSE sheet
          /\ session' = [session EXCEPT ![o.s] = IF @ = "created" THEN "open" ELSE @]
     ELSE UNCHANGED <<remembered, latest, sheet, session>>
  /\ UNCHANGED <<basket, order, screen, shown, resume, told, cashTold, mixed, unseen, bounds>>

SheetSucceeds ==
  /\ sheet # 0 /\ session[sheet] \in Paid
  /\ ops' = ops \cup {Op("complete", sheet)}
  /\ sheet' = 0
  /\ UNCHANGED <<backend, screen, shown, remembered, resume, history, bounds>>

\* The customer closes the sheet, or its success is lost on the way back.
SheetDismissed ==
  /\ sheet # 0
  /\ ops' = ops \cup {Op("dismiss", sheet)}
  /\ sheet' = 0
  /\ UNCHANGED <<backend, screen, shown, remembered, resume, history, bounds>>

-----------------------------------------------------------------------------
(* Answers about a session. *)

Slip_Unknown(answer) == FALSE

\* isUnknownOutcome.
Unknown(answer) == answer = "unknown"

\* forgetPendingCheckout does not ask which session is remembered.
Forget(s) ==
  /\ remembered' = 0
  /\ mixed' = (mixed \/ remembered \notin {0, s})

\* What the customer was told last; nothing vague replaces a definite answer.
Tell(s, what) ==
  told' = IF what \in {"pending", "unknown"} /\ told[s] \in {"placed", "refused"} THEN told ELSE [told EXCEPT ![s] = what]

\* setError: seen while the screen that asked is in front and its basket has items.
ShowError(o, what) ==
  /\ IF o.mine /\ OnScreen THEN Tell(o.s, what) ELSE UNCHANGED told
  /\ unseen' = (unseen \/ (what = "refused" /\ ~(o.mine /\ OnScreen)))

\* The success screen replaces whatever is in front.
Success(o) ==
  /\ Forget(o.s)
  /\ Tell(o.s, "placed")
  /\ Go("success") /\ ops' = Orphans(ops \ {o})
  /\ UNCHANGED unseen

Refused(o) ==
  /\ Forget(o.s) /\ ShowError(o, "refused")
  /\ ops' = ops \ {o}
  /\ UNCHANGED phone

\* An answer that says nothing of the payment: asked again, then handed over.
TryAgain(o) ==
  IF o.attempt < ConfirmAttempts
  THEN /\ ops' = (ops \ {o}) \cup {[o EXCEPT !.at = "asleep", !.answer = "none"]}
       /\ UNCHANGED <<told, phone>>
  ELSE /\ Tell(o.s, "pending")
       /\ Go("orders") /\ ops' = Orphans(ops \ {o})

CompleteAnswered(o) ==
  /\ o.kind = "complete" /\ o.at = "answered"
  /\ \/ o.answer = "ok" /\ Success(o)
     \/ /\ o.answer = "notConfirmed" \/ Unknown(o.answer)
        /\ TryAgain(o)
        /\ UNCHANGED <<remembered, mixed, unseen>>
     \/ o.answer \notin {"ok", "notConfirmed"} /\ ~Unknown(o.answer) /\ Refused(o)
  /\ UNCHANGED <<backend, resume, cashTold, latest, bounds>>

Slip_Wake(o) ==
  /\ o.at = "asleep"
  /\ ops' = (ops \ {o}) \cup {[o EXCEPT !.at = "out"]}
  /\ UNCHANGED <<backend, phone, remembered, resume, history, bounds>>

Wake(o) ==
  /\ o.at = "asleep"
  /\ ops' = (ops \ {o}) \cup {[o EXCEPT !.at = "out", !.attempt = o.attempt + 1]}
  /\ UNCHANGED <<backend, phone, remembered, resume, history, bounds>>

DismissAnswered(o) ==
  /\ o.kind = "dismiss" /\ o.at = "answered"
  /\ \/ o.answer = "ok" /\ Success(o)
     \/ /\ o.answer = "notConfirmed"
        /\ ops' = ops \ {o}
        /\ UNCHANGED <<phone, remembered, told, mixed, unseen>>
     \/ /\ Unknown(o.answer)
        /\ ShowError(o, "unknown") /\ ops' = ops \ {o}
        /\ UNCHANGED <<phone, remembered, mixed>>
     \/ o.answer \notin {"ok", "notConfirmed"} /\ ~Unknown(o.answer) /\ Refused(o)
  /\ UNCHANGED <<backend, resume, cashTold, latest, bounds>>

-----------------------------------------------------------------------------
(* Cash on delivery. *)

CashAnswered(o) ==
  /\ o.kind = "cash" /\ o.at = "answered"
  /\ ops' = (ops \ {o}) \cup (IF o.answer = "ok" THEN {[o EXCEPT !.kind = "cashPay", !.at = "out", !.answer = "none"]} ELSE {})
  /\ UNCHANGED <<backend, phone, remembered, resume, history, bounds>>

\* The screen of a failed payment is the checkout screen's own, the success screen's is not.
CashPayAnswered(o) ==
  /\ o.kind = "cashPay" /\ o.at = "answered"
  /\ IF o.answer = "ok"
     THEN Go("success") /\ cashTold' = "placed" /\ ops' = Orphans(ops \ {o})
     ELSE IF o.mine
     THEN Go("failed") /\ cashTold' = "failed" /\ ops' = ops \ {o}
     ELSE UNCHANGED <<phone, cashTold>> /\ ops' = ops \ {o}
  /\ UNCHANGED <<backend, remembered, resume, told, latest, mixed, unseen, bounds>>

CancelOrder ==
  /\ screen = "failed" /\ ~Busy
  /\ \E s \in Sessions \cup {0} :
       /\ IF s = 0 THEN order # "none" ELSE session[s] = "placed"
       /\ ops' = ops \cup {Op("cancel", s)}
  /\ UNCHANGED <<backend, phone, remembered, resume, history, bounds>>

CancelAnswered(o) ==
  /\ o.kind = "cancel" /\ o.at = "answered"
  /\ ops' = ops \ {o}
  /\ IF o.answer = "ok" /\ o.mine THEN Go("checkout") ELSE UNCHANGED phone
  /\ UNCHANGED <<backend, remembered, resume, history, bounds>>

-----------------------------------------------------------------------------
(* Around the screen. *)

\* The cart is read again; without items the screen has no sheet and no overlay.
CartRead ==
  /\ shown # basket
  /\ shown' = basket
  /\ sheet' = IF basket THEN sheet ELSE 0
  /\ UNCHANGED <<backend, screen, remembered, ops, resume, history, bounds>>

OpenCheckout ==
  /\ screen # "checkout" /\ shown /\ presses < MaxPresses
  /\ presses' = presses + 1
  /\ Go("checkout") /\ ops' = Orphans(ops)
  /\ UNCHANGED <<backend, remembered, resume, history, failures, kills>>

\* The sheet and the overlay keep the customer on the screen.
Leave ==
  /\ screen # "away"
  /\ OnScreen => sheet = 0 /\ ~Busy
  /\ Go("away") /\ ops' = Orphans(ops)
  /\ UNCHANGED <<backend, remembered, resume, history, bounds>>

\* The app dies, and is started again.
Kill ==
  /\ kills < MaxKills /\ kills' = kills + 1
  /\ Go("away") /\ ops' = {} /\ resume' = Idle
  /\ UNCHANGED <<backend, remembered, history, presses, failures>>

\* usePendingPaymentResume: at launch and when the app comes to the foreground.
ResumeCheck ==
  /\ ~resume.on /\ remembered # 0
  /\ resume' = [on |-> TRUE, s |-> remembered, answer |-> "none"]
  /\ UNCHANGED <<backend, phone, remembered, ops, history, bounds>>

ResumeServed ==
  /\ resume.on /\ resume.answer = "none"
  /\ \E answer \in {"ok", "notConfirmed", "refused"} :
       Asked(resume.s, answer) /\ resume' = [resume EXCEPT !.answer = answer]
  /\ UNCHANGED <<phone, remembered, ops, history, bounds>>

ResumeLost ==
  /\ resume.on /\ resume.answer # "unknown" /\ failures < MaxFailures
  /\ failures' = failures + 1
  /\ resume' = [resume EXCEPT !.answer = "unknown"]
  /\ UNCHANGED <<backend, phone, remembered, ops, history, presses, kills>>

ResumeAnswered ==
  /\ resume.on /\ resume.answer # "none"
  /\ resume' = Idle
  /\ IF resume.answer \in {"ok", "refused"}
     THEN /\ Forget(resume.s)
          /\ Tell(resume.s, IF resume.answer = "ok" THEN "placed" ELSE "refused")
     ELSE UNCHANGED <<remembered, told, mixed>>
  /\ UNCHANGED <<backend, phone, ops, cashTold, latest, unseen, bounds>>

-----------------------------------------------------------------------------
Answered(o) ==
  StartAnswered(o) \/ CompleteAnswered(o) \/ DismissAnswered(o)
    \/ CashAnswered(o) \/ CashPayAnswered(o) \/ CancelAnswered(o)

Next ==
  \/ \E s \in Sessions : CustomerPays(s) \/ Capture(s) \/ Webhook(s)
  \/ \E kind \in {"start", "cash"} : PressPay(kind)
  \/ \E o \in ops : Serve(o) \/ Lose(o) \/ Wake(o) \/ Answered(o)
  \/ SheetSucceeds \/ SheetDismissed \/ CancelOrder
  \/ CartRead \/ OpenCheckout \/ Leave \/ Kill
  \/ ResumeCheck \/ ResumeServed \/ ResumeLost \/ ResumeAnswered

Spec == Init /\ [][Next]_vars

\* Every call is answered or times out (apiClient, fifteen seconds), and a sleep ends.
Fairness ==
  /\ WF_vars(\E o \in ops : o.mine /\ Serve(o))
  /\ WF_vars(\E o \in ops : o.mine /\ Answered(o))
  /\ WF_vars(\E o \in ops : o.mine /\ Wake(o))

FairSpec == Spec /\ Fairness

-----------------------------------------------------------------------------
(* Properties. *)

\* The customer is told that a payment came to nothing only when the backend refused it
\* and gave the money back, or has noted that it could not: no failure of the network is passed on as one of the payment
\* (useOnlineCheckout.ts:71-73, "'unknown', never 'failed'").
NeverToldFailed == \A s \in Sessions : told[s] = "refused" => session[s] = "refunded"

\* "Order placed" is shown of a session that became an order, and of a cash order that
\* got its payment; "payment received" of a session whose money Razorpay has.
SuccessIsPlaced ==
  /\ \A s \in Sessions : told[s] = "placed" => session[s] = "placed"
  /\ \A s \in Sessions : told[s] = "pending" => session[s] \in Paid
  /\ cashTold = "placed" => order \in {"confirmed", "cancelled"}

\* The session whose sheet opened last is remembered until the customer was told what
\* became of it - whatever is lost, killed or left in between - unless the answer about
\* another session removed the record, or its own came when nothing could show it.
RememberedUntilAnswered ==
  latest # 0 /\ told[latest] \notin {"placed", "refused"} /\ ~mixed /\ ~unseen => remembered = latest

\* The blocking overlay of the screen goes: confirming gives up after its attempts.
BusyEnds == Busy ~> ~Busy

StageOf(s) ==
  CASE session[s] = "none" -> "none"
    [] session[s] \in {"created", "open", "authorised", "captured"} -> "open"
    [] session[s] = "placed" -> "ordered"
    [] session[s] = "refunded" -> "refused"

\* Razorpay has the money, and not the bank's word for it alone.
Funded == {"captured", "placed", "refunded"}

Promise == INSTANCE SessionPromise WITH
  stage  <- [s \in Sessions |-> StageOf(s)],
  funded <- [s \in Sessions |-> session[s] \in Funded]

\* Whatever the app asks, in whatever order, and however often it asks again, it makes a
\* session go no other way than the shop promises (complete and recheck are idempotent).
SessionDecidedOnce == Promise!Spec

\* What useOnlineCheckout.ts:49-50 says: if the app dies while a session is paid, the
\* next launch asks about it.
NextLaunchAsks ==
  latest # 0 /\ told[latest] \notin {"placed", "refused"} /\ ~unseen => remembered = latest

\* What checkout/index.tsx:133 says: the error of a refused payment is shown.
RefusalIsShown == ~unseen
=============================================================================
