# GawachaBazaar: models and proofs

This directory is the TLA+ project kept beside the shop's code.  It covers three
programs: `src/backend`, the FastAPI service (what orders, stock, payments, refunds and
pay-first checkout may do when requests, webhooks, background loops, crashes and lost
answers interleave); `src/Admin`, the staff's panel; and `src/mobile`, the customers'
app (what the two show and send while answers overtake each other, calls fail, sessions
change and the app is killed).  The modules are checked with TLC on small instances, and
the safety and action properties of all three programs are proved with TLAPS for every
value of the constants, with the refinements of four abstract specifications.

Contents

1. The system: components, state, operations, interactions, what is hard
2. Conventions of the models
3. The modules, one by one: what models what
4. The runs: what each shows, its bounds, its fairness
5. The proofs
6. What the models refute
7. What is not modelled
8. Plan

Paths below are relative to `src/backend/app/` unless they start with `src/`; a bare
`.py` file is under `services/`, a bare `.ts` or `.tsx` file is named where it is used.

## 1. The system

A customer fills a cart, checks it out into an order that reserves stock for a
limited time, pays online or promises cash at the door, and receives the goods from a
delivery partner.  Staff receive, count, move and pack stock, assign partners and
approve refunds.  One process serves HTTP requests in a thread pool, and runs two
background loops (`main.py` 33-81).  All state is in PostgreSQL; transactions run at
READ COMMITTED with explicit row locks (`SELECT ... FOR UPDATE`).  The gateway is
Razorpay: an API called *between* transactions, and signed webhooks.  Both clients are
React programs on one thread: handlers run to their next `await`, and everything that is
out (requests, reads, timers, a payment sheet, a socket) ends in any order.  Accounts are
Firebase's: both clients follow its token listener and ask the backend who the user is.

### Components

| Component | State it keeps | Operations | Talks to |
|---|---|---|---|
| Status tables (`*_state.py`) | none: constant tables | may a status move to another | every service |
| Orders (`order.py`) | `orders.status`, items, snapshot of address and price | checkout, cancel (own, admin), expiry | carts, reservations, payments, promotions, refunds |
| Inventory reservations (`inventory_reservation.py`) | reservation status, `expires_at`, items per lot; `reserved_base` of lots | create, commit, release, expire, consume, sweep | lots, orders, fulfilment |
| Payments (`payment.py`) | one `payments` row per order, one `payment_transactions` row per attempt, consumed webhook events | create (COD, UPI), retry, verify, webhook, apply a verdict, confirm the order | gateway, orders, reservations, refunds |
| Pay-first checkout (`checkout_session.py`) | `checkout_sessions` rows | start, verify, webhook, reconcile, finalize, automatic refund and its retry | carts, orders, payments, gateway |
| Refunds (`refund.py`) | `refunds.status`, REFUND attempts | create with the order, approve, reject, process, check, webhook | gateway, referrals |
| Fulfilment (`fulfillment.py`) | `fulfillments.status` | pick, pack, ready, assign, reassign, out for delivery, deliver | assignments, reservations, payments (cash) |
| Delivery (`delivery_assignment.py`, `delivery_otp.py`) | assignment status, partners' availability, codes | accept, pick up, on the way, reject, fail; issue and check a code | fulfilment |
| Stock movements (`inventory.py`, `product_stock.py`, `packaging.py`) | lots (`quantity_base`, `reserved_base`), movement rows | movement, receipt, count, removal, correction, transfer, move, packing | reservations |
| Stock pool (`stock_pool.py`, `stock_levels.py`, `units.py`) | none | which lots serve which pack | checkout, removal |
| Carts (`cart.py`) | carts and items | add, change, remove | orders, sessions |
| Promotions, prices (`promotion.py`, `pricing.py`, `offers.py`) | promotions, counters, redemptions | evaluate, redeem, reverse | orders |
| Referrals (`referral.py`) | referrals, rewards | qualify, reward, reverse | payments, refunds, deliveries |
| Bulk orders (`bulk_order.py`) | requests, versions of a quote | send, accept, reject, convert | orders |
| Background loops (`main.py`) | none | expiry sweep, checkout reconcile | reservations, sessions |
| Load shedding (`core/concurrency.py`, `core/rate_limit.py`) | a semaphore, counters | admit, wait, shed | every request |
| Catalogue, suppliers, content, accounts, alerts, push | their own rows | create, read, update, delete, notify | - |
| Panel: session (`src/Admin/lib/auth-context.tsx`, login page, layout) | token, loaded profile, status | sign in, follow the listener, refresh, sign out | Firebase, accounts |
| Panel: pages (`src/Admin/app/(admin)`, `components`) | what was read, filters, busy flags, open dialog, edits | load, press a control, confirm, save | every service |
| Panel: shell, alarm, search; formats and form rules | display | - | - |
| App: session (`authStore.ts`, `AppGate.tsx`, sign-in screens) | Firebase user, status, profile, cached profile, route | sign in and out, sync, verify, link, relaunch | Firebase, accounts |
| App: cart (`useCart.ts`) | react-query's cart, noted taps, adds without an answer | add, step, remove, clear, read | carts |
| App: checkout (`useOnlineCheckout.ts`, `usePendingPaymentResume.ts`, checkout screen) | screen, sheet, the remembered session | start, pay, confirm, ask again | sessions, payments |
| App: orders (`useOrders.ts`, `useRealtimeSync.ts`, `useOnlinePayment.ts`) | three cached reads, a socket and its timer | poll, listen, cancel, pay again | orders, payments, realtime |
| App: catalogue, search, bulk, partner, wishlist; website | reads and their layout | single calls | - |

`PROJECT.json` lists every component with its sources, its status and the reason when
it is left out.

### How the components interact

* **Lock order.**  Every transaction on an order takes Order, Payment, Fulfillment,
  Reservation, Lots in that order, so transactions on one order exclude each other and
  transactions on two orders meet only at the lots.
* **Commit, call, commit.**  Whatever calls the gateway commits its intent first, calls
  with no lock held, and opens a second transaction for the answer.  Between the two the
  answer can be lost, a webhook can overtake it, the process can die, and the row can
  change.
* **Three ways to hear of one event.**  The answer to the call, the client's (or an
  admin's) check and the webhook report the same payment or refund, in any order and
  more than once.
* **The identity map.**  A session that locks a row it has already loaded keeps the
  values it loaded unless the query says `populate_existing()`.  Some methods say it and
  some do not.  Where they do not, the model keeps the old values.

### What is hard, and what makes it correct

| Component | Hard behaviour | Correct means |
|---|---|---|
| Orders, reservations, payments | a verdict meets expiry, the sweep or a cancellation; verdicts repeat, come late or not at all | `OrderMatchesReservation`, `NoStrandedMoney`, `ConfirmedIsBacked`, `TerminalOrdersFrozen`, `MoneyIsRemembered`, `PromiseKept`, `EveryOrderIsDecided` |
| Lots | concurrent checkouts, releases that come second | `LedgerExact`, `NeverOversold`, `StockLeavesOnce` |
| Fulfilment and delivery | chains of assignment, rejection, failure, retry and cancellation | `DeliveryInStep` |
| Refunds | lost answers, used-up webhooks, verdicts of an older attempt, stale rows | `VerdictsAreTrue`, `RefundedMeansPaid`, `ProcessingIsUndecided`, `MoneyNeedsApproval`, `ReferencedRefundResolves` |
| Stock movements | stale reads, locks in opposite orders, a failure at the second lot | `WithinStock`, `DriftNeedsStaleRead`, `LocksHaveOwners`, `EveryTransferEnds` |
| Pay-first checkout | one completion is four transactions; two run at once; the cart moves on; refunds whose answer is lost | `ConfirmedIsCaptured`, `OnePaymentOneOrder`, `CompletedIsSettled`, `CapturedIsSettled` |
| Panel: session | overlapping calls of the listener, other tabs, tokens that expire | `PanelOnlyForStaff`, `ProfileMatchesSession`, `PageLoadDecided`, `ExpiredTokenReplaced` |
| Panel: pages | loads that overtake, calls that fail or fail in part, other people's changes | `SettledViewIsCurrent`, `GuardedActsAreSingle`, `RefusedOnlyWhenStale`, `RestingEditsStay` |
| App: cart | optimistic changes, rows without an id, rollback, cancelled reads | `SettledCartIsServers`, `TapsArrive` |
| App: checkout | a sheet without a callback, lost answers, a killed app | `NeverToldFailed`, `RememberedUntilAnswered`, `BusyEnds` |
| App: orders | polling, a socket that dies unnoticed, old answers, attempts to pay that were given up | `ToldIsShown`, `ConnectedIsCurrent`, `AlwaysListening`, `OrderTracked` |
| App: session | syncs that wait and are joined, late answers, cached profiles | `CacheIsTheirs`, `DataIsTheirs`, `StrangerNeedsLateAnswer`, `OverlayEnds`, `ScreenFollows` |
| Promotions, referrals, bulk orders, codes | counters read before their lock; conversion once | planned (section 8) |

`PROJECT.json` lists the hazards one by one under `hazards`, each at its line with the
properties that would catch it, and the ones no property covers yet with the reason.

* **Reads are not numbered.**  Neither client can tell an answer from one that was sent
  before or after it.  The panel takes whatever arrives last; the app cancels a read that a
  change has made old, as far as it knows of the change.
* **The clients hear of a change** by the answer to their own call, by an event on a socket
  that may be down or dead, by a push, or by asking again.

## 2. Conventions of the models

* One action is one database transaction, or the part of a method between two network
  calls.  A method that commits several times is several actions, and so is one that
  goes on with values it read before it took a lock.
* Variables and actions are named after tables, columns and methods.  A variable is a
  function from the identities (orders, lots, attempts, sessions) to a status or number.
* The status tables of the code are the constant functions of `OrderStates`; the guard
  of a transition is `CanMove(table, from, to)`.
* In the client modules one action is a handler up to its next `await`, and serving a
  request is an action of its own: between sending, serving and answering anything may
  happen.  A request that fails was served or was not.
* `MC*.tla` only instantiates a module for TLC.  The `.cfg` gives the constants their
  values.
* Every module with steps has a type invariant `TypeOK`.  For the modules translated from the
  code it is proved, and no run repeats it.
* `AdminPages` and `MobileCart` share a proof module with `AdminSession` and `MobileCheckout`,
  so what every module has is named after them there: `PageInit`, `PageNext`, `PageSpec`,
  `PageTypeOK`, and `CartInit`, `CartNext`, `CartSpec`, `CartTypeOK`.
* A definition `Slip_Name` is not part of any specification.  It is a plausible mistake
  in the definition that follows it (a dropped guard, a forgotten row), kept to show that
  the property named with it in `PROJECT.json` notices.
* The deadlock check is off where the system really may stop: a refund that is finished, a
  customer who has used up the bounded carts, sessions, presses or events, a page that was
  left.  The order, stock, panel-session and cart runs check for deadlock.

## 3. The modules

### OrderStates

The five status tables (`order_state.py`, `payment_state.py`, `reservation_state.py`,
`fulfillment_state.py`, `refund_state.py`) and what the gateway's statuses are taken for
(`payment.py` 103-110).  No state.  Extended by `OrderLifecycle` and `RefundProcessing`.

### OrderLifecycle

Any number of orders over any number of lots: checkout, the reservation's four
transitions, COD and UPI payment, retry, the gateway's verdicts, expiry, cancellation,
warehouse, delivery, and the refund row's birth.

| Variable | Column |
|---|---|
| `order`, `reservation`, `payment`, `fulfillment` | the `status` of the four rows; `NONE` before the row exists |
| `overdue` | `expires_at <= now` |
| `alloc` | `inventory_reservation_items.quantity_base`, per lot |
| `quantity`, `reserved` | `inventory_lots.quantity_base`, `reserved_base` |
| `method`, `ref` | `payments.payment_method`; its gateway order id is recorded |
| `inFlight` | handlers between the commit of PROCESSING and the gateway's answer |
| `assignment` | status of the order's active delivery assignment |
| `refund` | a `refunds` row exists |

Because each method locks the Order row first, one method is one action, except
`_initiate_upi`, which is two around the network call (`CreateUpiPayment` or
`RetryPayment`, then `PersistInitiation`, `FailInitiation` or `LoseInitiation`).
`GatewayVerdict` is `verify_payment` and the webhook, which apply the same verdict the
same way; the gateway may say anything at any time of an order it knows.
`ConfirmOrderIfPaid` is the hub: a PAID payment confirms a live order, expires an order
whose window has lapsed and creates its refund, or creates the refund of an order that is
already gone.  `AttachPaidPayment` is the door through which pay-first checkout enters.
Which lots serve an order is any choice that covers the need: the code's oldest-first rule
is one of them.

`OrderLifecycle` takes a stock movement and a promotion as parts of one atomic step.  What
happens inside a stock movement is `StockMovements`; what happens to the refund after its
birth is `RefundProcessing`; who calls checkout and attach in pay-first checkout is
`CheckoutSession`.

### OrderPromise

The abstract specification.  A customer sees three things of an order: its stage, its goods
and his money.  Five actions (place, confirm, deliver, call off, pay late) say which changes
may be seen together, most of all that money is owed back *from the very step* that makes it
useless.  `OrderLifecycle` implements it (`PromiseKept`) under the mapping
`StageOf`/`GoodsOf`/`MoneyOf`; TLC checks it on the instance and TLAPS proves it.

### RefundProcessing

One refund after its birth.  `process_refund` commits PROCESSING and a new attempt
(`ProcessRefund`), calls the gateway without a lock (`GatewayTakes`, `GatewayDecides`), and
opens a second transaction for the answer (`PersistGatewayResult`, `FailUnresolvedAttempt`)
or never gets it (`LoseAnswer`, also a crash).  A webhook (`RefundWebhook`) or an admin's
check (`SyncStart`, `SyncAnswer`, `SyncFinish`, three steps because the question is asked
without the lock) applies a verdict through `ResolveProcessingRefund`.  The handlers of the
answer write over the row they loaded before the call (`refund.py` 432, 464, 498-507), so in
the model they set `refund` without looking at it.

### RefundPromise

The abstract specification of one refund: it is decided, tried, paid out and told of; money goes
out after an approval and at most once; what is told is true and REFUNDED is the end.
`RefundProcessing` implements it in every behaviour in which a verdict is applied in time
(`VerdictInTime`: the refund is still PROCESSING, and the verdict is its latest attempt's), which is
`PaidOnceIfInTime`.  The code does not see to that hypothesis everywhere (section 6), and without it
TLC has a counterexample of eight states.

### StockMovements

The lots as the warehouse changes them, with the movement rows as a second table
(`ledger`: what they add up to).  Most operations read their lots under the lock and are one
action.  Four (`receive_stock_no_commit`, `transfer_stock`, `move_stock`, packaging's
`complete_operation`) first read a lot without its lock and go on with what they read:
`seen` holds those amounts, and `Session(c, l)` is what request `c` believes of lot `l`.
`holder` is the row lock `transfer_stock` keeps while it waits for the second lot.  `Move`
is `apply_movement_base` on every lot of a change and the commit: the code's checks look at
what the session believes, the table's CHECK looks at the row.

### StockLedger

The abstract specification of the lots: one number of units per lot, some of them promised to
orders.  What is promised stays until it is shipped or given back, goods that are moved arrive at
most once and in the other lot, and only a receipt or a count makes stock.  `StockMovements`
implements it with the sums of the movement rows as the number (`Books`), in every behaviour in which
no request commits on a read that another one has made old (`CommitsOnFreshReads`, which is what
`populate_existing()` under the lock would give); this, with the agreement of the two tables, is
`OneSetOfBooks`.  Reads out of order, locks, refusals and transfers that are broken off are not
excluded.  The code does not see to the hypothesis in the four operations named above, and without it
TLC refutes the refinement.

### CheckoutSession

One customer's pay-first checkout.  A worker is one run of `_finalize`, started by the app's
callback, the customer's re-check, the webhook or the reconcile loop.  A run is up to four
transactions: place or find the order (`PlaceOrder`, `FindOrder`, `RefuseOrder`), attach the
payment (`Attach`), verify it (`VerifyPayment`), complete the session (`Complete`), or give
the money back (`RefundAndFail`).  Any run may die between two of them (`Crash`); a refund it
asked for may then have happened.  `job[w].held` says that a run found the order instead of
placing it, has not committed yet and so still holds its row locks.  `query_status` counts a
refunded payment as captured (`PaidAtGateway`).  A refund may be taken for later, made, or fail
(`Asked`, `RefundEnds`); `_try_refund` calls every answer that does not raise REFUNDED
(`RefundVerdicts`).  Beside the runs the customer edits the cart,
opens a new one, checks out directly, pays on delivery, pays the session and cancels.
Reservations and payment attempts are abstracted to their outcome (`Settle`): they are
`OrderLifecycle`'s.

### SessionPromise

The abstract specification of pay-first checkout, and all that the app builds on: a session is
opened, its money comes in, and it is decided once, for an order or for a refund.  Two modules
are held against it.  `CheckoutSession` implements it where `RunsAgree`, that is in every behaviour
in which no run is about to refund a session while another makes an order of it
(`SessionDecidedOnce`); nothing in the code makes them agree, as the run `checkout_both` shows.
`BothNeedsAReason` goes on from there: a customer has the goods and the money only where runs disagree
or a run ended after it had attached the payment.  `MobileCheckout` gives its app a backend that takes
no step but those of `SessionPromise`, the very promise that `CheckoutSession` keeps where its runs
agree.

### AdminSession

One tab of the panel.  The Firebase SDK calls the listener of `auth-context.tsx` and does
not wait for it, so runs of it overlap: `callback[c]` is one that waits for a token, for
`fetchMe`, for `syncAccount`, for a mail or for `signOut`.  `token` is `tokenRef`,
`profileUid` is `profileUidRef`, `session` the state the pages see, `refresh` the call of the
timer, `attempt` the sign-in form.  Other tabs sign in and out (`OtherTabSignsIn`,
`OtherTabSignsOut`), tokens expire (`HourPasses`).  A role is only whether it opens the panel.

### AdminPages, with AdminControls, AdminLists, AdminDetails, AdminForms, AdminStock

`AdminPages` is what any page of the panel goes through: loads (`StartLoad`, `ServeRead`,
`Deliver`, `ReadFails`), controls (`Press`, `Confirm`, `Send`, `ServeCall`, `Done`, `Refused`,
`DoneInPart`, `AnswerLost`), filters, events, edits, other people's changes.  Which page it is,
is chosen once: the page is a record that says what it reads, when it blanks, which controls it
offers for a row in which state, what the server makes of each, which flag is set meanwhile, and
what follows success and failure.  `AdminControls` names the few patterns the pages are written
in; `AdminLists` (18 lists and tabs), `AdminDetails` (8 pages and sections about one thing), `AdminForms`
(4 forms) and `AdminStock` (5 stock screens with their dialogs) hold the records, each mapped to
its page.  The server's side of a control is the transition of the service it calls, taken from
the backend, so `RefusedOnlyWhenStale` compares the conditions of two programs.  They part in two
places, which the records name (`vain`): the delivery list offers the steps of an order that was
cancelled meanwhile, whose fulfilment row stays as it was (`CancelledOffers`), and Delete is offered
for a category in use.  A refund that is processed loads the list twice, before its flag is given back
and after; the model has the second load only.

| Variable | Code |
|---|---|
| `view`, `loading`, `error`, `loadedOnce` | the page's `useState`s of the same meaning |
| `query` | filters, search text and page number, as one number |
| `reads`, `calls` | requests that are out |
| `held`, `asked` | busy flags; the open dialog and its row |
| `dirty`, `typed` | the form differs from what was read; what had been pressed when it was edited at rest |
| `srv`, `others`, `heard` | the rows in the database, changes by others, events of them |
| `mine`, `overtaken`, `acted`, `made`, `lost` | histories for the properties |

### MobileCart

`useCart.ts`: a tap changes the cached cart at once (`cache`) and sends a request; until an add is
answered its row has a temporary id, taps are noted (`desiredQty`) and one follower brings them
(`queued`).  `Follow` and `InvalidateWhenIdle` are the ends of the mutations.  A failed change
brings its snapshot back.  The five surfaces with steppers are five actions because they know
different things of a row.

### MobileCheckout

The checkout screen with `useOnlineCheckout`, `usePendingPaymentResume`, the sheet and
`pendingCheckout`'s one remembered session.  `ops` are the operations that run, also those whose
screen is gone (`mine` is false); `told` is what the customer was last told of a session.  The
backend is where a session's money is (`CheckoutSession` has its transactions); Razorpay may take
the money while the sheet loses its callback, and the app may be killed at any step.  `order` is the
cash order the basket may become: a captured session pays for it while nothing else does
(`checkout_session.py` 372-387), and gives its money back otherwise.  `refunded` stands for REFUNDED
and for REFUND_FAILED, whose money is still owed; the refusals of a session or proof that is not the
app's own (200-214) are left out.

### MobileOrders

One order followed by three cached reads (`q`): the order (polled every ten seconds while its screen
is open), its payment and the list.  `was` is the history of the order in the database, and a read
brings a number of it.  An attempt to pay is two transactions, as in `_initiate_upi`: the payment is
PROCESSING, silently, before the gateway is asked, and then PAID, or FAILED, the latter silently too.  The
app gives a request up after 15 s; the backend need not have begun it by then (`asked`) or may be
between the two (`begun`), and goes on (`LateBegins`, `LateEnds`).  `captured` is money Razorpay has
and the backend has not heard of; `unsaid` is the last version made without an event by an attempt
given up.  Sockets wait for a token, connect, break, or die without a close until the heartbeat
notices; `loose` counts timers that were overwritten.  Cancelling and paying again are followed
through their requests.

### MobileSession

`authStore.ts` and `AppGate.tsx`.  `calls` are the listener calls under way, `sync` the one
`syncInFlight` that whoever signs in joins, `reading` the wait for the cached profile, `ask`
`refreshUser` and the sync after an added phone number, `leaving` the `logout()` calls that
unregister the push token first.  `Gate` is the effect that moves between screens.  `strayed`
records that an answer was taken for somebody who is not signed in any more.

## 4. The runs

| Run | Properties | Distinct states | Shows |
|---|---|---|---|
| `order_lifecycle` | `LedgerExact`, `NeverOversold`, `OrderMatchesReservation`, `NoStrandedMoney`, `ConfirmedIsBacked`, `DeliveryInStep`, `PromiseKept`, `EveryOrderIsDecided` | 600,388 | two orders compete for two lots through every transaction; none stays PENDING for ever |
| `refund` | `VerdictsAreTrue`, `RefundedMeansPaid`, `ReferencedRefundResolves` | 2,418 | the books never claim what the gateway did not do, and a refund with a gateway reference leaves PROCESSING |
| `stock` | `WithinStock`, `DriftNeedsStaleRead`, `EveryTransferEnds` | 47,236 | orders keep their stock; only a stale read parts balance and ledger; opposite transfers do not hang |
| `checkout` | `ConfirmedIsCaptured`, `OnePaymentOneOrder`, `CompletedIsSettled`, `CapturedIsSettled` | 130,445 | two runs of the completion, two carts, direct orders; captured money is put to use or given a verdict |
| `admin_session` | `PanelOnlyForStaff`, `ProfileMatchesSession`, `PageLoadDecided`, `ExpiredTokenReplaced` | 232,000 | two overlapping calls of the listener, three users, other tabs |
| `admin_pages` | `SettledViewIsCurrent`, `GuardedActsAreSingle`, `RefusedOnlyWhenStale`, `RestingEditsStay` | 3.6 million | every page of the panel with two events |
| `mobile_cart` | `SettledCartIsServers`, `TapsArrive` | 4.3 million | three taps on two products, one failure |
| `mobile_checkout` | `NeverToldFailed`, `RememberedUntilAnswered`, `BusyEnds` | 531,727 | two sessions, three presses, two lost answers, one kill |
| `mobile_orders` | `ToldIsShown`, `ConnectedIsCurrent`, `AlwaysListening`, `OrderTracked` | 1,167,727 | an order that moves on while sockets come and go and attempts to pay are given up |
| `mobile_session` | `CacheIsTheirs`, `DataIsTheirs`, `StrangerNeedsLateAnswer`, `OverlayEnds`, `ScreenFollows` | 209,036 | two accounts, three events |
| `checkout_both`, `mobile_signed_out` | `GoodsOrMoney`; `SignedOutStays` | - | section 6 |

The modules state more than the runs check again: `TerminalOrdersFrozen`, `MoneyIsRemembered`,
`ProcessingIsUndecided`, `MoneyNeedsApproval`, `LocksHaveOwners`,
`TablesAreKept`, `OneSetOfBooks`, `SuccessIsPlaced`, `KnownSocketIsOurs`, `NothingReadIsSaid`,
`CreatedOnce`, `StockLeavesOnce`, `UnverifiedStayOut`, `NotedIsBrought`, `TemporaryHasAdd`,
`SessionDecidedOnce` (of two modules), `BothNeedsAReason`, `PaidOnceIfInTime` and the type
invariants of the modules translated from the code are proved (section 5); `OfferWithdrawn` and
`SplashEnds` hold on the instances of their module's run, with their names added to its `.cfg`.  The
proved ones hold on those instances too; for the conditional ones (`SessionDecidedOnce` of
`CheckoutSession`, `BothNeedsAReason`, `PaidOnceIfInTime`, `OneSetOfBooks`) the hypotheses were made
part of the specification that TLC ran (4.7 million states for `OneSetOfBooks`, with `MaxStock` 3).

### Bounds, and why they are enough

* **Orders, lots (2 each), needs {1, 2}, `MaxStock` 1, `MaxInFlight` 2.**  Transactions of two
  orders meet at the lots only, so a third order adds no new meeting.  Stock of one on each of
  two lots lets one order be served by one lot, or by both, or two orders by one each, and makes
  the next one fail; stock may be empty at first and refilled later.  Two handlers may wait for
  the gateway at a time.  With `MaxStock` 2 the safety properties hold as well (568,266 states
  under symmetry and one handler).
* **`MaxAttempts` 3, one admin.**  The verdict of an older attempt, the newer one it hits,
  and the third one that is then let in.
* **Lots, clerks (2 each), amounts {1, 2}, `MaxStock` 1.**  One stale request and one that
  changes the lot in between; two opposite transfers; a removal of two that needs both lots.
  `MaxStock` also bounds the ledger from above and below, since it can drift.  With
  `MaxStock` 2 the safety properties hold as well, on 1.5 million states; the run is kept
  small because it also checks liveness, and the proofs hold for any stock.
* **Workers 2, `MaxSessions` 1, `MaxCarts` 2, `MaxPrice` 2.**  Two runs on one session; a session
  finalised against the next cart of the same price or of another.  With two sessions the safety
  properties hold on 7,918,529 states under symmetry.
* **Users 3, `Calls` 2.**  Somebody of the staff, one of the staff with an unverified address,
  and one who is not of the staff; accounts the backend does not know yet are among them.  Two
  calls of the listener overlap; a third would end before or after one of them.
* **`AdminPages`: rows 2, `MaxReads` 2, `MaxEvents` 2.**  Two events are two controls that race, a
  control and somebody else's change, a control and a filter; two reads are enough for one to
  overtake the other.  The second row is there for flags that are shared by all rows.
* **`MobileCart`: two variants (one on a card), `MaxTaps` 3, `MaxLosses` 1.**  An add, a tap while
  it is out and one after it; or two taps on one product and one on the other.  The exception that
  `unsent` records takes four taps on one product: with one variant and no failure the invariants
  were checked with `MaxTaps` 4 as well (2.7 million states), and the proofs hold for any number.
* **`MobileCheckout`: `MaxSessions` 2, `ConfirmAttempts` 4 (the code's), `MaxPresses` 3,
  `MaxFailures` 2, `MaxKills` 1.**  A session left behind and the next one; a confirmation that loses
  two of its four tries.
* **`MobileOrders`: `MaxEvents` 2, `MaxSockets` 3.**  The order changes and the customer acts, or it
  changes while the app is away.  An attempt that is given up, served late and
  rejected takes one event.
* **`MobileSession`: two accounts, `MaxEvents` 3, `MaxTries` 1.**  Sign out, sign in as another, and
  one thing between.  Safety was also checked with five events (3.0 million states).

The bounds are TLC's alone: the proofs of section 5 hold for every value of them.

### Fairness, and why the code justifies it

* `OrderLifecycle!Fairness`: time passes, and the sweep loop comes round every 120 s whatever
  happened to the previous round (`main.py` 43-53 catches everything).  Nothing is assumed of
  customers, the gateway or handlers: an order is decided without their help.
* `RefundProcessing!Fairness`: a handler under way ends (answer, refusal or time-out), the
  gateway decides what it accepted and delivers its webhook once, and an admin who watches a
  PROCESSING refund keeps asking until one question is answered.  No admin is assumed to
  approve or retry anything.  That questions may be lost is why it takes strong fairness.
* `StockMovements!Fairness`: a transfer that has its first lot goes on, row locks are granted,
  and PostgreSQL breaks a deadlock.  Strong fairness because another request may take the
  second lot again and again.
* `CheckoutSession!Fairness`: the reconcile loop (`main.py` 69-80, every 300 s), the webhook's
  redelivery and the customer's re-check try a paid session again, and of those tries not
  every one dies at the same place.  The loop polls a session only between two minutes and
  two hours of age (`checkout_session.py` 299-330); the model has no clock, so the property
  says what happens as long as somebody keeps trying.

* `AdminSession!Fairness`: requests are answered; the refresh timer runs every five minutes while
  the tab is open, and it and the listener get a token through now and then, hence strong fairness
  (`ApplyToken`, `RefreshDone`).
* `MobileCheckout!Fairness`, `MobileOrders!Fairness`, `MobileSession!Fairness`: a request is answered
  or given up after 15 s (`src/mobile/src/api/client.ts`), a sleep between tries ends, the order is
  polled every ten seconds while its screen is open (`refetchInterval`), effects and listener calls
  run.  Nothing is assumed of the customer, the network, the gateway or the socket: `OrderTracked`
  holds without one.  `OrderTracked` speaks of a customer who keeps watching.
* `AdminPages` and `MobileCart` state no liveness: their properties are about the moment when
  everything has been answered, and nothing retries by itself.

## 5. The proofs

Eight modules hold proofs; every leaf is checked by `tlapm`.  The assumptions are those of the
modules: `NeedsAssumption`, `MaxStockAssumption`, `MaxInFlightAssumption`, `MaxAttemptsAssumption`,
`AmountsAssumption`, `NobodyAssumption`, `BoundsAssumption`, `AccountsAssumption`,
`SessionAssumption`, `CheckoutBounds`, `CartAssumption`, `OrdersAssumption` (bounds are natural
numbers, some of them positive; amounts are positive; nobody is no account), and `ScreensAssumption`
and `FormsAssumption`, which say what a page's record must be and which TLC evaluates on all 35 of
them.  Orders, lots, requests, workers and admins may be infinitely many: what `LedgerExact` counts
is proved finite, not assumed to be.

* **OrderLifecycle_proofs.**  `TypeCorrect`; then `Inv`, the invariant of the rows of one order:
  order and reservation match, money is not stranded, what is confirmed is backed, delivery is in
  step, and `RowsComeInOrder` (no payment before the order, no gateway traffic before an online
  payment, no cash before the delivery).  The last part is what makes the rest inductive: without it
  a verdict could arrive for an order that was never placed.  Each transaction disturbs the rows of
  one order only (`RowsUntouched` for all others), so every action is one lemma about one order.
  From `Inv` follow `OrderReservationCoupled`, `MoneyNeverStranded`, `GoodsAreBacked` and
  `DeliveryCoupled`.  `LedgerIsExact` is proved on top of it by counting: a lot's reserved amount is
  the number of units held by the live reservations, and each action adds or removes the units of
  one order.  `NeverOversoldHolds` takes the lower bound from there and proves the upper one
  (`Covered`) inductive from the guards of checkout, consumption and removal.
  `TerminalOrdersStayFrozen` and `MoneyStaysRemembered` are action properties: what a step of one
  order may do, given `Inv`; so is `TablesAreAlwaysKept`: a handler looks at one or two of the four
  statuses and moves others with them, and `Inv` is what makes each of those moves one that its
  table allows (`OrderTableMoves`, `PaymentKeepsTable`, `FulfillmentKeepsChain`), so that none is
  refused half-way; `StockAlwaysLeavesOnce` follows from what a step does to a lot
  (`OrderStepStock`: only a delivery or a removal by hand makes it less).  `BackendKeepsPromise` is
  the refinement theorem: initial states map to initial states, and every step maps to one of the
  five steps of `OrderPromise` or to a stutter.
* **RefundProcessing_proofs.**  `RefundInv` joins three of the properties with the
  facts that attempts are numbered in order and none exists before the approval
  (`AttemptsInOrder`, which gives `MoneyNeedsApproval`), and that what an
  admin's check has been told is still true when it is applied (`ChecksAreTrue`: verdicts of
  the gateway are final).  That is why even a stale overwrite never books a false verdict.
  `PaidOnceInTime` adds, under `VerdictInTime`, that every attempt but the last is dead at the gateway
  (`InTimeInv`), and shows each action to be one of the moves of `RefundPromise` or a stutter.
* **StockMovements_proofs.**  `WithinStock` is inductive thanks to the CHECK of the table.
  `DriftNeedsStaleRead` needs `WhileIdle` (a request with nothing to do believes nothing) and
  `LocksHaveOwners`.  `OneSetOfBooksIsKept` is the refinement of `StockLedger` under
  `CommitsOnFreshReads`: what a request applies is then a change of the lots as they are, so ledger and
  balance move by the same amount (`BalanceMatchesLedger` is the invariant), and each action is one of
  the steps of `StockLedger` or a stutter.
* **CheckoutSession_proofs.**  `Inv` adds what a run may count on after it has given up its
  locks (`RunsArePaid`, `RunsInOrder`) and what a payment says of its order
  (`PaymentsArePaid`, `PaidIsUsed`).  Each action is first brought into a simple form (what it
  changes, at which indices), then each conjunct is one lemma.  `SessionsAreDecidedOnce` is the
  refinement of `SessionPromise` under `RunsAgree`: a session that is decided was paid
  (`DecidedIsPaid`), and what a run is about to do to it agrees with what was decided
  (`RunsAreRight`).  `BothHasAReason` adds `AttachedCompletes`: a payment that is attached belongs to
  a session that is COMPLETED, or has a run that will complete it.  Both hypotheses are needed: the
  counterexamples of section 6 to `GoodsOrMoney` break one each, and keep the other.
* **AdminSession_proofs.**  `PanelAlwaysStaff` and `ProfileAlwaysMatches`, for any number of users,
  and overlapping calls of the listener.  One fact makes them inductive, that a call which runs was
  called with a user (`CalledWithUser`).  The rest is that each call checks its own user before it
  writes and that nothing takes an account off the backend's list, so what was checked when the
  panel opened stays true whatever the other calls, the timer and the form write afterwards.
  The module also proves about `AdminPages`, for any pages those two assumptions admit, any rows and any
  number of reads and calls.  `PageInv` has five parts besides the shapes.  `SeenInv`: a card that
  a page, a read, a call or a dialog holds is an old card of its row or the present one.  `FreshInv`:
  the newest read is of the present filters and will bring every change the tab was told it made, or
  it has ended and the page shows one that did, or the page says that something went wrong
  (`SettledAlwaysCurrent`).  `SaidInv` is what `NothingReadAlwaysSaid` needs.  `LockInv`: a flag that
  guards all its controls (`StrictLock`) is held for one call, or for the one read that will free it
  (`HeldOnce`, `GuardedAlwaysSingle`).  `IdsInv`: calls are told apart by their number.
  `RefusedAlwaysStale` adds `TakenInv` (what a control was pressed for, the server took when the page
  read it) and the hypothesis `OffersAreTaken`: every control is offered only for states from which
  the server's transition starts, but for what the page does not show and for the states named as
  `vain` (a cancelled order's delivery, a category in use).  TLC evaluated it to true on the 35 pages
  and their 114 controls; it is a hypothesis and not an assumption of the module, because it is the
  very point at which panel and backend may part, and the run is there to find where
  (`Slip_RefundActions` breaks it).
  `RestingEditsAlwaysStay` needs `RestInv`: what was edited while nothing was out, and since when
  nothing was pressed, finds no read and no call out, and no retry on the screen; so whatever fills
  the form anew was pressed for.  `FormsCreateOnce` is about the pages that
  create and read nothing.  `FormsAssumption`, evaluated in every run, says what their records have in
  common; the invariant `OnceInv` counts: of the attempts that created something all but the last
  were lost, and the last leaves no other on its way, nor any to be pressed (`NothingMore`).  It needs
  `LockInv` (one call at a time), or an attempt sent beside the first would create a second thing.
  `PageTypeCorrect` adds the bounds to the shapes (`WithinBounds`); it showed that `MaxReads` must be
  positive, since a page that reads starts with a read out, and `BoundsAssumption` now says so.
* **MobileCheckout_proofs.**  `RefusalAlwaysRefunded`: what the customer is told is checked against
  the session's state, but it is read from an answer that travelled.  `OpsInv` says which answers
  stay true on their way: a session that was placed stays so, and so does one that was refused, with
  its money back (`Definite`); everything else only makes the app ask again.  `ResumeInv` says the
  same of the check at the next launch, and `OrderTookBasket` that the cash order took the basket,
  so that there is one of them. `AlwaysRemembered` goes with them: who removes a record has had the
  answer about that session, or is one of the two exceptions the property names. `AppKeepsToPromise`
  is the refinement of `SessionPromise`, here without a hypothesis: each step opens, funds or
  decides one session, or leaves them alone (`MayBecome`). The module also proves about
  `MobileCart`, which it extends as well.  `CartAlwaysSettles`: `NotesHaveAdds` (an add that is
  noted, or that a follower waits for, is out) makes `ReadIsServers` inductive: the request that
  ends last finds one mutation, its own, and reads the cart, or leaves `owed` or an orphaned note.
  `CartTapsArrive`: requests of a product that never crossed are out one at a time (`OneAtATime`),
  so each can be held against the server's row and the last tap (`Fits`); `RowsWait` says that a row
  without an id was put there by an add that is out, and that a noted quantity waits for the add
  whose follower will bring it, also after losses (`NotedAlwaysBrought`, `TemporaryAlwaysHasAdd`).
  `CartTypeCorrect` counts: a row can be of no more pieces of a product than one and the taps there
  were, less the adds of it that the server has yet to see (`Most`), wherever it is kept: an add
  that is served takes from the one what it gives the other. Nothing that was shown ever has to give
  way (`Grows`), so snapshots and reads stay within it too.  The proof failed at first where the
  follower has nothing to send; that is `EveryTapSyncs` in section 6, and the property now names the
  exception.
* **MobileOrders_proofs.**  `ToldAlwaysShown` and `ConnectedAlwaysCurrent`.  `ReadsInv` says what a
  read that is out may still bring (it began after the news, or another is owed), `HeardAll` that
  while a socket is open with nothing due the payment has not changed since the app was told, but by
  an attempt that was given up (the versions before `unsaid`), and `SocketsInv` that connections are
  numbered and, with the timers, never more than were begun. `Budget` bounds the order's versions by
  the events: a request that is out may still move the order, and so may one that was given up
  (`LateMoves`); its event has paid for that. `ListeningNeverStops` is inductive with `SocketsInv`: a
  socket that closes leaves a timer.
* **MobileSession_proofs.**  `CacheAlwaysTheirs`: a profile is never cached under another account's
  name, though `syncWithBackend` joins a sync in flight whoever it is for, and sends the token of the
  moment.  The reason is not in that function: the sign-in screens are closed while a sync is out, so
  at any time all that is under way (listener calls, cached profiles being read, the sync, the
  Firebase user) is of one account or of nobody (`OneParty`), and a sync sends the token of its own
  account or none (`TokenIsTheirs`).  Without `OneParty` the cache rule is not inductive; without the
  overlay it is false (`Slip_MaySignIn`).  `DataAlwaysTheirs` and `StrangerAlwaysLate` rest on the
  same module's `IInv`, in three parts.  `Told`: what the listener is about to say is true of the
  Firebase user, and who was let in is that user or `strayed` is set.  `Restored`: the profile read
  from the phone is of the listener's last user, and at most one is being read.  `Shown`: who looks
  at which query (`ExposedTo`), that nobody who is in is sent back to verify an address before the sync
  has ended (`NoWayBack`), and that a question of an earlier session is answered before the next one
  comes to ask (`LateAskFirst`).  `UnverifiedAlwaysOut` adds `LetInKnown`: what a profile says is
  verified a token of its owner said before, and the answer to an added number lets nobody in.

Every safety and action property of the passing runs is proved.  Model-checked only: every liveness
property (fairness is out of the prover's reach), with `OfferWithdrawn` and `SplashEnds`; and
`OffersAreTaken`, the hypothesis about the 35 pages.  What is in section 6 is refuted.

## 6. What the models refute

Two runs end in a counterexample to a sentence of the code's own documentation; `PROJECT.json`
quotes the sentences under `findings`.

| Run | Said | Done |
|---|---|---|
| `checkout_both` | REFUNDED means no order (`models/checkout_session.py` 32) | a run that was refused refunds after another one has placed the order; the same comes about with one run at a time, when the process dies between attaching the payment and the last update and the customer has opened another cart by the next try |
| `mobile_signed_out` | the sign-out resets the rest, and a sync gives up when its user is gone (`src/mobile/src/store/authStore.ts` 330, 142) | the success branch does not ask who is signed in (152-157): a late answer lets the app in again without a Firebase user |

The following were refuted in the same way on the instances of their modules and have no run of
their own.  Where the formula is part of the module it is named.

| Module | Said | Done |
|---|---|---|
| `RefundProcessing` | an unknown outcome is recoverable by an admin (`refund.py` 309) | without a reference, `process_refund`, `sync_with_gateway` and the webhook all refuse or miss the refund: it stays PROCESSING |
| `RefundProcessing` | no second attempt while one is live (`refund.py` 237) | a late FAILED of attempt 1 is applied while attempt 2 is live, and a third attempt may be sent |
| `RefundProcessing` | REFUNDED is terminal (`refund_state.py` 22) | a handler back from its call writes over a REFUNDED that a webhook has set (`refund.py` 432, 464, 498-507) |
| `StockMovements` | the movement rows are the only way quantity changes (`product_stock.py` 11) | a receipt adds to the amount it read before the lock, and overwrites a change in between |
| `StockMovements` | a fixed lock order keeps opposite transfers from a deadlock (`inventory.py` 1706) | the source is locked before that ordered pass; `EveryTransferEnds` holds because the database breaks the deadlock |
| `CheckoutSession` | a cart with another price is refused (`order.py` 458) | a cart that is already checked out returns its order before the price is compared |
| `CheckoutSession`, `RefundedMeansMoneyBack` | "Your payment has been refunded." (`checkout_session.py` 475) | any answer of the gateway that does not raise is REFUNDED (483-491), also one that says pending or failed (`razorpay_gateway.py` 264-270); only REFUND_FAILED is tried again (512-546) |
| `CheckoutSession` | money for an order with another payment is refunded (`checkout_session.py` 392) | a payment on delivery between placing and attaching is taken for the session's own |
| `AdminSession` | `getAccessToken()` never hands out a stale token (`src/Admin/lib/auth-context.tsx` 52-55) | an older callback that ends last leaves the token of the user before |
| `AdminPages`, `StaleRefusalsResync` | a step refused because the order moved on reads it again (`FulfillmentActions.tsx` 68-75) | the code goes by the wording of the refusal; a warehouse step's wording is another |
| `AdminPages`, `RefusedOnlyWhenStale` without `vain` | the next step is offered (`delivery/page.tsx` 226-230; `orders/[id]/page.tsx` 200 asks for the order's status first) | the fulfilment row of a cancelled order stays as it was (`order.py` 398-400), the list shows it (`fulfillment.py` 218-243), and every step is refused (844-860) |
| `AdminPages`, `SideActsLeaveTheForm` | the carousel's controls leave the form alone (`promotions/[id]/page.tsx` 160) | the load after them fills it anew |
| `MobileCart`, `AlwaysReconciled` | the app always reconciles to the server's cart (`useCart.ts` 21-26) | the read after a change is skipped while another mutation of the app is out (`isMutating` counts them all), and the first read of the cart is not started anew |
| `MobileCart`, `EveryTapSyncs` | every change shows instantly and syncs behind (`useCart.ts` 254) | the follower sends nothing for one piece (242), though the add came to a row that the cart shown lacked: a read that overtook the first add is shown after it, add, one more, one less, and the server keeps two (four taps) |
| `MobileCheckout`, `NextLaunchAsks` | the next launch asks about a session that was being paid (`useOnlineCheckout.ts` 49-50) | the answer about an older session forgets the newer one's record |
| `MobileCheckout`, `RefusalIsShown` | the error of a refused payment is shown (`app/checkout/index.tsx` 132-133) | the screen it is shown on may have given way to the empty basket |
| `MobileOrders`, `PaymentTracked` | polling keeps tracking correct without a socket (`useRealtimeSync.ts` 38-42) | the payment is not polled; the comment also says 30 s, the code 10 s |
| `MobileOrders`, `ConnectedIsCurrent` without `unsaid` | whatever changes a payment's status calls `notify_status_event` (`core/realtime.py` 13-16) | `_initiate_upi` makes it PROCESSING and `_fail_unresolved_attempt` FAILED without an event (`payment.py` 785-790, 883-917): an app that gave the request up, read the payment and stays connected shows the old one |
| `MobileOrders`, `OneSocket` | one socket, in `wsRef` (`useRealtimeSync.ts`) | a return to the app while one connects begins a second |
| `MobileSession`, `LinkedToSame` | a Google credential is linked to the account it came from (`link-account.tsx` 14-20) | a sign-in with another address takes it |
| `MobileSession` | a customer is never sent back to onboarding, even after deleting the only address (`AppGate.tsx` 13-16) | he is, once the list was read again (`DeleteAddress`, `ReadServed`, `Gate`) |

Found while reading, and not expressed in a formula: `src/Admin/lib/permissions.ts` 2 says it mirrors
the backend's table exactly, but the panel offers the delivery steps to OPERATIONS, whom the backend
refuses (`api/v1/fulfillments.py` 45, 154), and loads the list of staff for roles that may not read it;
`payments/[id]/page.tsx` 215 hides the check of a PROCESSING refund, which `lib/payments.ts` 94 calls
the manual fallback (the refunds tab shows it); an expired order is announced to nobody
(`inventory_reservation.py` 405), so the app learns of it by polling alone; a 401 that comes late, or
a second `logout()` that waits for the push token, ends the next session.

## 7. What is not modelled

* **Partners, codes, cash** (`delivery_assignment.py` availability, `delivery_otp.py`): the
  assignment's status is in `OrderLifecycle`, the rest is planned.
* **A payment's attempts as rows of their own**: `OrderLifecycle` keeps none, and lets any verdict of
  an order the gateway knows reach the payment at any time, so the check that a stale attempt row
  passes (`payment.py` 594) never holds a verdict back there.  What the attempt's own row says in the
  end is planned as `PaymentAttempts`.
* **Promotions, referrals, bulk orders, the stock pool**: planned, in this order
  of weight.
* **Amounts and currencies of payments, prices, delivery fees, routing and geocoding**
  (`delivery*.py`, `pricing.py`, `routing/`, `geocoding/`): arithmetic and I/O that no
  transition above looks at, except the total a session compares, which is modelled.
* **Catalogue, suppliers, content, accounts, permissions, audit, alerts, push, reports**: rows
  written by single transactions, or messages sent after a commit that nothing reads back.
* **Panel**: the shell, the alarm and the search; which role sees which control; fields and their
  validation; the socket's own life (an event is a load).
* **App**: the catalogue, search, bulk, partner, wishlist and referral screens; ordering again; a second
  attempt to pay after the screen was reopened; limits on codes, names at registration and the move of
  legacy accounts; what a response looks like.
* **Website and deployment**: a static page, and build configuration.
* **Time** is reduced to what is compared with it: a reservation is overdue or it is not.

## 8. Plan

Done, in this order: `OrderStates`; `OrderLifecycle` with `OrderPromise`; `RefundProcessing`;
`StockMovements`; `CheckoutSession`; their proofs; `AdminSession`; the panel's pages; `MobileCart`,
`MobileCheckout`, `MobileOrders`, `MobileSession`; the proofs of `MobileSession`, `AdminSession`,
`AdminPages`, `MobileCart`, `MobileCheckout` and `MobileOrders`; `SessionPromise`, `RefundPromise` and
`StockLedger` with their refinements.

Next, the most important first:

| Module | Question | Bounds | Worth proving |
|---|---|---|---|
| `PaymentAttempts` | what a stale attempt row (`payment.py` 594) makes of the attempts' own statuses and references; `OrderLifecycle` has every verdict's effect on payment and order | 1 payment, 3 attempts, 2 handlers | it implements `OrderLifecycle`'s payment steps |
| `Promotions` | limits under concurrent checkouts (`promotion.py` 313); uses lost on expiry (`order.py` 396) | 1 promotion, limit 2, 3 orders | the counter against the redemptions |
| `Delivery` | partners' availability over two orders; a wrong code that commits in mid-transaction (`delivery_otp.py` 301); cash | 2 orders, 2 partners | a busy partner has an assignment |
| `StockPool` | packs from base units, oldest lots first, as recursive functions against a definition | 3 lots, 3 packs | bounds of an allocation |
| `StockMovements` extended | undo, shares (`set_stock_shares`), drafting in packaging | as now | they too are steps of `StockLedger` |
| `Referrals`, `BulkOrders` | the cap across concurrent qualifications (`referral.py` 357); a quote converted once (`bulk_order.py` 578) | 3 referrals; 2 versions | the conversion |
| `RequestLimit` | permits against time-outs (`core/concurrency.py`) | 3 requests, 1 permit | no permit lost |

A complete check should stay short, so twelve runs are kept: a new module takes the place of a run
whose disagreement is recorded in section 6, or shares the run of a module it is composed with.

Further proofs: `OffersAreTaken` for the pages one by one.
