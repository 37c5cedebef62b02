----------------------------- MODULE AdminLists -----------------------------
(***************************************************************************)
(* The pages of the admin panel that list things: for each, when it loads, *)
(* which controls a row offers in which state, and what each control does. *)
(* The state of a row is what its controls depend on.  `makes' is what the *)
(* server makes of the control (app/services), and its domain the states   *)
(* in which the server takes it; "gone" is a row that was deleted.  The    *)
(* panel is used by an ADMIN here; AdminSession says who gets that far.      *)
(***************************************************************************)
EXTENDS AdminControls, OrderStates

\* Activate and Deactivate, as ads, slides, staff and partners have them: the
\* server takes any of the two statuses, and the one it has already.
Switch == {"ACTIVE", "INACTIVE"}
Switches(active, inactive) == [ACTIVE |-> {active}, INACTIVE |-> {inactive}]

-----------------------------------------------------------------------------
(* Products. *)

\* What the list knows of a product: live, or ready to be (every size has a price;
\* missing stock does not count), or not; an archived one has no switch.
Products == {"live", "ready", "blocked", "archived"}

ProductsLoad == Blanks

\* The dialog that receives stock, then keeps parts of it for single sizes; when that is
\* refused the stock is there, and the page loads.
ReceiveStockDialog == [unseen |-> TRUE, parts |-> "reload"] @@ OwnDialog("receive")

\* The row's buttons and menu: + Stock, Hide and Publish or Show, Delete.
ProductRow ==
  [ live |-> {"receive", "hide", "delete"}, ready |-> {"receive", "publish", "delete"},
    blocked |-> {"receive", "delete"}, archived |-> {"receive", "delete"}, gone |-> {} ]

\* Hide and Publish take no flag; Delete asks, and its dialog shows the refusal.
ProductsActs ==
  [ hide    |-> [makes |-> [live |-> "ready", ready |-> "ready", blocked |-> "blocked",
                            archived |-> "ready"]] @@ Awaited("none"),
    publish |-> [makes |-> To({"live", "ready"}, "live")] @@ Awaited("none"),
    delete  |-> [makes |-> To(Products, "gone"), unseen |-> TRUE] @@ Confirmed("deleting"),
    receive |-> [makes |-> Same(Products)] @@ ReceiveStockDialog ]

ProductsPage == Page(ProductsLoad, ProductRow, ProductsActs)

-----------------------------------------------------------------------------
(* Payments and refunds. *)

\* Rows that open the payment's page.
PaymentsTab == Page(Blanks, Plain, NoActs)

Slip_RefundActions ==
  [ PENDING_APPROVAL |-> {"approve", "reject"},
    APPROVED         |-> {"process", "reject"},
    FAILED           |-> {"process"},
    PROCESSING       |-> {"sync"},
    REFUNDED         |-> {},
    REJECTED         |-> {} ]

\* refundActionsFor
RefundActions ==
  [ PENDING_APPROVAL |-> {"approve", "reject"},
    APPROVED         |-> {"process"},
    FAILED           |-> {"process"},
    PROCESSING       |-> {"sync"},
    REFUNDED         |-> {},
    REJECTED         |-> {} ]

\* What the refund service makes of a request to move to a status.
RefundMoves(to) == To({s \in RefundStatus : CanMove(RefundTransitions, s, to)}, to)

\* The gateway may be out of reach when a refund is processed or checked.
RefundRequests ==
  [ approve |-> [makes |-> RefundMoves("APPROVED")],
    reject  |-> [makes |-> RefundMoves("REJECTED")],
    process |-> [makes |-> RefundMoves("PROCESSING"), unseen |-> TRUE],
    sync    |-> [makes |-> RefundMoves("REFUNDED"), unseen |-> TRUE] ]

\* One actingId for all rows.  Approve and Reject keep it through the reload;
\* Process and Check give it back first, and load again whatever the answer was.
\* (A Process that succeeds loads twice, before it gives actingId back and after; the
\* later load, which nothing waits for, stands for both.)
RefundsActs ==
  [ approve |-> RefundRequests.approve @@ Awaited("row"),
    reject  |-> RefundRequests.reject @@ Confirmed("row"),
    process |-> RefundRequests.process @@ [onFail |-> "reload"] @@ Notifies("row"),
    sync    |-> RefundRequests.sync @@ [onFail |-> "reload"] @@ Notifies("row") ]

RefundsLoad == Blanks

\* A filter on the status, and the rows with their actions.
RefundsTab == Page(RefundsLoad, RefundActions, RefundsActs)

-----------------------------------------------------------------------------
(* Customers, lots and alerts: read-only lists. *)

CustomersLoad == Blanks

\* Search, filters, date ranges and a sort order, and rows that open a customer.
CustomersPage == Page(CustomersLoad, Plain, NoActs)

\* The lots load only while the lot view is open, and blank only while there is
\* nothing to show; the filters of the product view load a summary beside them.
LotsLoad == StaysInPlace

LotRow == [stocked |-> {"remove"}, empty |-> {}]

\* The dialog stays mounted, so its flag outlives its being closed.
RemoveLotStock == [makes |-> To({"stocked"}, "empty"), unseen |-> TRUE] @@ KeptDialog("removing")

InventoryLots == Page(LotsLoad, LotRow, [remove |-> RemoveLotStock])

\* One load for all levels, which are filtered in the page; a row opens the dialog
\* that receives stock.
AlertsPage ==
  Page([filters |-> FALSE] @@ StaysInPlace, [low |-> {"receive"}, fine |-> {}],
       [ receive |-> [makes |-> To({"low", "fine"}, "fine")] @@ ReceiveStockDialog ])

PromotionsLoad == StaysInPlace
PromotionsPage == Page(PromotionsLoad, Plain, NoActs)

\* The dashboard has no skeleton flag: it shows what it has, loads on every order
\* event, and forgets an error only with the next success.
DashboardLoad ==
  [filters |-> FALSE, skeleton |-> "never", hides |-> FALSE, clears |-> FALSE, live |-> TRUE] @@ Blanks

\* Tiles, and lists of what needs attention, each with a link and nothing to press.
DashboardPage == Page(DashboardLoad, Plain, NoActs)

-----------------------------------------------------------------------------
(* Delivery partners and referrals: one act() for every button. *)

\* act() takes no flag, and its error replaces the whole page until a retry.
PagewideError == [errorTo |-> "page"] @@ Awaited("none")

\* The tabs share one load and one error.
PartnersLoad == Blanks

Partners == {"ACTIVE", "SUSPENDED"}
PartnersTab ==
  Page(PartnersLoad, [ACTIVE |-> {"suspend"}, SUSPENDED |-> {"activate"}],
       [ suspend  |-> [makes |-> To(Partners, "SUSPENDED")] @@ PagewideError,
         activate |-> [makes |-> To(Partners, "ACTIVE")] @@ PagewideError ])

\* Cash on delivery: handed over once it was collected.
CodTab ==
  Page(PartnersLoad, [collected |-> {"handedOver"}, pending |-> {}, reconciled |-> {}],
       [ handedOver |-> [makes |-> To({"collected"}, "reconciled")] @@ PagewideError ])

\* Reverse, after a prompt for the reason; a pending referral is cancelled.
ReferralsPage ==
  Page(Blanks,
       [PENDING |-> {"reverse"}, QUALIFIED |-> {"reverse"}, REWARDED |-> {"reverse"},
        REVERSED |-> {}, CANCELLED |-> {}],
       [ reverse |-> [makes |-> [PENDING |-> "CANCELLED", QUALIFIED |-> "REVERSED", REWARDED |-> "REVERSED",
                                 REVERSED |-> "REVERSED", CANCELLED |-> "CANCELLED"]] @@ PagewideError ])

-----------------------------------------------------------------------------
(* Staff, ads and home slides: rows with a busy flag, and a banner for errors. *)

InPlaceWithBanner == [filters |-> FALSE, hides |-> FALSE] @@ StaysInPlace
StaffLoad == InPlaceWithBanner
AdsLoad == InPlaceWithBanner
SlidesLoad == InPlaceWithBanner

\* withRowBusy: the flag of one row is held through the reload; an error of the
\* action is shown where the errors of the load are.
WithRowBusy == [errorTo |-> "page"] @@ Awaited("row")

Accounts == {"ACTIVE", "SUSPENDED"}
StaffRow == [ACTIVE |-> {"suspend", "role"}, SUSPENDED |-> {"activate", "role"}]

\* The server keeps an admin from suspending or disarming the last one or oneself.
StaffActs ==
  [ suspend  |-> [makes |-> To(Accounts, "SUSPENDED"), unseen |-> TRUE] @@ WithRowBusy,
    activate |-> [makes |-> To(Accounts, "ACTIVE")] @@ WithRowBusy,
    role     |-> [makes |-> Same(Accounts), unseen |-> TRUE] @@ WithRowBusy,
    add      |-> [makes |-> Same(Accounts), creates |-> TRUE, unseen |-> TRUE] @@ OwnDialog("add") ]

AddStaffDialog == [s \in Accounts |-> {"add"}]

StaffPage == Page(StaffLoad, [s \in Accounts |-> StaffRow[s] \cup AddStaffDialog[s]], StaffActs)

AdRow == [s \in Switch |-> Switches("deactivate", "activate")[s] \cup {"edit", "delete"}]

AdsActs ==
  [ deactivate |-> [makes |-> To(Switch, "INACTIVE")] @@ WithRowBusy,
    activate   |-> [makes |-> To(Switch, "ACTIVE")] @@ WithRowBusy,
    delete     |-> [makes |-> To(Switch, "gone")] @@ WithRowBusy ]

\* The two dialogs, each with a busy flag and an error of its own; the page closes
\* them and loads when they succeed.
AddAdDialog == [add |-> [makes |-> Same(Switch \cup {"gone"}), creates |-> TRUE, unseen |-> TRUE] @@ OwnDialog("add")]
EditAdDialog == [edit |-> [makes |-> Same(Switch), unseen |-> TRUE, blocked |-> {"row"}] @@ OwnDialog("edit")]

AdsPage ==
  Page(AdsLoad, [s \in Switch |-> AdRow[s] \cup {"add"}] @@ [gone |-> {"add"}],
       AdsActs @@ AddAdDialog @@ EditAdDialog)

\* `busy !== null' disables every row.  A move renumbers all slides, one request
\* each: the first refusal ends it, whatever the others did, and nothing is read.
PageBusy == [errorTo |-> "page"] @@ Awaited("busy")

SlidesActs ==
  [ deactivate |-> [makes |-> To(Switch, "INACTIVE")] @@ PageBusy,
    activate   |-> [makes |-> To(Switch, "ACTIVE")] @@ PageBusy,
    delete     |-> [makes |-> To(Switch, "gone")] @@ PageBusy,
    move       |-> [makes |-> Same(Switch), unseen |-> TRUE, parts |-> "stay"] @@ PageBusy ]

SlideRow == [s \in Switch |-> Switches("deactivate", "activate")[s] \cup {"delete", "move", "edit"}]

AddSlideDialog == [add |-> [makes |-> Same(Switch \cup {"gone"}), creates |-> TRUE, unseen |-> TRUE] @@ OwnDialog("add")]
EditSlideDialog == [edit |-> [makes |-> Same(Switch), unseen |-> TRUE, blocked |-> {"busy"}] @@ OwnDialog("edit")]

SlidesPage ==
  Page(SlidesLoad, [s \in Switch |-> SlideRow[s] \cup {"add"}] @@ [gone |-> {"add"}],
       SlidesActs @@ AddSlideDialog @@ EditSlideDialog)

-----------------------------------------------------------------------------
(* Categories. *)

\* Live or hidden, with products or subcategories or without.
Categories == {"live", "hidden", "liveUsed", "hiddenUsed"}

CategoryRow ==
  [ live     |-> {"hide", "delete"},     hidden     |-> {"show", "delete"},
    liveUsed |-> {"hide", "deleteUsed"}, hiddenUsed |-> {"show", "deleteUsed"}, gone |-> {} ]

\* Delete is offered for a category in use too, in vain: its dialog says that it will not work.
CategoriesActs ==
  [ hide   |-> [makes |-> [live |-> "hidden", hidden |-> "hidden", liveUsed |-> "hiddenUsed",
                           hiddenUsed |-> "hiddenUsed"]] @@ Awaited("none"),
    show   |-> [makes |-> [live |-> "live", hidden |-> "live", liveUsed |-> "liveUsed",
                           hiddenUsed |-> "liveUsed"]] @@ Awaited("none"),
    delete |-> [makes |-> To({"live", "hidden"}, "gone"), closes |-> TRUE] @@ Confirmed("deleting"),
    deleteUsed |-> [makes |-> To({"live", "hidden"}, "gone"), closes |-> TRUE,
                    vain |-> {"liveUsed", "hiddenUsed"}] @@ Confirmed("deleting") ]

CategoriesLoad == StaysInPlace

\* The tree of categories and their subcategories.
CategoriesPage == Page(CategoriesLoad, CategoryRow, CategoriesActs)

-----------------------------------------------------------------------------
(* Orders and deliveries: lists that load silently when an order event comes. *)

\* load({silent}): no skeleton, but the error of the load before goes.
OrdersLoad == [live |-> TRUE] @@ Blanks

OrdersPage == Page(OrdersLoad, Plain, NoActs)

\* One warehouse step at a time, then the partner, the road and the code.
FulfillmentOffers ==
  [ PENDING            |-> {"pick"},
    PICKING            |-> {"pack"},
    PACKED             |-> {"ready"},
    READY_FOR_DELIVERY |-> {"assign"},
    ASSIGNED           |-> {"out"},
    OUT_FOR_DELIVERY   |-> {"deliver"},
    DELIVERED          |-> {} ]

\* A cancelled order leaves its delivery as it was: the same step is next, though the server
\* takes none any more.  (A delivery on the road is cancelled with its order too.)
AfterCancel ==
  [ PENDING |-> "pendingCancelled", PICKING |-> "pickingCancelled", PACKED |-> "packedCancelled",
    READY_FOR_DELIVERY |-> "readyCancelled", ASSIGNED |-> "assignedCancelled",
    OUT_FOR_DELIVERY |-> "outCancelled" ]
CancelledOffers ==
  [ pendingCancelled |-> {"pick"}, pickingCancelled |-> {"pack"}, packedCancelled |-> {"ready"},
    readyCancelled |-> {"assign"}, assignedCancelled |-> {"out"}, outCancelled |-> {"deliver"} ]
Cancelled == DOMAIN CancelledOffers

\* What the fulfilment service makes of a step: from the status before it, and
\* nothing when it was done already.
StepTo(to) == To({s \in DOMAIN FulfillmentNext : FulfillmentNext[s] = to} \cup {to}, to)
MovedOn(to) == FulfillmentStatus \ DOMAIN StepTo(to)

\* run(): the page is told when the step is done, and also when the refusal says
\* "from status".  A warehouse step is refused in other words, and so is any step of an
\* order that is not CONFIRMED (_assert_order_still_active, which comes first; a delivery
\* is looked at before its order only when it is confirmed).
FulfillmentRun == [silent |-> TRUE, vain |-> Cancelled] @@ Notifies("step")
WarehouseStep(to) == [makes |-> StepTo(to), onFail |-> "resync"] @@ FulfillmentRun

FulfillmentActs ==
  [ pick    |-> WarehouseStep("PICKING"),
    pack    |-> WarehouseStep("PACKED"),
    ready   |-> WarehouseStep("READY_FOR_DELIVERY"),
    assign  |-> [makes |-> To({"READY_FOR_DELIVERY"}, "ASSIGNED"), unseen |-> TRUE, onFail |-> "resync",
                 resyncs |-> FulfillmentStatus \ {"READY_FOR_DELIVERY", "DELIVERED"}] @@ FulfillmentRun,
    out     |-> [makes |-> StepTo("OUT_FOR_DELIVERY"), onFail |-> "resync",
                 resyncs |-> MovedOn("OUT_FOR_DELIVERY") \ {"DELIVERED"}] @@ FulfillmentRun,
    deliver |-> [makes |-> StepTo("DELIVERED"), unseen |-> TRUE, onFail |-> "resync",
                 resyncs |-> MovedOn("DELIVERED") \cup (Cancelled \ {"outCancelled"})] @@ FulfillmentRun ]

\* A row of the delivery list opens to the steps of its delivery, whatever its order has come to.
DeliveryRow == FulfillmentOffers @@ CancelledOffers
DeliveriesLoad == [live |-> TRUE, local |-> {"step"}] @@ Blanks

DeliveryPage == Page(DeliveriesLoad, DeliveryRow, FulfillmentActs)

-----------------------------------------------------------------------------
(* Settings: the locations, each row with a flag of its own. *)

\* A location without coordinates cannot be the packing point.
LocationRow ==
  [ unplaced |-> {"coordinates", "deleteHub"}, placed |-> {"coordinates", "packingPoint", "deleteHub"},
    packing |-> {"coordinates", "deleteHub"}, gone |-> {} ]

\* Deleting a hub closes its dialog whatever the answer; one that holds stock stays.
LocationActs ==
  [ coordinates  |-> [makes |-> [unplaced |-> "placed", placed |-> "placed", packing |-> "packing"]] @@ Notifies("row"),
    packingPoint |-> [makes |-> To({"placed", "packing"}, "packing")] @@ Notifies("row"),
    deleteHub    |-> [makes |-> To({"unplaced", "placed", "packing"}, "gone"), unseen |-> TRUE, closes |-> TRUE,
                      asks |-> TRUE] @@ Notifies("row") ]

SettingsLoad == [filters |-> FALSE, skeleton |-> "never", clears |-> FALSE, local |-> {"row"}] @@ Blanks

SettingsPage == Page(SettingsLoad, LocationRow, LocationActs)

ListScreens ==
  [ products |-> ProductsPage, payments |-> PaymentsTab, refunds |-> RefundsTab,
    customers |-> CustomersPage, lots |-> InventoryLots, alerts |-> AlertsPage,
    promotions |-> PromotionsPage, dashboard |-> DashboardPage, partners |-> PartnersTab,
    cod |-> CodTab, referrals |-> ReferralsPage, staff |-> StaffPage, ads |-> AdsPage,
    slides |-> SlidesPage, categories |-> CategoriesPage, orders |-> OrdersPage,
    deliveries |-> DeliveryPage, settings |-> SettingsPage ]
=============================================================================
