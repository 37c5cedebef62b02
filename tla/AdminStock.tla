----------------------------- MODULE AdminStock -----------------------------
(***************************************************************************)
(* Stock in the admin panel: the cards of the inventory page, the lot's    *)
(* page and the dialogs that add, correct, remove and move stock.          *)
(* What is in stock changes all day, so a dialog of a card opens with a    *)
(* card that was read for it.                                              *)
(***************************************************************************)
EXTENDS AdminForms

\* A product without stock, with stock, and with an operation just made in this tab
\* that can be undone.
StockStates == {"none", "stocked", "adjusted"}
InStock == StockStates \ {"none"}

\* DialogShell: nothing closes a dialog while its call is out.  onDone() tells the
\* card before the dialog closes.
StockDialog(flag) == [asks |-> TRUE, fresh |-> TRUE, unseen |-> TRUE] @@ Notifies(flag)

\* The stock is received, then parts of it are kept for single sizes; when that is
\* refused the stock is there, and the card loads.
AddStockDialog == [makes |-> To(StockStates, "stocked"), parts |-> "reload"] @@ StockDialog("busy")

\* A count below what orders have reserved is refused, and so is a removal or a move
\* of more than is there.
CorrectStockDialog == [makes |-> To(InStock, "adjusted")] @@ StockDialog("busy")
RemoveStockAmountDialog == [makes |-> To(InStock, "adjusted")] @@ StockDialog("busy")
MoveStockDialog == [makes |-> To(InStock, "adjusted")] @@ StockDialog("busy")

\* Undo: only what nobody has used since.
UndoStock == [makes |-> To({"adjusted"}, "stocked"), unseen |-> TRUE] @@ Notifies("undoing")

\* Stock kept for one size only: one savingId for the sizes of a card.
AssignShare == [makes |-> Same(StockStates), unseen |-> TRUE] @@ Notifies("saving")

StockCardActs ==
  [ add |-> AddStockDialog, correct |-> CorrectStockDialog, remove |-> RemoveStockAmountDialog,
    move |-> MoveStockDialog, undo |-> UndoStock, assign |-> AssignShare ]

-----------------------------------------------------------------------------
(* The cards of the inventory page. *)

StockCardOffers ==
  [ none     |-> {"add", "assign"}, stocked |-> {"add", "correct", "remove", "move", "assign"},
    adjusted |-> {"add", "correct", "remove", "move", "assign", "undo"} ]

\* load() blanks the first time only; coming back to the tab loads again, which
\* comes in with ChangeQuery here.
StockViewLoad == [local |-> {"busy", "saving"}] @@ StaysInPlace

ProductStockView ==
  [start |-> {"none", "stocked"}] @@ Page(StockViewLoad, StockCardOffers, StockCardActs)

\* The stock of the product's own page: the same dialogs, without shares, once the
\* product has a size.
ProductStockOffers ==
  [ sizeless |-> {}, none |-> {"add"}, stocked |-> {"add", "correct", "remove", "move"},
    adjusted |-> {"add", "correct", "remove", "move", "undo"} ]

StockSection ==
  [many |-> FALSE, start |-> {"sizeless", "none", "stocked"}] @@
  Page(SectionLoad({"busy", "undoing"}), ProductStockOffers,
       [a \in {"add", "correct", "remove", "move", "undo"} |-> StockCardActs[a]])

-----------------------------------------------------------------------------
(* One lot. *)

LotLoad == [local |-> {"adjusting", "removing", "reconciling", "transferring"}] @@ OneThing

LotStates == {"held", "used"}
LotOffers == Always(LotStates, {"adjust", "removeLot", "reconcile", "transfer"})

\* Dialogs that stay mounted: Cancel closes them while a call is out, and their flag
\* holds.  An adjustment may be of more than is free, which the server refuses.
AdjustDialog == [makes |-> Same(LotStates), unseen |-> TRUE] @@ KeptDialog("adjusting")
RemoveStockDialog == [makes |-> To(LotStates, "used"), unseen |-> TRUE] @@ KeptDialog("removing")
TransferDialog == [makes |-> Same(LotStates), unseen |-> TRUE] @@ KeptDialog("transferring")
ReconcileDialog == [makes |-> Same(LotStates), unseen |-> TRUE, asks |-> TRUE] @@ Notifies("reconciling")

LotPage ==
  Page(LotLoad, LotOffers,
       [adjust |-> AdjustDialog, removeLot |-> RemoveStockDialog, reconcile |-> ReconcileDialog,
        transfer |-> TransferDialog])

\* Reserve levels and alerts of a product, each editor with a flag of its own; the
\* page is told, and fills its form anew.
ReserveLevelEditor == [makes |-> Same({"set", "unset"})] @@ Notifies("row")
ProductAlertEditor == [makes |-> Same({"set", "unset"}), unseen |-> TRUE] @@ Notifies("alert")

StockLevelsSection ==
  Page(SectionLoad({"row", "alert"}), Always({"set", "unset"}, {"level", "alert"}),
       [level |-> ReserveLevelEditor, alert |-> ProductAlertEditor])

\* A warehouse, created in a dialog that may be closed meanwhile; the page reads the
\* locations again.
AddWarehouseDialog ==
  [add |-> [makes |-> Same({"listed"}), creates |-> TRUE, unseen |-> TRUE] @@ KeptDialog("saving")]

Warehouses == Page([filters |-> FALSE, skeleton |-> "never"] @@ StaysInPlace, [listed |-> {"add"}], AddWarehouseDialog)

StockScreens ==
  [ stockCards |-> ProductStockView, productStock |-> StockSection, lot |-> LotPage,
    stockLevels |-> StockLevelsSection, warehouses |-> Warehouses ]
=============================================================================
