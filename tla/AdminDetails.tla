---------------------------- MODULE AdminDetails ----------------------------
(***************************************************************************)
(* The pages of the admin panel about one thing, and the sections of them  *)
(* that keep state of their own, described like the lists in AdminLists.   *)
(* They blank for their first load only, and a section tells its page when *)
(* it has changed something: the page loads again, and its form is filled  *)
(* anew.                                                                   *)
(***************************************************************************)
EXTENDS AdminLists

\* The same control in every state of a thing.
Always(states, names) == [s \in states |-> names]

\* Two sets of controls side by side.
Beside(f, g) == [s \in DOMAIN f |-> f[s] \cup g[s]]

-----------------------------------------------------------------------------
(* One order. *)

\* load() blanks for every load that is not silent; an event of this order loads silently.
OrderLoad == [skeleton |-> "each", live |-> TRUE, local |-> {"step"}] @@ OneThing

\* isOrderCancellable: PENDING or CONFIRMED, whatever the delivery has come to.  The steps of
\* a cancelled order's delivery are not shown here.
OrderOffers ==
  [s \in FulfillmentStatus |-> FulfillmentOffers[s] \cup (IF s = "DELIVERED" THEN {} ELSE {"cancel"})]
    @@ [UNPAID |-> {"cancel"}, CANCELLED |-> {}] @@ [s \in Cancelled |-> {}]

\* handleCancel: the answer is the order as it is then; a second cancellation is none.
CancelOrderAct ==
  [makes |-> AfterCancel @@ Same(Cancelled) @@ To({"UNPAID", "CANCELLED"}, "CANCELLED"),
   asks |-> TRUE, after |-> "patch"] @@ Notifies("cancelling")

OrderPage == Page(OrderLoad, OrderOffers, FulfillmentActs @@ [cancel |-> CancelOrderAct])

-----------------------------------------------------------------------------
(* One payment and its refund. *)

PaymentLoad == OneThing

\* The row of buttons is there for a refund that may be approved, rejected or
\* processed: one that is being processed has none, "check status" included.
PaymentOffers ==
  [s \in DOMAIN RefundActions |->
     IF RefundActions[s] \cap {"approve", "reject", "process"} # {} THEN RefundActions[s] ELSE {}]

\* One flag for all; Process and Check load again whatever the answer was.
PaymentActs ==
  [ approve |-> RefundRequests.approve @@ Awaited("acting"),
    reject  |-> RefundRequests.reject @@ Confirmed("acting"),
    process |-> RefundRequests.process @@ [onFail |-> "reload"] @@ Notifies("acting"),
    sync    |-> RefundRequests.sync @@ [onFail |-> "reload"] @@ Notifies("acting") ]

PaymentPage == Page(PaymentLoad, PaymentOffers, PaymentActs)

-----------------------------------------------------------------------------
(* One customer. *)

CustomerLoad == [local |-> {"email", "phone", "password"}] @@ OneThing

\* Each status has the other two, behind a dialog; the answer is shown.  The server
\* takes any status, but not for one's own account.
CustomerStates == {"ACTIVE", "SUSPENDED", "INACTIVE"}
CustomerStatusOffers ==
  [ACTIVE |-> {"suspend", "disable"}, SUSPENDED |-> {"activate", "disable"}, INACTIVE |-> {"activate", "suspend"}]

StatusChange(to) ==
  [makes |-> To(CustomerStates, to), unseen |-> TRUE, asks |-> TRUE, after |-> "patch"] @@ Notifies("statusLoading")
CustomerStatusActs ==
  [activate |-> StatusChange("ACTIVE"), suspend |-> StatusChange("SUSPENDED"), disable |-> StatusChange("INACTIVE")]

\* Notes are a list of their own; an edit of one takes no flag.
NoteActs ==
  [ addNote  |-> [makes |-> Same(CustomerStates), unshown |-> TRUE, after |-> "stay"] @@ Notifies("savingNote"),
    editNote |-> [makes |-> Same(CustomerStates), unshown |-> TRUE, after |-> "stay"] @@ Notifies("none") ]

\* One editor for the address and one for the number, in the page and not over it;
\* either may be taken, or be the same.
ContactEditField(flag) ==
  [makes |-> Same(CustomerStates), unseen |-> TRUE, after |-> "patch"] @@ Notifies(flag)

PasswordResetField ==
  [resetPassword |-> [makes |-> Same(CustomerStates), unshown |-> TRUE, unseen |-> TRUE,
                      after |-> "stay"] @@ Notifies("password")]

CustomerPage ==
  Page(CustomerLoad,
       Beside(CustomerStatusOffers, Always(CustomerStates, {"addNote", "editNote", "email", "phone", "resetPassword"})),
       CustomerStatusActs @@ NoteActs @@ PasswordResetField
         @@ [email |-> ContactEditField("email"), phone |-> ContactEditField("phone")])

-----------------------------------------------------------------------------
(* One category. *)

\* load() fills the form; the list of products and the activity come after it.
CategoryLoad == [form |-> TRUE] @@ OneThing

CategoryStates == {"ACTIVE", "INACTIVE", "ARCHIVED"}

\* The header.  "Mark inactive" is an edit of the form; only archiving and restoring act.
CategoryHeader ==
  [ACTIVE |-> {"archive", "delete"}, INACTIVE |-> {"archive", "delete"}, ARCHIVED |-> {"restore", "delete"},
   gone |-> {}]

\* The form, which sends back the status it read unless that was edited too.
CategorySave ==
  [save |-> [makes |-> Same(CategoryStates), asRead |-> TRUE, save |-> TRUE, unseen |-> TRUE] @@ Awaited("savingGeneral")]

\* Archiving is confirmed, and its error is shown under the form; restoring takes no
\* flag, and the page loads whether it worked or not.
CategoryArchive ==
  [ archive |-> [makes |-> To(CategoryStates, "ARCHIVED")] @@ Confirmed("archiving"),
    restore |-> [makes |-> To(CategoryStates, "ACTIVE"), onFail |-> "reload"] @@ Notifies("none") ]

\* Products or subcategories keep a category from being deleted.
CategoryDelete ==
  [delete |-> [makes |-> To(CategoryStates, "gone"), unseen |-> TRUE, after |-> "leave"] @@ Confirmed("deleting")]

\* Photo and products: each act loads the page, those on products even when refused.
CategoryImage ==
  [image |-> [makes |-> Same(CategoryStates), unseen |-> TRUE] @@ Awaited("none")]
CategoryProducts ==
  [ moveProduct   |-> [makes |-> Same(CategoryStates), onFail |-> "reload"] @@ Awaited("none"),
    addExisting   |-> [makes |-> Same(CategoryStates)] @@ Awaited("none"),
    removeProduct |-> [makes |-> Same(CategoryStates), onFail |-> "reload"] @@ Awaited("none") ]

\* The controls of the page's sections are there in every state.
CategoryPage ==
  Page(CategoryLoad,
       Beside(CategoryHeader,
              Always(CategoryStates, {"save", "image", "moveProduct", "addExisting", "removeProduct"})
                @@ [gone |-> {}]),
       CategorySave @@ CategoryArchive @@ CategoryDelete @@ CategoryImage @@ CategoryProducts)

-----------------------------------------------------------------------------
(* One product. *)

ProductLoad == [form |-> TRUE] @@ OneThing

\* Hide or Publish, and the menu.  checkReadiness keeps a product from being
\* published before the server is asked; stock does not count.
ProductHeader ==
  [ live |-> {"hide", "archive", "delete"}, ready |-> {"publish", "archive", "delete"},
    blocked |-> {"archive", "delete"}, archived |-> {"delete"}, gone |-> {} ]

\* changeStatus: one flag, which the Archive of the menu does not look at.
ChangeProductStatus ==
  [ hide    |-> [lock |-> "statusBusy"] @@ ProductsActs.hide,
    publish |-> [lock |-> "statusBusy"] @@ ProductsActs.publish,
    archive |-> [makes |-> To(Products, "archived"), loose |-> TRUE] @@ Awaited("statusBusy") ]

ProductDelete ==
  [delete |-> [makes |-> To(Products, "gone"), unseen |-> TRUE, after |-> "leave"] @@ Confirmed("deleting")]

\* The form sends back the status it read.
ProductSave ==
  [save |-> [makes |-> Same(Products), asRead |-> TRUE, save |-> TRUE, unseen |-> TRUE] @@ Awaited("savingGeneral")]

ProductPage ==
  Page(ProductLoad, Beside(ProductHeader, Always(Products, {"save"}) @@ [gone |-> {}]),
       ChangeProductStatus @@ ProductDelete @@ ProductSave)

\* A section about the things of a product; the page around it may give way.
SectionLoad(flags) == [many |-> TRUE, local |-> flags] @@ ProductLoad

\* Photos: no flag, and the page loads whatever the answer was; an upload shows its
\* error in the drop zone.
MediaSection ==
  Page(SectionLoad({"uploading"}),
       [primary |-> {"removePhoto", "upload"}, other |-> {"setPrimary", "removePhoto", "upload"}, gone |-> {"upload"}],
       [ setPrimary  |-> [makes |-> To({"primary", "other"}, "primary"), onFail |-> "reload"] @@ Notifies("none"),
         removePhoto |-> [makes |-> To({"primary", "other"}, "gone"), onFail |-> "reload"] @@ Notifies("none"),
         upload      |-> [makes |-> Same({"primary", "other", "gone"}), unseen |-> TRUE] @@ Notifies("uploading") ])

\* Sizes.  mayOfferDelete: not a size with stock, nor the only one of a live product.
Sizes == {"needed", "spare", "hidden"}
SizeRow ==
  [ needed |-> {"price", "undoPrice", "edit", "toggle"},
    spare  |-> {"price", "undoPrice", "edit", "toggle", "deleteSize"},
    hidden |-> {"price", "undoPrice", "edit", "toggle", "deleteSize"}, gone |-> {} ]

\* handleAddSizes: a size and its price, one after the other for each; a refusal
\* after the first of them loads what was saved.
AddSizes ==
  [addSizes |-> [makes |-> Same(Sizes \cup {"gone"}), creates |-> TRUE, unseen |-> TRUE, parts |-> "reload"]
                @@ Notifies("addingVariant")]

\* Hide or Show takes no flag and loads always.
ToggleSize ==
  [toggle |-> [makes |-> [needed |-> "hidden", spare |-> "hidden", hidden |-> "spare"], unseen |-> TRUE,
               onFail |-> "reload"] @@ Notifies("none")]

EditSize == [edit |-> [makes |-> Same(Sizes), unseen |-> TRUE, asks |-> TRUE] @@ Notifies("savingEdit")]

\* A refusal closes the dialog too, and offers to hide the size instead.
DeleteSize ==
  [deleteSize |-> [makes |-> To(Sizes, "gone"), unseen |-> TRUE, asks |-> TRUE, closes |-> TRUE] @@ Notifies("deleting")]

\* commitPrice looks at its flag; Undo writes the old price as a new one and has none.
CommitPrice == [price |-> [makes |-> Same(Sizes)] @@ Notifies("savingPrice")]
UndoPrice == [undoPrice |-> [makes |-> Same(Sizes)] @@ Notifies("none")]

VariantsSection ==
  Page(SectionLoad({"addingVariant", "savingEdit", "deleting", "savingPrice"}),
       Beside(SizeRow, Always(DOMAIN SizeRow, {"addSizes"})),
       AddSizes @@ ToggleSize @@ EditSize @@ DeleteSize @@ CommitPrice @@ UndoPrice)

-----------------------------------------------------------------------------
(* One promotion. *)

\* load() fills the form; redemptions are paged beside it.
PromotionLoad == [form |-> TRUE] @@ OneThing

PromotionStates == {"DRAFT", "ACTIVE", "PAUSED", "DISABLED"}

\* Lifecycle buttons, for any status but the one it leads to.
PromotionLifecycle ==
  [s \in PromotionStates |->
     {"duplicate"} \cup (IF s = "ACTIVE" THEN {"pause"} ELSE {"activate"})
                   \cup (IF s = "DISABLED" THEN {} ELSE {"disable"})]

\* Behind one dialog with one flag; a copy is opened instead of the promotion.
LifecycleActs ==
  [ activate  |-> [makes |-> To(PromotionStates, "ACTIVE")] @@ Confirmed("lifecycleLoading"),
    pause     |-> [makes |-> To(PromotionStates, "PAUSED")] @@ Confirmed("lifecycleLoading"),
    disable   |-> [makes |-> To(PromotionStates, "DISABLED")] @@ Confirmed("lifecycleLoading"),
    duplicate |-> [makes |-> Same(PromotionStates), after |-> "leave"] @@ Confirmed("lifecycleLoading") ]

\* The carousel's switch and picture are saved at once, and the page loads again.
CarouselActs ==
  [ carousel |-> [makes |-> Same(PromotionStates)] @@ Awaited("carouselBusy"),
    picture  |-> [makes |-> Same(PromotionStates), unseen |-> TRUE] @@ Awaited("none") ]

\* The form has no status in it.
PromotionSave == [save |-> [makes |-> Same(PromotionStates), save |-> TRUE, unseen |-> TRUE] @@ Awaited("saving")]

PromotionPage ==
  Page(PromotionLoad, Beside(PromotionLifecycle, Always(PromotionStates, {"carousel", "picture", "save"})),
       LifecycleActs @@ CarouselActs @@ PromotionSave)

DetailScreens ==
  [ order |-> OrderPage, payment |-> PaymentPage, customer |-> CustomerPage, category |-> CategoryPage,
    product |-> ProductPage, media |-> MediaSection, sizes |-> VariantsSection, promotion |-> PromotionPage ]
=============================================================================
