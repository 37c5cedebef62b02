----------------------------- MODULE AdminForms -----------------------------
(***************************************************************************)
(* The pages of the admin panel that create something or put it in order,  *)
(* and the helpers that decide what a product still needs.                 *)
(***************************************************************************)
EXTENDS AdminDetails

-----------------------------------------------------------------------------
(* A new product. *)

\* Nothing was created yet; or the product was, and its photo was not.
NewProduct == {"new", "created"}

\* While the product exists already the form is locked, and only its photo is left.
NewProductOffers == [new |-> {"create", "createPhotoless"}, created |-> {"retryPhoto"}]

\* save: quickCreateProduct makes the product, its sizes and prices and its first
\* stock in one request, and opens it; or the photo that follows is refused, and the
\* page stays.
QuickCreate ==
  [makes |-> To(NewProduct, "created"), creates |-> TRUE, unseen |-> TRUE, save |-> TRUE]
NewProductActs ==
  [ create          |-> [after |-> "leave"] @@ QuickCreate @@ Notifies("saving"),
    createPhotoless |-> [after |-> "patch"] @@ QuickCreate @@ Notifies("saving"),
    retryPhoto      |-> [makes |-> Same({"created"}), unseen |-> TRUE, after |-> "leave"] @@ Notifies("saving") ]

NewProductPage == [start |-> {"new"}] @@ Page(CreationForm, NewProductOffers, NewProductActs)

\* checkReadiness: what a product is, apart from its stock, for it to be published.
\* A size that is hidden needs no price.
Readiness(named, categorised, prices) ==
  IF ~named \/ ~categorised \/ prices = {} \/ FALSE \in prices THEN "blocked" ELSE "ready"

-----------------------------------------------------------------------------
(* A new category, a new promotion. *)

\* A photo that fails is left for the category's own page, so that no second attempt
\* makes a second category.
NewCategoryPage ==
  [start |-> {"new"}] @@
  Page(CreationForm, [new |-> {"create"}, created |-> {}],
       [create |-> [makes |-> To({"new", "created"}, "created"), creates |-> TRUE, unseen |-> TRUE,
                    after |-> "leave"] @@ Notifies("saving")])

\* The fields are checked first: a scope that is named needs its products,
\* categories or customers.
PromotionForm == [new |-> {"create"}, created |-> {}]
CreatePromotion ==
  [create |-> [makes |-> To({"new", "created"}, "created"), creates |-> TRUE, unseen |-> TRUE, save |-> TRUE,
               after |-> "leave"] @@ Notifies("saving")]
NewPromotionPage == [start |-> {"new"}] @@ Page(CreationForm, PromotionForm, CreatePromotion)

-----------------------------------------------------------------------------
(* The order of the categories. *)

\* Each load blanks and takes the arrangement from the server.
CategoryOrderLoad == [many |-> FALSE, filters |-> FALSE, form |-> TRUE] @@ Blanks

\* One request for the categories and one for each of the changed subcategory
\* lists; the first refusal ends it, and the page keeps what it shows.
SaveOrder ==
  [saveOrder |-> [makes |-> Same({"arranged"}), save |-> TRUE, unseen |-> TRUE, parts |-> "stay", after |-> "patch"]
                 @@ Notifies("saving")]

CategoryOrderPage == Page(CategoryOrderLoad, [arranged |-> {"saveOrder"}], SaveOrder)

FormScreens ==
  [ newProduct |-> NewProductPage, newCategory |-> NewCategoryPage, newPromotion |-> NewPromotionPage,
    categoryOrder |-> CategoryOrderPage ]
=============================================================================
