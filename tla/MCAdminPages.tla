---------------------------- MODULE MCAdminPages ----------------------------
EXTENDS AdminPages, AdminStock
CONSTANTS r1, r2
MCScreens == ListScreens @@ DetailScreens @@ FormScreens @@ StockScreens
OrderScreen == [p \in {"order"} |-> OrderPage]
PromotionScreen == [p \in {"promotion"} |-> PromotionPage]
=============================================================================
