--------------------------- MODULE MCMobileOrders ---------------------------
EXTENDS MobileOrders
=============================================================================
