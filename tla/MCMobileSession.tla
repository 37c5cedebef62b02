--------------------------- MODULE MCMobileSession ---------------------------
EXTENDS MobileSession
=============================================================================
