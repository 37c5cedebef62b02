---------------------------- MODULE MCMobileCart ----------------------------
EXTENDS MobileCart
CONSTANTS v1, v2
=============================================================================
