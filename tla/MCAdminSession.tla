--------------------------- MODULE MCAdminSession ---------------------------
EXTENDS AdminSession
CONSTANTS ann, bob, carl, c1, c2
=============================================================================
