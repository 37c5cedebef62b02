CONSTANTS
  Admins = {m1}
  MaxAttempts = 3
SPECIFICATION FairSpec
CHECK_DEADLOCK FALSE
INVARIANTS VerdictsAreTrue RefundedMeansPaid
PROPERTIES ReferencedRefundResolves
