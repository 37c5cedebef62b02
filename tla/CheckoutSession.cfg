CONSTANTS
  Workers = {w1, w2}
  MaxSessions = 1
  MaxCarts = 2
  MaxPrice = 2
SPECIFICATION FairSpec
CHECK_DEADLOCK FALSE
INVARIANTS ConfirmedIsCaptured OnePaymentOneOrder CompletedIsSettled
PROPERTIES CapturedIsSettled
