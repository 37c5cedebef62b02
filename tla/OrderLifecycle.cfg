CONSTANTS
  Orders = {o1, o2}
  Lots = {l1, l2}
  Needs = {1, 2}
  MaxStock = 1
  MaxInFlight = 2
SPECIFICATION FairSpec
INVARIANTS LedgerExact NeverOversold OrderMatchesReservation NoStrandedMoney ConfirmedIsBacked DeliveryInStep
PROPERTIES PromiseKept EveryOrderIsDecided
