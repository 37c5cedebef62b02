CONSTANTS
  Workers = {w1, w2}
  MaxSessions = 1
  MaxCarts = 2
  MaxPrice = 2
SPECIFICATION Spec
CHECK_DEADLOCK FALSE
INVARIANTS GoodsOrMoney
