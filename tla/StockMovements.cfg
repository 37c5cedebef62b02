CONSTANTS
  Lots = {l1, l2}
  Clerks = {c1, c2}
  Amounts = {1, 2}
  MaxStock = 1
  Nobody = Nobody
SPECIFICATION FairSpec
INVARIANTS WithinStock
PROPERTIES DriftNeedsStaleRead EveryTransferEnds
