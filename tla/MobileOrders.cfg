CONSTANTS
  MaxEvents = 2
  MaxSockets = 3
SPECIFICATION FairSpec
CHECK_DEADLOCK FALSE
INVARIANTS ToldIsShown ConnectedIsCurrent AlwaysListening
PROPERTIES OrderTracked
