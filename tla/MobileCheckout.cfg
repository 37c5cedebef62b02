CONSTANTS
  MaxSessions = 2
  ConfirmAttempts = 4
  MaxPresses = 3
  MaxFailures = 2
  MaxKills = 1
SPECIFICATION FairSpec
CHECK_DEADLOCK FALSE
INVARIANTS NeverToldFailed RememberedUntilAnswered
PROPERTIES BusyEnds
