CONSTANTS
  r1 = r1
  r2 = r2
  Nothing = Nothing
  Rows = {r1, r2}
  FirstRow = r1
  Screens <- MCScreens
  MaxReads = 2
  MaxEvents = 2
SPECIFICATION PageSpec
CHECK_DEADLOCK FALSE
INVARIANTS SettledViewIsCurrent GuardedActsAreSingle
PROPERTIES RefusedOnlyWhenStale RestingEditsStay
