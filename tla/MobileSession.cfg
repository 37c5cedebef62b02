CONSTANTS
  Accounts = {ann, bob}
  Password = {ann}
  Partners = {bob}
  NoOne = NoOne
  MaxEvents = 3
  MaxTries = 1
SPECIFICATION FairSpec
CHECK_DEADLOCK FALSE
INVARIANTS CacheIsTheirs DataIsTheirs StrangerNeedsLateAnswer
PROPERTIES OverlayEnds ScreenFollows
