CONSTANTS
  Accounts = {ann, bob}
  Password = {ann}
  Partners = {bob}
  NoOne = NoOne
  MaxEvents = 3
  MaxTries = 1
SPECIFICATION Spec
CHECK_DEADLOCK FALSE
INVARIANT SignedOutStays
