CONSTANTS
  v1 = v1
  v2 = v2
  None = None
  Variants = {v1, v2}
  Carded = {v1}
  MaxTaps = 3
  MaxLosses = 1
SPECIFICATION CartSpec
INVARIANTS SettledCartIsServers TapsArrive
