SPECIFICATION FairSpec
CONSTANTS
  ann = ann
  bob = bob
  carl = carl
  c1 = c1
  c2 = c2
  None = None
  Users = {ann, bob, carl}
  Staff = {ann, bob}
  Unverified = {bob}
  Unlinked = {ann, carl}
  Calls = {c1, c2}
INVARIANTS PanelOnlyForStaff ProfileMatchesSession
PROPERTIES PageLoadDecided ExpiredTokenReplaced
