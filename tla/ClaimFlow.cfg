SPECIFICATION Spec
CONSTANTS
  Pages = {p1, p2}
  p1 = p1
  p2 = p2
  MaxClaims = 2
  MaxToggles = 1
  MaxRebuilds = 0
  MaxUpsets = 1
  None = None
SYMMETRY Browsers
INVARIANT OverrideOwned
INVARIANT ClaimTakesEffect
INVARIANT RecordedMeansClaimed
CHECK_DEADLOCK FALSE
