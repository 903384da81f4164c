SPECIFICATION Spec
CONSTANTS
  Pages = {p1}
  p1 = p1
  MaxClaims = 1
  MaxToggles = 0
  MaxRebuilds = 1
  MaxUpsets = 0
  None = None
INVARIANT FlagHasFlow
CHECK_DEADLOCK FALSE
