SPECIFICATION FairSpec
CONSTANTS
  Pages = {p1}
  p1 = p1
  MaxClaims = 1
  MaxToggles = 2
  MaxRebuilds = 2
  MaxUpsets = 1
  None = None
INVARIANT TypeOK
PROPERTY ClaimsEnd
PROPERTY StartingResolves
CHECK_DEADLOCK FALSE
