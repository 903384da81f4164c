SPECIFICATION Spec
CONSTANTS
  Players = {p1, p2}
  p1 = p1
  p2 = p2
  Levels = {0, 50}
  Start <- MCStart
  Known = {p1}
  Pages = {b1, b2}
  b2 = b2
  b1 = b1
  None = None
  Absent = Absent
  MaxOverlays = 2
  MaxEvents = 3
INVARIANTS LastSubmittedWins CacheFollowsFiles CacheWasDelivered QuietPagesFollow OverlaysAreFlagged ChangesAreRemembered
CHECK_DEADLOCK FALSE
