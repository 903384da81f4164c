SPECIFICATION FairSpec
CONSTANTS
  Ssids = {home, cafe}
  cafe = cafe
  home = home
  None = None
  Phones = {b1, b2}
  b1 = b1
  b2 = b2
  Restarts = TRUE
  Attempts = 3
  MaxConnects = 2
  MaxFinishes = 2
  MaxUpsets = 1
INVARIANTS ServedOverAccessPoint ManagerRestored CleanHandover ConnectedIsStored
PROPERTY EveryStartIsUsable
CHECK_DEADLOCK FALSE
