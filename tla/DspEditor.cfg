SPECIFICATION FairSpec
CONSTANTS
  pageA = pageA
  flat = flat
  loud = loud
  bad = bad
  None = none
  Unreadable = unreadable
  Empty = empty
  Pages <- OnePage
  Bands <- MCBands
  Invalid <- MCInvalid
  Flat <- flat
  Stored <- MCStored
  MaxSaves = 2
  MaxEdits = 1
  MaxConnects = 1
  MaxUpsets = 1
INVARIANTS InvalidNeverLive CleanSaveAgrees ProtectedUnlessEdited
PROPERTIES SaveEnds ResyncRestores
CHECK_DEADLOCK FALSE
