SPECIFICATION Spec
CONSTANTS
  pageA = pageA
  flat = flat
  loud = loud
  bad = bad
  None = none
  Unreadable = unreadable
  Empty = empty
  Pages <- OnePage
  Bands <- MCBands
  Invalid <- MCInvalid
  Flat <- flat
  Stored <- MCReadable
  MaxSaves = 1
  MaxEdits = 1
  MaxConnects = 1
  MaxUpsets = 0
INVARIANT ResyncNeverStale
CHECK_DEADLOCK FALSE
