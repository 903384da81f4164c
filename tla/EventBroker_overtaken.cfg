SPECIFICATION FairSpec
CONSTANTS
  p1 = p1
  g1 = g1
  s1 = s1
  fine = fine
  muted = muted
  bad = bad
  off = off
  playing = playing
  loud = loud
  r1 = r1
  none = none
  nothing = nothing
  Players <- MCPlayers
  Groups <- NoGroups
  Streams <- MCStreams
  Attrs <- MCAttrs
  OutOfRange <- MCOutOfRange
  Settings <- MCSettings
  Levels <- MCLevels
  None <- none
  Nothing <- nothing
  Reseeders <- MCReseeders
  MaxEvents = 2
  MaxRefusals = 0
  MaxUpsets = 0
CHECK_DEADLOCK FALSE
PROPERTY ReflectedInEveryBrowser
