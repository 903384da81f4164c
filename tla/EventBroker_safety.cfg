SPECIFICATION Spec
CONSTANTS
  p1 = p1
  g1 = g1
  s1 = s1
  fine = fine
  muted = muted
  bad = bad
  off = off
  playing = playing
  loud = loud
  r1 = r1
  none = none
  nothing = nothing
  Players <- MCPlayers
  Groups <- MCGroups
  Streams <- NoStreams
  Attrs <- MCAttrs
  OutOfRange <- MCOutOfRange
  Settings <- MCSettings
  Levels <- MCLevels
  None <- none
  Nothing <- nothing
  Reseeders <- MCReseeders
  MaxEvents = 2
  MaxRefusals = 1
  MaxUpsets = 1
CHECK_DEADLOCK FALSE
INVARIANTS TypeOK NoStrandedChange ConnectedHaveVolume
