SPECIFICATION FairSpec
CONSTANTS
  p1 = p1
  g1 = g1
  s1 = s1
  fine = fine
  muted = muted
  bad = bad
  off = off
  playing = playing
  loud = loud
  r1 = r1
  none = none
  nothing = nothing
  Players <- MCPlayers
  Groups <- NoGroups
  Streams <- MCStreams
  Attrs <- TwoAttrs
  OutOfRange <- MCOutOfRange
  Settings <- MCSettings
  Levels <- MCLevels
  None <- none
  Nothing <- nothing
  Reseeders <- NoReseeders
  MaxEvents = 3
  MaxRefusals = 0
  MaxUpsets = 1
CHECK_DEADLOCK FALSE
PROPERTIES Converges ReconnectedArePushed
