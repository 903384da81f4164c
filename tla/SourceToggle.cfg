SPECIFICATION FairSpec
CONSTANTS
  airplay = airplay
  spotify = spotify
  plexamp = plexamp
  tidal = tidal
  nqptp = nqptp
  plexd = plexd
  mdns = mdns
  g1 = g1
  g2 = g2
  none = none
  Catalog <- ThreeSources
  Retired <- MCRetired
  Default = airplay
  SetupSources <- MCSetupSources
  Configured <- MCConfigured
  UnitsOf <- MCUnitsOf
  Groups <- TwoGroups
  MaxClicks = 2
  None = none
  MaxUpsets = 1
PROPERTY EveryToggleEnds
INVARIANTS
  TypeOK
  OneSourceStaysEnabled
  ServedMatchesRecord
  UnitsMatchRecord
  SetupDiscarded
  ListenersMovedFirst
CHECK_DEADLOCK FALSE
