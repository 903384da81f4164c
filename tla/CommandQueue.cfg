SPECIFICATION FairSpec
CONSTANTS
  MaxCommands = 4
  k1 = k1
  k2 = k2
  noKey = noKey
  Keys <- MCKeys
  NoKey <- noKey
INVARIANTS
  RunsInSubmissionOrder
  NothingForgotten
  SupersededByLater
PROPERTIES
  ImplementsSerialExecutor
  EverySubmitterAnswered
CHECK_DEADLOCK FALSE
