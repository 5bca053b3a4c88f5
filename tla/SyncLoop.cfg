SPECIFICATION FairSpec
CONSTANTS
  MaxUpdates = 3
  AccountUpdates = {2}
  Threshold = 2
  MaxFaults = 2
  MaxCrashes = 1
  MaxOnline = 1
INVARIANTS
  NothingMissed
  WaitingIsReported
PROPERTIES
  TokenForward
  UpdatesArrive
\* a sync that ended stays so
CHECK_DEADLOCK FALSE
