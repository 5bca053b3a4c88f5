SPECIFICATION FairSpec
CONSTANTS
  MaxJoins = 1
  Servers = {TRUE}
  CancelsOnState = TRUE
  MaxRetries = 1
  MaxErrors = 1
  MaxFires = 1
  MaxIntents = 0
PROPERTIES
  LeaveEnds
  MembershipIsRegained
\* the user may have left, with no join to come
CHECK_DEADLOCK FALSE
