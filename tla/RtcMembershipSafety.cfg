SPECIFICATION Spec
CONSTANTS
  MaxJoins = 2
  Servers = {TRUE, FALSE}
  CancelsOnState = FALSE
  MaxRetries = 1
  MaxErrors = 0
  MaxFires = 0
  MaxIntents = 1
INVARIANTS
  MembershipIsKept
  LeaveIsSent
  OnlyOwnDelayedLeave
\* the user may have left, with no join to come
CHECK_DEADLOCK FALSE
