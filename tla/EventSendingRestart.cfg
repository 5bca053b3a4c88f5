SPECIFICATION Spec
CONSTANTS
  e1 = e1 e2 = e2 e3 = e3 r1 = r1 r2 = r2
  NoEvent = NoEvent
  Events = {e1, e2, e3}
  RoomOf <- MCTwoRooms
  EncryptedRooms = {r1}
  Queueable = {e1, e2}
  NeverEncrypted = {}
  Target <- MCTarget
  EchoTxn <- OnlyTrue
  RetryLimit = 1
  MaxErrors = 1
  MaxRestarts = 1
INVARIANTS
  OnlyHeadIsSent
  CancelledIsWithdrawn
  PendingIsStored
\* all events may be sent and answered: nothing is left to do
CHECK_DEADLOCK FALSE
