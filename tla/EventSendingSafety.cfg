SPECIFICATION FairSpec
CONSTANTS
  e1 = e1 e2 = e2 e3 = e3 r1 = r1 r2 = r2
  NoEvent = NoEvent
  Events = {e1, e2, e3}
  RoomOf <- MCTwoRooms
  EncryptedRooms = {r1}
  Queueable = {e1, e2, e3}
  NeverEncrypted = {e2}
  Target <- MCTarget
  EchoTxn <- AllBoolean
  RetryLimit = 1
  MaxErrors = 2
  MaxRestarts = 0
INVARIANTS
  NoOrphan
  QueueIsServed
  ShownOnce
  QueuedRelationResolved
PROPERTIES
  SendEnds
  AcceptedIsShown
\* all events may be sent and answered: nothing is left to do
CHECK_DEADLOCK FALSE
