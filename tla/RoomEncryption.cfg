SPECIFICATION FairSpec
CONSTANTS
  u1 = u1 f1 = f1 A = A a1 = a1 a2 = a2
  Requests = {u1, f1}
  Calls = {a1, a2}
  FollowUps = {f1}
  Rooms = {A}
  Users = {u1}
  RoomOf <- OneRoom
  Preparations = {}
  FirstMembers = {u1}
  MaxSyncs = 1
INVARIANTS
  TriedWhenResolved
  NobodyIsForgotten
  QueriedBeforeSessions
PROPERTIES
  KeyPrecedesEvent
  LeftCannotRead
  EncryptionEnds
  FollowUpsAreMade
  LoopRests
\* all encryptions may be settled
CHECK_DEADLOCK FALSE
