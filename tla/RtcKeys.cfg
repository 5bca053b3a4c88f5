SPECIFICATION FairKeysSpec
CONSTANTS
    Me = me
    Others = {a, b}
    Drivers = {TRUE, FALSE}
    MaxChanges = 3
    MaxAges = 1
    MaxReceived = 2
INVARIANTS
    LeaverCannotHear
    MembersGetKey
    KeysReachMedia
PROPERTY RoundsEnd
CHECK_DEADLOCK FALSE
