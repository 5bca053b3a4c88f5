SPECIFICATION KeysSpec
CONSTANTS
    Me = me
    Others = {a, b}
    Drivers = {TRUE, FALSE}
    MaxChanges = 3
    MaxAges = 1
    MaxReceived = 2
INVARIANT MembershipsAreCurrent
CHECK_DEADLOCK FALSE
