--------------------------- MODULE MCEventSending ---------------------------
(* EventSending with three events, the last in a room of its own, the      *)
(* second a relation to the first.                                         *)
EXTENDS EventSending

CONSTANTS e1, e2, e3, r1, r2

MCTwoRooms == [e \in Events |-> IF e = e3 THEN r2 ELSE r1]
MCTarget   == [e \in Events |-> IF e = e2 THEN e1 ELSE NoEvent]

AllBoolean == {TRUE, FALSE}
OnlyTrue   == {TRUE}
=============================================================================
