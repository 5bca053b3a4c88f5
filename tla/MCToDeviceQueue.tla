-------------------------- MODULE MCToDeviceQueue --------------------------
(* ToDeviceQueue with two calls of queueBatch, one of them split.          *)
EXTENDS ToDeviceQueue

CONSTANTS c1, c2, b1, b2, b3

MCParts == c1 :> <<b1, b2>> @@ c2 :> <<b3>>
=============================================================================
