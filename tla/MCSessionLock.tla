--------------------------- MODULE MCSessionLock ---------------------------
(* SessionLock with the tabs t1, t2, ... of the configuration.             *)
EXTENDS SessionLock

CONSTANTS t1, t2, t3, t4
=============================================================================
