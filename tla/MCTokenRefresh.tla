--------------------------- MODULE MCTokenRefresh ---------------------------
(* TokenRefresh with the requests r1, r2, ... of the configuration.        *)
EXTENDS TokenRefresh

CONSTANTS r1, r2, r3
=============================================================================
