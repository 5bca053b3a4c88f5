--------------------------- MODULE MCRtcMembership ---------------------------
(* RtcMembership with the bounds of the configuration.                     *)
EXTENDS RtcMembership
=============================================================================
