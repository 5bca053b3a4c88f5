-------------------------- MODULE MCRoomEncryption --------------------------
(* RoomEncryption with the rooms, users and encryptions of the configuration. *)
EXTENDS RoomEncryption, TLC

CONSTANTS u1, f1, A, a1, a2

OneRoom == (a1 :> A) @@ (a2 :> A)
=============================================================================
