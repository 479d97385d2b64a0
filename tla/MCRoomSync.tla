----------------------------- MODULE MCRoomSync -----------------------------
(* Instances of RoomSync for TLC.                                           *)
EXTENDS RoomSync

CONSTANTS a, b
=============================================================================
