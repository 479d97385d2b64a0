----------------------------- MODULE MCWarmDocs -----------------------------
(* Instances of WarmDocs for TLC.                                           *)
EXTENDS WarmDocs

CONSTANTS a, b, c1, c2, p1, p2

(* Every property but the liveness one speaks of chats that are not raced,  *)
(* and no chat stops being one.                                             *)
Unraced == raced = {}

ChatOfCommand == [c \in Commands |-> a]
=============================================================================
