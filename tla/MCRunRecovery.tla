--------------------------- MODULE MCRunRecovery ---------------------------
(* Instances of RunRecovery for TLC: its constants are numbers and a        *)
(* BOOLEAN, which each configuration gives.                                 *)
EXTENDS RunRecovery, TLC
=============================================================================
