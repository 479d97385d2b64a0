--------------------------- MODULE MCCommandPlane ---------------------------
(* Instances of CommandPlane for TLC.                                       *)
EXTENDS CommandPlane, TLC

CONSTANTS d1, d2, c1, c2

NoSkew == [d \in Devices |-> 0]
(* d2's clock runs ahead, so a steer issued later may carry an earlier time. *)
Skewed == [d \in Devices |-> IF d = d2 THEN 1 ELSE 0]
Symmetry == Permutations(Commands)
=============================================================================
