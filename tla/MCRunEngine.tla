---------------------------- MODULE MCRunEngine ----------------------------
(* Instances of RunEngine for TLC.                                          *)
EXTENDS RunEngine, TLC

CONSTANTS executor, rpc, p1, p2, r1, r2, r3

Symmetry == Permutations(Callers) \cup Permutations(Prompts) \cup Permutations(Runs)
=============================================================================
