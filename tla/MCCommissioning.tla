--------------------------- MODULE MCCommissioning ---------------------------
(* Small instances of Commissioning for TLC.                                *)
EXTENDS Commissioning, TLC

CONSTANTS o1, o2, k1, k2

Alike == Permutations(Ops) \cup Permutations(Tasks)
=============================================================================
