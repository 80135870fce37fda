------------------------- MODULE MCStreamAllocation -------------------------
(* Small instances of StreamAllocation for TLC.                             *)
EXTENDS StreamAllocation, TLC

CONSTANTS o1, o2, s1, s2, e1, e2, c1, c2

Alike == Permutations({o1, o2}) \cup Permutations({s1, s2}) \cup Permutations({e1, e2})
         \cup Permutations({c1, c2})
=============================================================================
