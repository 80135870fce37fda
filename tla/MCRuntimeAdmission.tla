------------------------- MODULE MCRuntimeAdmission -------------------------
(* Small instances of RuntimeAdmission for TLC.                             *)
EXTENDS RuntimeAdmission, TLC

CONSTANTS t1, t2, n1, n2, g1, g2

Alike == Permutations({t1, t2}) \cup Permutations({n1, n2}) \cup Permutations({g1, g2})

GatedOperations == {"node", "exclusive", "close"}
=============================================================================
