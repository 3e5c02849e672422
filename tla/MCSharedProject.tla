---------------------------- MODULE MCSharedProject ----------------------------
(* SharedProject with two commands at a time and one managed file, for TLC. *)
EXTENDS SharedProject, TLC

CONSTANTS p1, p2, v1, v2, mine

Symmetry == Permutations({p1, p2}) \cup Permutations({v1, v2})
===============================================================================
