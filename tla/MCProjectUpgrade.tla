--------------------------- MODULE MCProjectUpgrade ---------------------------
(* ProjectUpgrade over two files, for TLC. *)
EXTENDS ProjectUpgrade, TLC

CONSTANTS f1, f2, a, b, c

Symmetry == Permutations({f1, f2}) \cup Permutations({a, b, c})
===============================================================================
