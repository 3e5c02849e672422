-------------------------- MODULE MCCapsuleRelease --------------------------
(* CapsuleRelease over two commands and two source versions, for TLC. *)
EXTENDS CapsuleRelease, TLC

CONSTANTS p1, p2, v1, v2

Symmetry == Permutations(Procs)
===============================================================================
