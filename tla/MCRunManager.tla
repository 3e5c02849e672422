----------------------------- MODULE MCRunManager -----------------------------
(* Model values and symmetry for checking RunManager with TLC. *)
EXTENDS RunManager, TLC

CONSTANTS r1, r2, o1, o2

\* Runs and observers are interchangeable: only equality distinguishes them.
Symmetry == Permutations(Runs) \cup Permutations(Observers)
===============================================================================
