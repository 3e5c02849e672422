------------------------------ MODULE MCQuickstart ------------------------------
(* Quickstart with two runtimes and two key variables, for TLC. *)
EXTENDS Quickstart

CONSTANTS podman, docker

MCProbeRank == [r \in Runtimes |-> IF r = podman THEN 1 ELSE 2]
===============================================================================
