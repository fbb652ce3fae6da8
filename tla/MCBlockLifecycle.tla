-------------------------- MODULE MCBlockLifecycle --------------------------
(* BlockLifecycle with two or three nodes. *)
EXTENDS BlockLifecycle, TLC

CONSTANTS n1, n2, n3, none

NodeSymmetry == Permutations(Nodes)
=============================================================================
