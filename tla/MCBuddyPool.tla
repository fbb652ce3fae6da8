----------------------------- MODULE MCBuddyPool -----------------------------
(* BuddyPool over two CIDRs of two units each and one that overlaps the first. *)
EXTENDS BuddyPool, TLC

CONSTANTS n1, n2, none

NodeSymmetry == Permutations(Nodes)

TestCIDRs == {<<0>>, <<1>>, <<0, 1>>}
=============================================================================
