----------------------------- MODULE MCFailover -----------------------------
(* Failover with three kinds of pods on one node: one that can be moved, one *)
(* without a backup IP and one without the readiness gate.                   *)
EXTENDS Failover

CONSTANTS n1, moved, stuck, bare, s1

OneHost == [p \in Pods |-> n1]
AllListed == [p \in Pods |-> {s1}]
=============================================================================
