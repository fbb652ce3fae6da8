------------------------- MODULE MCPodConnectivity -------------------------
(* The pod connectivity module on a ring of three nodes: two faults one after *)
(* the other, or one fault or a lost canary around a restart of the operator. *)
EXTENDS PodConnectivity

Mix(faults, losses, crashes) ==
  [faults |-> faults, losses |-> losses, crashes |-> crashes]

Mixes == {Mix(2, 0, 0), Mix(1, 0, 1), Mix(0, 1, 1)}
=============================================================================
