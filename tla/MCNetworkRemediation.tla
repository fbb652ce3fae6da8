------------------------ MODULE MCNetworkRemediation ------------------------
(* The dispatcher and its modules with two calico-node pods, two CoreDNS pods *)
(* and three workload pods, two of one owner and one of none, for troubles of *)
(* one component after the other and of two at once.                          *)
EXTENDS NetworkRemediation

Mix(agents, workload, coredns, refusals, restarts, edits) ==
  [agents |-> agents, workloads |-> workload, dns |-> coredns,
   refusals |-> refusals, restarts |-> restarts, edits |-> edits]

Mixes == {Mix(2, 0, 0, 1, 0, 0), Mix(0, 3, 0, 1, 0, 0), Mix(0, 0, 3, 1, 0, 1),
          Mix(1, 2, 0, 0, 1, 0), Mix(1, 0, 1, 1, 1, 0)}

OwnerOf == [p \in Pods |-> IF p = 3 THEN 2 ELSE 1]
=============================================================================
