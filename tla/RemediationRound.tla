-------------------------- MODULE RemediationRound --------------------------
(***************************************************************************)
(* What the modules of the network remediation operator share              *)
(* (operator/internal/controller/networkremediation_controller.go): the    *)
(* place in the round that takes each module through Check, Evaluate and   *)
(* Remediate, what a module reports to the dispatcher, and the calico-node *)
(* pods, which two modules watch and restart.                              *)
(*                                                                         *)
(* A module's Check and Evaluate are one step.  Its Remediate takes one    *)
(* step for every call that changes the cluster, so that what was checked  *)
(* may have changed when it is acted upon.  The pod connectivity module,   *)
(* which runs last, is modelled alone in PodConnectivity.                  *)
(***************************************************************************)
EXTENDS Integers, FiniteSets

CONSTANTS
  Nodes,
  InKubeSystem, \* spec.CNI.CalicoNamespace is kube-system, as it is by default
  Limits     \* bounds: how much may go wrong, one record for each mix to explore

VARIABLES
  pc,        \* the module whose turn it is, and whether it checks or acts
  unhealthy, \* modules that were not healthy in this round
  phase,     \* Status.Phase
  agent,     \* agent[n]: the calico-node pod of node n
  left       \* how much of each kind of trouble may still happen

round == <<pc, unhealthy, phase>>

Troubles == {"agents", "workloads", "dns", "refusals", "restarts", "edits"}
ASSUME NamespaceAssumption == InKubeSystem \in BOOLEAN
ASSUME LimitsAssumption == Limits \subseteq [Troubles -> Nat]

Modules == {"cni", "coredns", "networkpolicy"}
Idle == <<"dispatcher", "idle">>
Checking(m) == pc = <<m, "check">>
Acting(m) == pc = <<m, "act">>

\* Modules run in the order in which main registers them.
Successor(m) == [cni           |-> <<"coredns", "check">>,
                 coredns       |-> <<"networkpolicy", "check">>,
                 networkpolicy |-> <<"dispatcher", "status">>][m]

Spend(kind) == left[kind] > 0 /\ left' = [left EXCEPT ![kind] = @ - 1]

\* A call to the API server fails.
Refused == Spend("refusals")

\* What reconcileModule makes of a module's results.
Healthy(m) == pc' = Successor(m) /\ UNCHANGED <<unhealthy, phase>>
Unhealthy(m) ==
  pc' = Successor(m) /\ unhealthy' = unhealthy \cup {m} /\ UNCHANGED phase
NeedsRemediation(m) == pc' = <<m, "act">> /\ UNCHANGED <<unhealthy, phase>>
Ends(m, success) == IF success THEN Healthy(m) ELSE Unhealthy(m)

-----------------------------------------------------------------------------
(* The calico-node pods: deleted, starting, ready, ready after many restarts *)
(* of its container, or no longer ready.                                     *)

AgentPhases == {"absent", "starting", "ready", "worn", "failing"}

AgentFails(n, how) ==
  /\ Spend("agents") /\ agent[n] \in {"ready", "worn"}
  /\ agent' = [agent EXCEPT ![n] = how]
  /\ UNCHANGED round

\* The DaemonSet controller replaces a deleted pod, which then becomes ready.
AgentCreated(n) ==
  /\ agent[n] = "absent"
  /\ agent' = [agent EXCEPT ![n] = "starting"]
  /\ UNCHANGED <<round, left>>

AgentReady(n) ==
  /\ agent[n] = "starting"
  /\ agent' = [agent EXCEPT ![n] = "ready"]
  /\ UNCHANGED <<round, left>>

DeleteAgent(n) == agent' = [agent EXCEPT ![n] = "absent"]
=============================================================================
