------------------------- MODULE NetworkRemediation -------------------------
(***************************************************************************)
(* The dispatcher of the network remediation operator                      *)
(* (operator/internal/controller/networkremediation_controller.go) and the *)
(* three modules it takes through every round: cni, coredns and            *)
(* networkpolicy.  The next round begins a requeue interval after the last *)
(* one, or at once when the spec is edited or the status cannot be written.*)
(* All memory of the operator is lost when it restarts.                    *)
(***************************************************************************)
EXTENDS CNIModule, CoreDNSModule, NetworkPolicyModule

vars == <<round, agent, left, cniVars, dnsVars, npVars>>

Init ==
  /\ pc = Idle /\ unhealthy = {} /\ phase = "Running"
  /\ agent = [n \in Nodes |-> "ready"]
  /\ left \in Limits
  /\ CNIInit /\ DNSInit /\ NPInit

-----------------------------------------------------------------------------
(* Reconcile *)

\* As Begins, but what was unhealthy in the last round still counts.
BeginsRemembering == /\ pc' = <<"cni", "check">>
                     /\ UNCHANGED <<unhealthy, phase>>

Begins == /\ pc' = <<"cni", "check">>
          /\ unhealthy' = {} /\ UNCHANGED phase

Older(age, limit) == IF age < limit THEN age + 1 ELSE age

\* RequeueAfter has passed.
RequeueAfter ==
  /\ pc = Idle /\ Begins
  /\ lastWorkloadEviction' = Ages(lastWorkloadEviction)
  /\ lastRemediatedAt' = Older(lastRemediatedAt, DNSCooldown)
  /\ lastFelixRestart' = Older(lastFelixRestart, FelixCooldown)
  /\ UNCHANGED <<agent, left, workloads, target, lastErr, deployment, fix, unhealthyFelixPods>>

SpecEdited ==
  /\ pc = Idle /\ Spend("edits") /\ Begins
  /\ UNCHANGED <<agent, cniVars, dnsVars, npVars>>

\* The DaemonSet, the Deployment or the calico-node pods cannot be read.
CheckFails(m) ==
  /\ Checking(m) /\ Refused /\ Unhealthy(m)
  /\ UNCHANGED <<agent, cniVars, dnsVars, npVars>>

UpdateStatus ==
  /\ pc = <<"dispatcher", "status">> /\ pc' = Idle
  /\ phase' = IF unhealthy = {} THEN "Running" ELSE "Degraded"
  /\ UNCHANGED <<unhealthy, agent, left, cniVars, dnsVars, npVars>>

StatusConflict ==
  /\ pc = <<"dispatcher", "status">> /\ Refused /\ Begins
  /\ UNCHANGED <<agent, cniVars, dnsVars, npVars>>

OperatorRestarts ==
  /\ Spend("restarts")
  /\ pc' = Idle /\ unhealthy' = {} /\ UNCHANGED phase
  /\ target' = NoTarget /\ lastErr' = FALSE
  /\ lastWorkloadEviction' = NeverEvicted
  /\ fix' = "none" /\ lastRemediatedAt' = DNSCooldown
  /\ unhealthyFelixPods' = {} /\ lastFelixRestart' = FelixCooldown
  /\ UNCHANGED <<agent, workloads, deployment>>

Reconcile ==
  \/ RequeueAfter \/ SpecEdited
  \/ \E m \in Modules : CheckFails(m)
  \/ UpdateStatus \/ StatusConflict
  \/ CNIStep /\ UNCHANGED <<dnsVars, npVars>>
  \/ DNSStep /\ UNCHANGED <<cniVars, npVars>>
  \/ NPStep /\ UNCHANGED <<cniVars, dnsVars>>

Agents ==
  /\ \E n \in Nodes : \/ \E how \in {"failing", "worn"} : AgentFails(n, how)
                      \/ AgentCreated(n) \/ AgentReady(n)
  /\ UNCHANGED <<cniVars, dnsVars, npVars>>

Next ==
  \/ Reconcile \/ OperatorRestarts \/ Agents
  \/ Workload /\ UNCHANGED <<round, agent, dnsVars, npVars>>
  \/ DNSDeployment /\ UNCHANGED <<round, agent, cniVars, npVars>>

Spec == Init /\ [][Next]_vars

\* Rounds go on; the kubelet and the controllers of Kubernetes do their part.  A pod
\* that is deleted again and again need never become ready.
PodsProgress ==
  /\ \E p \in Pods : PodStarts(p) \/ PodGetsStuck(p)
  /\ UNCHANGED <<round, agent, dnsVars, npVars>>

DNSProgress ==
  /\ \E r \in Replicas : DNSPodStarts(r) \/ RolloutReplaces(r)
  /\ UNCHANGED <<round, agent, cniVars, npVars>>

AgentsProgress(n) ==
  (AgentCreated(n) \/ AgentReady(n)) /\ UNCHANGED <<cniVars, dnsVars, npVars>>

Fairness ==
  /\ WF_vars(Reconcile) /\ WF_vars(PodsProgress) /\ WF_vars(DNSProgress)
  /\ \A n \in Nodes : WF_vars(AgentsProgress(n))

FairSpec == Spec /\ Fairness

-----------------------------------------------------------------------------
(* Properties *)

Places == {Idle, <<"dispatcher", "status">>} \cup Modules \X {"check", "act"}

\* A module holds what it decided to do only while it remediates, and no cooldown
\* counts past its end.
TypeOK ==
  /\ pc \in Places /\ unhealthy \subseteq Modules /\ phase \in {"Running", "Degraded"}
  /\ agent \in [Nodes -> AgentPhases] /\ left \in [Troubles -> Nat]
  /\ pool \in {"enabled", "disabled"} /\ exhausted \in BOOLEAN
  /\ pods \in [Pods -> {"running", "waiting", "addressless", "sandboxless", "gone"}]
  /\ target.agents \subseteq Nodes /\ target.pods \subseteq Pods
  /\ target.action \in {"none", "restart", "reenable", "release", "evict"}
  /\ target # NoTarget => Acting("cni")
  /\ lastErr => Acting("cni")
  /\ lastWorkloadEviction \in [Workloads -> 0..EvictionCooldown]
  /\ {scaled, throttled, unapplied} \subseteq BOOLEAN /\ corefile \in Upstreams
  /\ dns \in [Replicas -> DNSPhases] /\ outdated \subseteq Replicas
  /\ fix \in {"none", "scale", "repair", "reload", "restore", "restart"}
  /\ fix # "none" <=> Acting("coredns")
  /\ lastRemediatedAt \in 0..DNSCooldown
  /\ unhealthyFelixPods \subseteq Nodes
  /\ unhealthyFelixPods # {} => Acting("networkpolicy")
  /\ lastFelixRestart \in 0..FelixCooldown

\* No calico-node pod is left failing, or worn by restarts of its container: neither
\* refused calls, the cooldown of one of the two modules that restart it, the other's
\* restarts nor a lost memory keep the operator from deleting it at last.
BadAgentsAreRestarted ==
  \A n \in Nodes : agent[n] \in {"failing", "worn"} ~> agent[n] = "absent"

\* In the end no calico-node pod is found not ready: the cni module gets past them.
AgentsSettle == <>[](Unready = {})

\* If addresses do not run out for good and the calico-node pods settle, then in the
\* end all pods run, but for those of no controller that were evicted: neither the
\* cooldown of a workload, the order in which Evaluate tries pools and pods, failing
\* calls nor a lost memory leaves a pod stuck or a pool disabled with pods waiting.
PodsGetAddresses ==
  AgentsSettle /\ <>[]~exhausted =>
    <>[](\A p \in Pods : pods[p] = "running" \/ (p \in Bare /\ pods[p] = "gone"))

\* Scaling comes first in Evaluate, and does nothing for pods that all crash.
SomePodServes == [](Serving = {} => ~Crashing)

\* CoreDNS is restored from any mix of its faults, though a round handles one of
\* them at most and a round in the cooldown none, as long as the check knows the bad
\* upstream for one.  Every pod then resolves by a good upstream, but for those that
\* kept the old Corefile when the rollout after its repair failed, unnoticed.
DNSIsRestored ==
  SomePodServes /\ <>[](corefile # "unlisted") =>
    <>[](/\ scaled /\ corefile = "good" /\ ~throttled
         /\ \A r \in Replicas : dns[r] = "good" \/ (unapplied /\ dns[r] = "unreachable"))

\* When everything is restored the status says so, and keeps saying so.
StatusSettles ==
  SomePodServes /\ AgentsSettle /\ <>[]~exhausted => <>[](phase = "Running")
=============================================================================
