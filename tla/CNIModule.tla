------------------------------ MODULE CNIModule ------------------------------
(***************************************************************************)
(* The cni module (operator/internal/controller/cni): it restarts          *)
(* calico-node pods that are not ready, enables IP pools again that are    *)
(* disabled while pods wait for an address, and evicts pods whose sandbox  *)
(* cannot be set up, at most once in a cooldown for each workload.         *)
(*                                                                         *)
(* Time is counted in rounds.  A workload never evicted, and one whose     *)
(* record was pruned, count as out of their cooldown.                      *)
(*                                                                         *)
(* There is one IP pool with one block, and whoever waits for an address   *)
(* gets it from there.  A pod of no controller, which has a workload of    *)
(* its own, does not come back when it is evicted.                         *)
(***************************************************************************)
EXTENDS RemediationRound

CONSTANTS
  Pods, Workloads,
  WorkloadOf,          \* WorkloadOf[p]: getWorkloadKey
  Bare,                \* pods without a controller that would replace them
  EvictionCooldown     \* evictionCooldown, in rounds

ASSUME WorkloadsAssumption ==
  WorkloadOf \in [Pods -> Workloads] /\ Bare \subseteq Pods /\ EvictionCooldown \in Nat

VARIABLES
  pool,      \* the IPPool: enabled or disabled
  exhausted, \* an IPAMBlock has no address left
  pods,      \* pods[p]: running, waiting, stuck without address or sandbox, or gone
  target,    \* pendingTarget, less what Remediate has done of it
  lastErr,
  lastWorkloadEviction    \* rounds since then, up to the cooldown

workloads == <<pool, exhausted, pods>>
cniMemory == <<target, lastErr, lastWorkloadEviction>>
cniVars == <<workloads, cniMemory>>

NoTarget == [action |-> "none", agents |-> {}, pods |-> {}]
Target(action, agents, evicted) ==
  [action |-> action, agents |-> agents, pods |-> evicted]

NeverEvicted == [w \in Workloads |-> EvictionCooldown]

CNIInit ==
  /\ pool = "enabled" /\ exhausted = FALSE
  /\ pods = [p \in Pods |-> "running"]
  /\ target = NoTarget /\ lastErr = FALSE
  /\ lastWorkloadEviction = NeverEvicted

Ages(age) == [w \in Workloads |-> IF age[w] < EvictionCooldown THEN age[w] + 1 ELSE age[w]]

-----------------------------------------------------------------------------
(* The cluster *)

\* A pod without sandbox stays stuck until it is evicted, one without address
\* only until there is one again.
Stuck == {p \in Pods : pods[p] \in {"addressless", "sandboxless"}}

PoolDisabled ==
  /\ Spend("workloads") /\ pool = "enabled" /\ pool' = "disabled"
  /\ UNCHANGED <<exhausted, pods, cniMemory>>

BlockFills ==
  /\ Spend("workloads") /\ ~exhausted /\ exhausted' = TRUE
  /\ UNCHANGED <<pool, pods, cniMemory>>

BlockFrees ==
  /\ exhausted /\ exhausted' = FALSE
  /\ UNCHANGED <<pool, pods, cniMemory, left>>

PodBecomes(p, state) ==
  /\ pods' = [pods EXCEPT ![p] = state]
  /\ UNCHANGED <<pool, exhausted, cniMemory>>

PodReplaced(p) == Spend("workloads") /\ pods[p] = "running" /\ PodBecomes(p, "waiting")
SandboxFails(p) == Spend("workloads") /\ pods[p] = "waiting" /\ PodBecomes(p, "sandboxless")

AddressesLeft == pool = "enabled" /\ ~exhausted

PodStarts(p) ==
  /\ pods[p] \in {"waiting", "addressless"} /\ AddressesLeft
  /\ PodBecomes(p, "running") /\ UNCHANGED left

PodGetsStuck(p) ==
  /\ pods[p] = "waiting" /\ ~AddressesLeft
  /\ PodBecomes(p, "addressless") /\ UNCHANGED left

-----------------------------------------------------------------------------
(* Check and Evaluate *)

\* checkCalicoDaemonSet: a node without pod is not listed.
Unready == {n \in Nodes : agent[n] \in {"starting", "failing"}}

\* Stuck pods whose workload is not in its cooldown.
Actionable(stuck) ==
  {p \in stuck : lastWorkloadEviction[WorkloadOf[p]] >= EvictionCooldown}

\* As Choice, but a pool is enabled when nobody waits for its addresses.
ChoiceReenablingIdlePools(stuck, disabled) ==
  IF Unready # {} THEN Target("restart", Unready, {})
  ELSE IF disabled /\ stuck = {} THEN Target("reenable", {}, stuck)
  ELSE IF Actionable(stuck) # {} THEN Target("evict", {}, Actionable(stuck))
  ELSE NoTarget

Choice(stuck, disabled) ==
  IF Unready # {} THEN Target("restart", Unready, {})
  ELSE IF disabled /\ stuck # {} THEN Target("reenable", {}, stuck)
  ELSE IF Actionable(stuck) # {} THEN Target("evict", {}, Actionable(stuck))
  ELSE NoTarget

CNIEvaluate(stuck, disabled, full) ==
  /\ target' = Choice(stuck, disabled)
  /\ IF target' # NoTarget THEN NeedsRemediation("cni")
     ELSE IF stuck # {} \/ full THEN Unhealthy("cni")
     ELSE Healthy("cni")
  /\ UNCHANGED <<agent, workloads, lastErr, lastWorkloadEviction>>

CNICheck ==
  /\ Checking("cni")
  /\ CNIEvaluate(Stuck, pool = "disabled", exhausted)
  /\ UNCHANGED left

\* The pods or events, the pools, or the blocks cannot be listed: the check goes
\* on without stuck pods, without disabled pools, or without both pools and blocks.
CNICheckBlind(what) ==
  /\ Checking("cni") /\ Refused
  /\ CNIEvaluate(IF what = "pods" THEN {} ELSE Stuck,
                 what = "pods" /\ pool = "disabled",
                 what # "blocks" /\ exhausted)

-----------------------------------------------------------------------------
(* Remediate *)

\* remediateRestartCalicoNode looks for the pods in kube-system, wherever Check has
\* found them.
RestartAgent(n) ==
  /\ Acting("cni") /\ n \in target.agents
  /\ IF InKubeSystem THEN DeleteAgent(n) /\ UNCHANGED lastErr
                     ELSE lastErr' = TRUE /\ UNCHANGED agent
  /\ target' = [target EXCEPT !.agents = @ \ {n}]
  /\ UNCHANGED <<round, left, workloads, lastWorkloadEviction>>

\* remediateReenableIPPool, which then evicts the pods that wait.
ReenablePool ==
  /\ Acting("cni") /\ target.action = "reenable"
  /\ pool' = "enabled"
  /\ target' = [target EXCEPT !.action = "release"]
  /\ UNCHANGED <<round, agent, left, exhausted, pods, lastErr, lastWorkloadEviction>>

\* Only remediateEvictStuckPods records the eviction.
EvictPod(p) ==
  /\ Acting("cni") /\ target.action \in {"release", "evict"} /\ p \in target.pods
  /\ pods' = [pods EXCEPT ![p] = IF p \in Bare THEN "gone" ELSE "waiting"]
  /\ target' = [target EXCEPT !.pods = @ \ {p}]
  /\ lastWorkloadEviction' =
       IF target.action = "evict" THEN [lastWorkloadEviction EXCEPT ![WorkloadOf[p]] = 0]
                                  ELSE lastWorkloadEviction
  /\ UNCHANGED <<round, agent, left, pool, exhausted, lastErr>>

\* A call fails and the next one is made.  A pool that cannot be read is passed over.
CallFails(passedOver) ==
  /\ Acting("cni") /\ Refused
  /\ lastErr' = (lastErr \/ ~passedOver)
  /\ \/ ~passedOver /\ \E n \in target.agents : target' = [target EXCEPT !.agents = @ \ {n}]
     \/ target.action = "reenable" /\ target' = [target EXCEPT !.action = "release"]
     \/ /\ ~passedOver /\ target.action # "reenable"
        /\ \E p \in target.pods : target' = [target EXCEPT !.pods = @ \ {p}]
  /\ UNCHANGED <<round, agent, workloads, lastWorkloadEviction>>

\* As CNIRemediated, but the error is remembered.
CNIRemediatedKeepingErr ==
  /\ Acting("cni") /\ target.action # "reenable"
  /\ target.agents = {} /\ target.pods = {}
  /\ target' = NoTarget
  /\ Ends("cni", ~lastErr)
  /\ UNCHANGED <<agent, left, workloads, lastErr, lastWorkloadEviction>>

CNIRemediated ==
  /\ Acting("cni") /\ target.action # "reenable"
  /\ target.agents = {} /\ target.pods = {}
  /\ target' = NoTarget /\ lastErr' = FALSE
  /\ Ends("cni", ~lastErr)
  /\ UNCHANGED <<agent, left, workloads, lastWorkloadEviction>>

CNIStep ==
  \/ CNICheck \/ \E what \in {"pods", "pools", "blocks"} : CNICheckBlind(what)
  \/ \E n \in Nodes : RestartAgent(n)
  \/ ReenablePool
  \/ \E p \in Pods : EvictPod(p)
  \/ \E passedOver \in BOOLEAN : CallFails(passedOver)
  \/ CNIRemediated

Workload ==
  \/ PoolDisabled \/ BlockFills \/ BlockFrees
  \/ \E p \in Pods : PodReplaced(p) \/ SandboxFails(p) \/ PodStarts(p) \/ PodGetsStuck(p)
=============================================================================
