# A TLA+ verification of the network-remediation operator

The repository holds a Kubernetes operator (Go, `src/operator`) that keeps a
cluster's pod network working. Its largest part is an IP address manager that
gives every node blocks of a shared pool, grows and shrinks them with demand,
and lets per-node agents install routes and CNI configurations. Beside it run
controllers that detect and repair failures of the CNI plugin, of CoreDNS, of
network policies and of pod connectivity.

This directory holds TLA+ modules that model the parts whose correctness depends
on ordering, timing or intricate data structures, TLC configurations that check
them on small instances, and TLAPS proofs of the properties that matter most for
every size of the instance.

## 1. The system

| Part | State | Operations | Hard part |
|---|---|---|---|
| Buddy allocator (`ipam/buddy/allocator.go`) | a binary tree of blocks, a free index, a quarantine index | Allocate, AllocateSpread, AllocatePrefix, AllocateBuddyOf, AllocateFromBuddy, Reserve, Free, FreeNow, Sweep, Defragment | long call sequences; three views of one tree that must agree; merging; quarantine against a clock |
| Pool (`ipam/buddy/pool.go`) | one allocator per CIDR, in order | the same, over all CIDRs, and AllocateDemand, which may return several blocks | rollback of a partial success, rounding, fragmentation |
| Prefix arithmetic (`ipam/buddy/aggregate.go`, `halves.go`) | none | merging CIDRs into ranges, halves of a CIDR | boundaries |
| Planner and sizing (`ipam/plan.go`, `sizing.go`) | none: it rebuilds a pool from the NodeBlock objects on every call | decides what to create, drain, undrain, release, split, quarantine and delete | decisions on stale lists |
| IPAM controller (`ipam/ipam_controller.go`) | the IPPool status; NodeBlock objects in the API server | Reconcile: read, plan, create, apply | crash between writes, conflicts, stale cache |
| IPAM agent (`ipam/agent`) | routes, CNI config and leases on the node; release marks in memory | Sync: list, routes, acknowledge, config, lease count, status | its pass interleaves with the controller, the other agents and the kubelet |
| CNI resilience (`cniresilience`, `failover`, `recovery`, `healthagent`) | node annotations, taints, readiness gates, shadow EndpointSlices, probe streaks | detect, isolate, fail over, recover, fail back | crash between steps, background recovery racing a reconcile |
| Pod connectivity (`podconnectivity`) | a streak of failures, the latest decision, restart counts, all in memory | probe the nodes and the ring, triangulate, restart, isolate or drain | one fault shows in many probes; escalation over rounds, lost canaries and restarts of the operator |
| CNI, CoreDNS and network policy modules (`cni`, `coredns`, `networkpolicy`) | what the last check found and when each last repaired, in memory | Check, Evaluate, Remediate | two of them restart the same pods; the order of the remedies, cooldowns, failing calls |
| Module dispatcher (`networkremediation_controller.go`) | the status of the CR | takes every module through a round | what counts as healthy; requeue |
| Monitor, simulator, commands, API types, visualizer | - | metrics, offline evaluation, wiring | not modelled |

How they interact. The controller and the agents communicate only through
NodeBlock objects. The controller writes `spec` (owner, CIDR, drain, release) and
creates and deletes objects; the owner's agent moves `status.phase` through
Pending, Active, Draining and Quarantined; every other agent adds itself to
`status.routesAckedBy` once it has a route. On the node the agent and the kubelet
communicate through the CNI config file, which each new sandbox reads, and through
the lease files, which the agent counts. The planner uses the pool and the
allocator as a library inside one reconcile.

In CNI resilience, a health agent on every node probes its peers and writes what it
saw into an annotation of its own Node; the operator reads all annotations once per
reconcile, classifies them, and acts on what they prove: shadow EndpointSlices and
readiness gates move or stop the traffic to a node's pods, a taint marks the fault
episode, and a goroutine restarts the CNI agent.

The dispatcher runs the cni, coredns, networkpolicy and podconnectivity modules one
after the other, each through Check, Evaluate and, if needed, Remediate. The modules
share no memory, but they act on the same cluster: cni and networkpolicy delete
calico-node pods, and podconnectivity deletes the pod of the node it blames.

What must hold:

* allocator: no address is lost or handed out twice, freed space is always found
  again, a quarantine is respected, a node grows beside its own range;
* pool: a demand is met exactly or the space is really missing; on failure nothing
  stays allocated;
* block lifecycle: pods never have addresses that other nodes cannot reach, a block
  is never given to another node while a pod still uses it, and every drain, every
  half that is asked for and every new block reaches its end;
* resilience controllers: a node is never left half failed over, repairs are not
  repeated for ever, and a healthy node is not isolated;
* modules: repairs do not undo each other for ever, no remedy starves another, and
  the status settles on what is the case.

## 2. The modules

| Module | Models | Built on |
|---|---|---|
| `BuddyTree` | the tree and the locked helpers of `allocator.go`, as operators on a record | |
| `BuddyCalls` | what the callers of an allocator and of a pool pass to it, and the clock | `BuddyTree` |
| `BuddyAllocator` | one allocator: one action per exported method, and time | `BuddyCalls` |
| `AddressSpace` | the abstract promise of an allocator, address by address | |
| `BuddyPool` | the pool: one action per method | `BuddyCalls` |
| `BlockLifecycle` | one NodeBlock among the controller, the agents, the kubelet and the nodes | |
| `BlockSplit` | giving back half of a block: the controller's requests and its split, the owner's agent, sandboxes | |
| `HealthAgents` | the agents' ring, streaks and reports, and what the operator concludes from them | |
| `Failover` | the CNI resilience controller: one reconcile, write by write, with failover, failback, isolation, taint and restart | |
| `PodConnectivity` | the pod connectivity module: probes, triangulation, the remediator's tiers | |
| `RemediationRound` | what the modules share: a place in the round, the calico-node pods | |
| `CNIModule`, `CoreDNSModule`, `NetworkPolicyModule` | one module each, with the part of the cluster it looks after | `RemediationRound` |
| `NetworkRemediation` | the dispatcher with the three modules composed | the three |
| `BuddyAllocatorProofs`, `BuddyPoolProofs`, `BlockLifecycleProofs`, `BlockSplitProofs`, `HealthAgentsProofs`, `FailoverProofs`, `PodConnectivityProofs`, `NetworkRemediationProofs` | theorems about the module of that name; `BuddyAllocatorProofs` begins with the lemmas about `BuddyTree` | that module; `BuddyPoolProofs` also on the lemmas of `BuddyAllocatorProofs` |
| `MCBuddyAllocator`, `MCBuddyPool`, `MCBlockLifecycle`, `MCBlockSplit`, `MCHealthAgents`, `MCFailover`, `MCPodConnectivity`, `MCNetworkRemediation` | instances for TLC; the first also holds the loops of the code as a reference | |

### BuddyTree and BuddyAllocator

A block is its path from the top of the address space, a sequence of bits. The
length of the path stands for the prefix length, so containment of CIDRs is the
prefix order (`Covers`). A tree is a record with `Block.State`, `NodeName` and
`releaseAt` for every block, and the two maps `freeBlocks` and `quarantined`;
`"Absent"` means that there is no Block object. Every exported method holds the
mutex throughout, so it is one action. Allocating methods first sweep, and a method
that fails leaves the swept tree; `Reserve` does not sweep.

Loops are given in closed form. `Take` splits a free block, half by half, down to the part
that is handed out. `Release` merges every block around the released ones whose last used
part has gone, which is what climbing while the buddy is free does, and `Anchor` is
the range at which `AllocateFromBuddy` stops climbing. The run `buddy`
compares these forms with the loops themselves in every reachable state
(`ClosedFormsMatchLoops`). Each set of choices (`AllocateChoice`,
`SpreadChoice`, ...) has at most one element, the block the code picks; the empty
set is the error.

Definitions whose comment begins "As X, but" are variants of X with a typical
mistake. They are not used by the specifications; they show that the properties
notice the mistake.

### BuddyPool

Each method is one action that threads the list of allocators through its calls.
`allocatePrefixOrSplit` and `AllocateDemand` follow the code, including what they do
with blocks already taken when a later step fails. A loop and a recursion are functions
of the number of steps: `after[k]` in `DemandResult` is the state after `k` rounds,
`atOrBelow[k]` in `allocatePrefixOrSplit` is the call that looks for a block `k` levels
above the minimum, and `digits[k]` in `SplitDemand` the levels for the last `k` bits.
Because the pool's methods have the names of the allocator's, those that need it begin
with `Pool`.

### BlockLifecycle

The block is one a node has grown by; the node's starting block is elsewhere and
always in its CNI config. Demand is abstracted: where the planner's structural
conditions hold (phase, drain flag, owner alive, cooldown over) it may or may not
decide to act.

| Action | Code |
|---|---|
| `AgentList` | the lists at the start of `Sync`, in which any of the nodes may be Ready; what follows from them (`inConfig`, `ReadyToPromote`) is decided here because nothing is read again |
| `AgentRoutesOK`, `AgentRoutesIncomplete`, `AgentRoutesFail` | `syncRoutes`; a failure may have left this block's route alone, removed it, or put it in place |
| `AgentAck`, `AgentAckFail` | `ack`: the object is read again by name |
| `AgentOwn` | `syncOwn` up to the lease count |
| `AgentStatus` | the status update with `nextPhase`, on the object as it is then |
| `AgentStops` | an error return, or a restart of the agent |
| `ControllerList`, `CreateBlock`, `DrainBlock`, `UndrainBlock`, `QuarantineOrphan`, `DeleteBlock`, `DoNothing` | one reconcile: read, then one write or none |
| `SandboxStart`, `SandboxEnd`, `PodsEnd`, `NodeGone` | external: kubelet, host-local, cluster |
| `TimerRunsOut` | the one timer of the current phase: promote timeout, shrink cooldown, settle time or quarantine |

Timing. `before` collects what was in flight when the phase last changed, and the
timer runs out only when all of that has ended: the timers are chosen in the code to
outlast a sandbox and a pass. The timer is also assumed not to run out between a
pass's lease count and its status update. Of the settle time `docs/ipam-agent.md:121`
says itself that it makes a late address "unlikely, not impossible": a sandbox that
takes longer than the settle time is outside this model, and so outside the properties
and theorems about it.

Drain requests land at any time, in the middle of a pass too. Two history variables,
which no guard reads, follow what that race leaves behind. `raced` says that the drain
landed in a pass of the owner, until a config without the block is written; `late` has the nodes
where a sandbox read such a config while the block was Draining, until its pods are
gone. What the properties promise they promise with these two exceptions and no other.

### BlockSplit

The block is Active and whole, its owner uses the other half of it, and its node has
no other change in flight. `block` is the object (CIDR, `release`, `releaseReady`, and
whether `halfUsage` shows the half empty), `rest` the object of the released half.

| Action | Code |
|---|---|
| `Decide` | the controller's list and plan: `completeSplits` first, then withdraw, or ask for the half (`splitCandidate`) |
| `ReleaseHalf`, `KeepHalf` | `setRelease` in `applyLifecycle` |
| `Narrow`, `ClearHalfStatus`, `CreateRest`, `QuarantineRest` | the four writes of `splitBlock`, each of which may be the last (`ControllerStops`) |
| `DeleteRest`, `GiveHalf` | the end of the quarantine, and an allocation to another node |
| `AgentList`, `WriteConfig`, `CountLeases`, `ReportStatus`, `ReportRestSettled` | one pass of the agent: list, config with `ServedCIDR`, `countHalves` and `releaseReady`, status with `setHalfStatus` and `nextPhase` |
| `PassFails`, `AgentStops` | an error return, which keeps the release mark, and a restart, which loses it |
| `SettleTimePasses` | the settle time of the mark, which covers every sandbox that read the older config |
| `ReadConfig`, `TakeLease`, `GiveUp`, `PodEnds` | external: kubelet and host-local |

A report of readiness, or the mark it rests on, can outlive the request it was made
for (see the findings). `stale` is the history of that, which no guard reads: which of a
mark, a pass, a report and a split go back to a request that was withdrawn.

### HealthAgents

`fault` is the set of links that are down; `streaks` is the map of streaks in each
agent's memory, `reports` the annotations, and `fresh` the nodes whose report is young
enough not to be silent. `Probe` is one `round` with its `publish`,
`ProbeUnpublished` one whose patch failed, `PublishOnly` one that probed nobody. An
agent that stops loses its streaks and leaves the ring of the others; its annotation
stays and ages (`ReportAges`). `BrokenNodes`, `BrokenLinks`, `Ambiguous` and `Working`
are `Classify` and `ReadNodeHealth`.

Abstracted: only the primary path (the backup path is the same code on its own map);
the clock, so an agent may take any of its ring offsets next; a report is published in
every round, while the code skips an unchanged one until its heartbeat is due.

### Failover

| State | Code |
|---|---|
| `verdict` | what `ReadNodeHealth` would return now; it changes at any time |
| `gate`, `shadow`, `taint`, `cr` | pod conditions, shadow EndpointSlices, node taints, the object's status |
| `ctl` | the local variables of the reconcile in progress |
| `cooling`, `pending`, `recovery` | `lastRecoveryAttempt` within the backoff, `recoveryPending`, goroutines |
| `restarts` | how often the CNI agent was restarted since the taint was last put on; read by properties only |

| Action | Code |
|---|---|
| `Begin`, `EnsureGate`, `ReadHealth`, `PatchStatus` | the reconcile outside its loop |
| `Visit`, with `handlePrimaryDown` | one node: which operation it starts, or what it records |
| `ApplyShadow`, `SetGate`, `DeleteShadow` | one write of `FailoverNode`, `IsolateNode` or `FailbackNode` |
| `StageDone`, `OperationDone` | the order of these writes, and what the controller notes afterwards |
| `OperationFails`, `ReconcileFails`, `TaintFails`, `Untaint(n, TRUE)` | error returns |
| `TaintNode`, `LeaveTaint`, `Untaint(n, FALSE)`, `Restart`, `BackoffEnds` | taint, claim and restart |
| `OperatorRestarts` | everything in memory is gone |
| `VerdictChanges`, `PodReplaced` | the world around it |

Assumptions: one reconcile at a time, which is what controller-runtime does for one
object; reads return what was last written; a recovery goroutine is cancelled (90 s)
before the backoff ends (2 min); a pod is not replaced while a write to it is pending,
since the write would then fail. The phase for a suspect node is Degraded; in the code
it is Unknown where the failure is ambiguous, a difference that nothing reads back. A reconcile that fails or is interrupted ends in
`CutShort` and not in `Idle`, so that a property can tell the two apart; the code
behind `Begin` treats them alike.

### PodConnectivity

`fault` and `cut` are what is wrong in the network, `canary` and `agents` which nodes
have a canary and a CNI pod, `isolated` the tainted and cordoned nodes. A round is
`CheckNodes` (local and anchor probes), `CheckRing` (the probes of the ring, with
`Triangulate` and `Evaluate`) and one action of the remediator: `Drain`, `Isolate`,
`RestartCNIPod` or `RemediationFails`. Where the code takes the first element of a map,
`Triangulate` allows every element. `Faulty` has the nodes at which something is wrong;
a path in `cut` is no node's fault. `tries`, `hasEgress` and `evicted` are history that
only properties read. A fresh CNI pod may or may not cure the node; a fault that is not
`Curable` it never cures.

### RemediationRound and the modules

`pc` is the module whose turn it is. Check and Evaluate of a module only read, so they
are one step; Remediate takes a step for every call that changes the cluster. `cni`
restarts `calico-node` pods that are not ready, then re-enables a disabled pool and
releases blocks, then evicts pods that have no address or sandbox; `coredns` scales,
repairs the Corefile, restores the CPU or restarts; `networkpolicy` restarts the pods
that do not enforce policies, among them pods restarted too often (`"worn"`). `Bare` has
the pods without a controller: evicted, they are gone. `InKubeSystem` says whether the
configured Calico namespace is the one in which the code deletes; it is by default, and
in the run. An upstream of the Corefile may be one that the check does not know for a bad
one (`"unlisted"`). A CoreDNS pod serves what it read when it started (`dns`): the
`reload` plugin is not assumed, since the code restarts the pods to make them read the
repaired file. `unapplied` is history: the Corefile was mended and no rollout has begun
since. Cooldowns are counted in rounds. `left` bounds how many pods fail, workloads get stuck, CoreDNS
faults appear, calls are refused, restarts of the operator and edits of the CR happen;
`Mixes` lists the combinations explored.

## 3. Runs

| Run | Instance | Shows |
|---|---|---|
| `buddy` | 4 addresses, blocks of 1 to 4, 2 nodes, quarantine 0 or 1, clock to 2 | `Partition`, `IndexesAgree`, `NoHiddenSpace`, `ClosedFormsMatchLoops`, `GrowsInPlace`, refinement of `AddressSpace` (`ImplementsAddressSpace`) |
| `pool` | two disjoint CIDRs out of three, of which two overlap, quarantine 0 or 1 | `PoolDisjoint`, `DemandExact`, `DemandFailsOnlyWhenShort`, `QuarantineReachesEveryCIDR` |
| `lifecycle` | 2 nodes, drains at any time | `OneNodeServes`, `QuarantinedIsEmpty`, `OnlyRacedDrainIsListed`, `AckedIsRouted`, `DrainCompletes`, `PendingIsLeft` |
| `lifecycle_drain_race` | the same | violation of `DrainingIsOutOfConfig`: finding 1 |
| `split` | 2 sandboxes, one failing pass, three stops | `OnlyStaleReportsMislead`, `ReleaseResolves`, `RestComesBack` |
| `split_stale_ready` | the same | violation of `SplitHalfIsUnused`: finding 2 |
| `health_detection` | 3 agents, threshold 2; the links of node 3 fail one by one or together, its agent stops | `OnlyTheFaultyIsBlamed`, `BrokenNodeIsFound`, `BrokenLinkIsFound`, `PathsHeal` |
| `health_stale_result` | the same, but the agent of node 2 stops | violation of `PathsHeal`: finding 3 |
| `failover_recover` | 1 node; a pod that can be moved, one without a backup IP, one without the gate | `AtMostOneRestart`, `FailbackKeepsPods`, `HealthyHasNoShadow`, `WorkingIsRestored`, `CutOffIsIsolated` |
| `failover_half_done` | the same | violation of `BackupPathIsUsed`: finding 4 |
| `ring_diagnosis` | ring of 3 nodes; two faults, or one around a restart of the operator, or a lost canary | `EvictedHadRestarts`, `IsolatedForCause`, `DiagnosisIsRight`, `PersistentFaultIsContained` |
| `remediation` | 2 calico-node pods, 2 CoreDNS pods, 3 pods of 2 workloads, one of them bare, cooldowns of 1 to 3 rounds | `BadAgentsAreRestarted`, `PodsGetAddresses`, `DNSIsRestored`, `StatusSettles` |

`lifecycle`, `health_detection`, `ring_diagnosis` and `remediation` also check the
type invariant of their module; those of the allocator, the pool (as part of
`PoolInv`), `BlockSplit` and `Failover` are proved (section 4). "Mutants" in `PROJECT.json` are the definitions whose
comment begins "As X, but": put in place of X each one breaks the property it is listed
for.

Bounds. Three agents are the smallest ring in which one link can be told from one
node, and three nodes the smallest ring whose diagnosis is unambiguous. With threshold
2 a streak has a run that a good probe can reset. The nodes of `Failover` share no
state except through the loop and the phase, so one node with every kind of pod covers
the operations; the theorems of section 4 hold for every number of nodes. An allocator
of depth 2 has the relations same, buddy, inside and apart, and a piece of the buddy to
grow into; the theorems lift all of its properties but the comparison with the loops to
every depth. Clock 2 with quarantine 1 has blocks that are due, not yet due and held under an
older duration. Two nodes are enough for an owner, a peer that routes and a block that
changes hands. Two sandboxes are one that still reads the old config and one that holds
a lease. Three stops are one for each gap between the writes of a split, or stops of the
agent and the controller in one request. Two limits of 2 in `ring_diagnosis` let a node
be restarted, fail again and be escalated. In `remediation` two calico-node pods are in
different states while a module works through its list, and three pods of two workloads
are one blocked by the cooldown of its owner, one not. Node names are only compared in
the allocator and the pool, so those runs use symmetry; runs with liveness do not.

Fairness.

* `lifecycle`: the owner's agent polls (`Run` loops on a ticker); any other agent may
  be down for ever and only finishes the pass it is in. The controller is requeued after
  every reconcile. A plan that finds an orphan or an ended quarantine always acts on it,
  so strong fairness on `QuarantineOrphan` and `DeleteBlock` says only that writes do not
  fail for ever. Sandboxes and pods end, and time passes. The properties also assume that
  passes fail only finitely often (`FaultsStop`). Draining waits for pods to end; the
  code never evicts them, so that assumption is needed.
* `split`: the same for the agent, the controller's writes and time. The planner is only
  fair in splitting a half that is reported ready, which it looks at before anything
  else, and in deleting a block whose quarantine is over; it need never ask for a half
  nor withdraw a request. Failures and stops are bounded by constants.
* `health_detection`: every agent that runs keeps probing every peer ahead of it in the
  ring. The rounds follow the clock, so this is true as long as agents do not skip rounds
  in step with the sweep; the properties further assume that from some point on the
  agents run and the faults stay as they are.
* `failover_recover`: the controller is requeued after every reconcile, so its steps go
  on. `WorkingIsRestored` and `CutOffIsIsolated` assume `Quiet`: from some point on no
  write fails, the operator does not restart and no pod is replaced. Nothing is assumed
  of goroutines or of the backoff.
* `ring_diagnosis`: the dispatcher comes back after its requeue interval, a remediation
  that is due does not fail for ever, and the DaemonSet controller recreates CNI pods.
  `PersistentFaultIsContained` assumes that one node stays faulty and the canaries run.
* `remediation`: rounds follow each other, a deleted `calico-node` pod is replaced, and
  kubelet and the Deployment controller make progress, all of it weakly fair. In
  particular a `calico-node` pod that is deleted again and again need never become ready:
  nothing in the code leaves it the time. `PodsGetAddresses` and `StatusSettles`
  therefore assume that these pods settle (`AgentsSettle`); `BadAgentsAreRestarted` does
  not. `PodsGetAddresses` and `StatusSettles` also assume that addresses do not run out
  for good, `DNSIsRestored` and `StatusSettles` that CoreDNS is not down with all its pods
  crashing, `DNSIsRestored` that the upstream does not stay one the check does not know.

Findings.

1. `agent.go:484`: a drain request that lands between a pass's list and its status
   update marks the block Draining although the config written by that pass still
   lists it. The comment says "The config no longer lists this block." The next pass
   drops it, but the settle time has been running since the first one.
2. `ipam_controller.go:301`: withdrawing a request for a half leaves the report that the
   half is ready. If the report landed after the list on which the withdrawal rests, and
   the half is asked for again before the agent's next report, the next reconcile splits
   the block at once, while the agent's pass has put the half back into the CNI config.
   The comment on `splitBlock` says "Before this, the owner's CNI config already left the
   half out and the agent saw it empty for the settle time". Neither request changes
   `lastTransitionTime`, so the shrink cooldown does not keep them apart. The same
   happens when a pass that put the half back ends early (`count leases` fails): the
   release mark of the old request stays and counts for the new one.
3. `daemon.go:195`: streaks of peers that an agent no longer probes are published for
   ever. One is left behind whenever an agent was away and the ring closed over it; if
   its last state is a failure, both nodes stay "not working" although every path
   works, and the controller never fails back. If it is a success, it hides a fault.
4. `cniresilience_controller.go:211`: a failover cut short between shadows and gates is
   taken for a complete one, so the gates stay on and the Service keeps the dead
   addresses until the node has been working again.

Read in the code while modelling, and left without a run.

* `pool.go:211`: when the first half of a fallback split fails, the blocks its own
  recursion has taken are dropped, so `AllocateDemand` does not give them back, although
  its comment says "On failure nothing stays allocated." The pool is rebuilt on every
  reconcile, so the blocks are lost only for the rest of that plan.
* `sizing.go:38`: "two NodeBlocks can never claim the same block" holds for blocks of one
  size only; a plan made from a stale cache can create a block inside another one, whose
  name is different.
* `podconnectivity/controller.go:268`: `ResetNodeHistory` is called with the node of the
  healthy decision, which is empty, so restart counts are never cleared and a fault of
  another day escalates at once.
* `podconnectivity/triangulation.go:206`: of a single broken path from A to B the target B
  is blamed (`DiagnosisIsRight` says so), while `docs/pod_connectivity_operator.md:174` says
  of the same pattern "Node $B$ is healthy. Node $A$'s egress tunnel routing or
  intermediary switch path is corrupted." If the path stays broken, the healthy B is
  restarted and in the end isolated: `IsolatedForCause` asks for restarts, not for a fault
  of the node, and `PersistentFaultIsContained` is about nodes, not paths.
* `podconnectivity/triangulation.go:145`: a node that is dead in both directions is found by
  its incoming probes first, is diagnosed as `NodeIngressDead` and gets a new CNI pod. The
  document draws it as "Node A Egress Total Failure" (`pod_connectivity_operator.md:141`),
  which leads to "Taint Node A & Cordon" (line 152).
* `podconnectivity/topology.go:86`: in a ring of two nodes a node that cannot send is
  indistinguishable from a peer that cannot receive, and the peer is blamed.
* `healthagent/daemon.go:175`: a peer that never answered is reported as working until
  the threshold is reached. `healthagent/agent.go:119`: a node whose agent is silent is
  blamed for a single failed link into it, which is why `OnlyTheFaultyIsBlamed` is about
  nodes whose agent runs.
* `cniresilience_controller.go:275`: the status says that the CNI agent was restarted
  also when the backoff refused the restart or it failed, and no later round of the
  episode tries again.
* `cni/controller.go:747`: pods that are not ready are deleted in every round, without a
  cooldown, also those that are only starting; one that needs longer than the requeue
  interval is restarted for ever, and then `cni` neither re-enables pools nor evicts.
  `networkpolicy` has a cooldown for the same pods, "to avoid restart-thrashing"
  (`networkpolicy_types.go:33`), which does not bind `cni`, and deletes the starting pod as
  well. This is why no property says that the pods become ready: `BadAgentsAreRestarted`
  says that a bad one is deleted at last. A deletion list of `networkpolicy` that fails
  half way starts no cooldown.
* `cni/controller.go:750`: the pods are deleted in `kube-system`, wherever the check has
  found them, although `cni_types.go:25` lets one configure "the namespace where calico-node
  DaemonSet lives". With `InKubeSystem` FALSE every restart fails, in every round.
* `cni/controller.go:320`: a stuck pod that no controller owns is a workload of its own and
  is evicted like the others, but nothing brings it back; `PodsGetAddresses` excepts it.
* `coredns/controller.go:532`: the result of the restart after a repair of the Corefile is
  dropped, though the restart is there "so pods pick up the corrected ConfigMap" (line 524).
  If it fails, pods keep the bad upstream, the check finds nothing more to do, and the
  status is Running. `DNSIsRestored` excepts exactly these pods.
* `coredns`: with all pods crashing, availability is zero, scaling is tried in every
  round and nothing else ever, and each round counts as healthy. A bad upstream outside
  the list at `coredns/controller.go:267` is never repaired. The default cooldown is not
  longer than the requeue interval.
* `networkremediation_controller.go:215`: a remediation that was skipped in its cooldown
  counts as success (`coredns/controller.go:429`), so the phase is Running while the fault is
  still there, although "Healthy indicates whether the module's checks are passing."
  (`networkremediation_types.go:79`); `StatusSettles` is about the end of it only.

## 4. Proofs

Every theorem holds for every value of the constants that satisfies the ASSUMEs of its
module and what is named here. TLC checks the same properties on the instances of
section 3.

| Theorem | States | Needs |
|---|---|---|
| `AllocatorTypes`, `AllocatorIndexes`, `AllocatorPartition`, `AllocatorNoHiddenSpace` | `TypeOK`, `IndexesAgree`, `Partition`, `NoHiddenSpace` of the allocator | what `NewBuddyAllocator` checks |
| `AllocatorIsAddressSpace` | the allocator refines `AddressSpace` | the same |
| `AllocatorGrowsInPlace` | `GrowsInPlace` | the same |
| `PoolInvariant` | `PoolInv`: every tree of the pool is well formed, its CIDRs are apart, each has the pool's quarantine | the limits are ordered, CIDRs are blocks, requests and times natural numbers |
| `PoolNeverOverlaps`, `PoolDemandIsExact`, `PoolDemandFailsOnlyWhenShort`, `PoolQuarantineReachesEveryCIDR` | `PoolDisjoint`, `DemandExact`, `DemandFailsOnlyWhenShort`, `QuarantineReachesEveryCIDR` | the same |
| `LifecycleTypes` | `TypeOK` of a block's life | nothing |
| `NoBlockOnTwoNodes`, `QuarantineIsSafe`, `OnlyRaceListsDraining`, `AcknowledgedRoutesStay` | `OneNodeServes`, `QuarantinedIsEmpty`, `OnlyRacedDrainIsListed`, `AckedIsRouted` | nothing but the timing in section 2 |
| `SplitTypes`, `SplitIsSafe` | `TypeOK` and `OnlyStaleReportsMislead` | bounds are natural numbers |
| `AgentTypes` | `TypeOK` of the health agents | nothing |
| `NobodyElseIsBlamed` | `OnlyTheFaultyIsBlamed` | all faults touch one node, and only its agent stops |
| `FailoverTypes`, `OneRestartPerEpisode`, `HealthyMeansNoShadow`, `PodsStayServed` | `TypeOK`, `AtMostOneRestart`, `HealthyHasNoShadow`, `FailbackKeepsPods` | `PodsAssumption` |
| `RemediatorTypes`, `EvictionIsEarned`, `DisruptionIsEarned` | `TypeOK`, `EvictedHadRestarts`, both that and `IsolatedForCause` | nothing |
| `TriangulationIsRight` | `DiagnosisIsRight` | three nodes |
| `RemediationTypes` | `TypeOK` of the dispatcher and its modules | cooldowns and bounds are natural numbers |

### The allocator

Assumptions: `LevelsAssumption` and `RootAssumption`, which are what
`NewBuddyAllocator` checks, and that requests and times are natural numbers.

The inductive invariant is `WellFormed(tree, Root)`. None of the properties is
inductive alone: that an allocation keeps the free index right needs to know that
nothing exists below a free block; that needs the shape of the tree (`IsTree`: a
block that exists lies under the root and everything around it is Split); that
addresses are not lost (`Complete`) is stated per address, because stated per block
it would need an induction along the path; and hidden space is excluded by `Merged`:
a block is split only while a part of it is in use. The first half of the module shows that
`Collapse` (and with it `Release`, `Sweep` and `MergeAll`), `Hold` and `Take`
preserve it, and that every choice of an allocating method is a part of a free block.
The two places where a least element is needed (the outermost merged block around an
address, the first bit in which an address leaves the path to a taken block) use the
well-foundedness of the natural numbers.

Refinement. The mapping gives every address the holder and the release time of the
leaf it lies in, which `Partition` makes unique. The invariant `RInv` adds to the one
above that only quarantined blocks carry a release time (`Marked`). For each tree
operator a lemma says what it does to the addresses: `ReleaseAddresses` and
`SweepAddresses` that exactly the addresses below the released blocks become free,
`MergeAllAddresses` that none changes, `TakeAddresses` and `HoldAddresses` that only
those of the block taken or held do. Then each action is a step of `AddressSpace` or
a stutter (`AllocatingIsGrant`, `ReserveIsGrant`, `ReleaseIsGiveBack`,
`HoldIsGiveBack`, `SweepIsGrant`, `DefragmentIsGrant`).

Growing in place is a fact about paths: an address between a block and the piece of
its anchor's buddy that is nearest to it lies under the anchor (`BetweenPaths`,
`NearestIsNext`), and what lies under the anchor and beside the block is the owner's
(`AnchorIsOwned`), also after the sweep that precedes the choice
(`SweepKeepsAllocated`). `SpreadLeavesBuddy` is the other half: the block that
`AllocateSpread` returns has a free buddy.

### The pool

Assumptions: `LevelsAssumption`, `NoNodeAssumption`, `CIDRsAssumption`,
`RequestsAssumption` and `TimeAssumption`. The pool may be given any set of CIDRs in any
order, of any size; `AddCIDR` refuses those that overlap or are too small.

`PoolInv` says of every CIDR what `WellFormed` says of one, and relates the CIDRs:
their roots do not overlap, and each has the quarantine of the pool. Two of the
properties follow at once: two blocks that overlap lie under one root (`RootsApart`),
where leaves are apart (`HandlesApart`), and a `Free` under a quarantine is a `Hold`.

The other two say what a chain of calls does, and that needs a count that adds up.
`Exact(xs, w, r)` says of a call on the list of allocators `xs` with the result `r`: it
succeeds if and only if `w` minimum blocks are free in `xs`, and then it hands out
blocks that hold exactly `w`, all of them free before, and takes nothing else out of
`FreeUnits`. The proof follows the code.

* One `AllocatePrefix` (`PrefixOutcome`): `Take` removes from the free minimum blocks of
  one tree just those of the block taken (`TakeUnits`), a block of level `l` holds
  `2^(MinLevel - l)` of them (`UnitsOfBlock`), the sweep that comes first changes nothing
  that the next sweep would not find (`SweepAgain`), and a free minimum block is always
  under a free block that serves the minimum level.
* Two calls one after the other add up (`ExactThen`), so a block or its two halves is
  exact if a half is (`HalvesAreExact`), and so is `allocatePrefixOrSplit` at every level
  (`OrSplitExact`). A first half that fails needs no care: then fewer are free than even
  a half needs.
* `SplitDemand` lists levels that hold the demand (`SplitWeighs`), from the largest
  blocks and the binary digits of the rest (`NextDigit`).
* `AllocateDemand` is one round per level (`RoundExact`), which adds up to
  `DemandIsExact`.

The recursive functions of the module are shown to exist from the steps they are made of
(`Iterates`), and what holds after every step is carried along by `UpTo`, induction for
a set of numbers that is written out, which follows from the well-foundedness of the
natural numbers. `2^n` is reached as the number of subsets of a set of `n` elements
(`PowerDoubles`), since the provers have no theory of it. `PoolInv` was checked with TLC
on the instance of `pool` before it was proved.

What `DemandExact` does not claim is that a failing call gives back what it took; it may
not (section 3, `pool.go:211`). `PoolInv` and the other properties hold after it all the same.

### The life of a block

`LifecycleInv` collects what makes the four safety invariants inductive. Each part
says of something that was read earlier that it is still true or is being waited for:
what the reconcile has listed (`ViewIsRecent`), what a pass has planned to write into
the CNI config (`PlanIsValid`) and which route it found (`RouteIsValid`), a pass that
began under an earlier owner (`StalePassIsAwaited`), a sandbox that read an older
config (`DrainIsSettling`), an acknowledgement in the object (`AckIsValid`). What may
be stale is in `before`, which the timer of the phase outlasts.

The theorems assume nothing about when drains land. `DrainIsSettling` says what a raced
drain can and cannot do: the config lists a draining block only while `raced` stands, so
only until the owner's next pass, and who read it then is in `late`. From that each
property follows with exactly these exceptions, so the theorems also say how far finding 1
reaches: in the model it is the only way in which a block is listed while it drains, is
quarantined while in use, or is held by a node that does not own it. That the exception
is not empty is what `lifecycle_drain_race` shows.

### Splitting a block

`SplitIsSafe` holds for every number of sandboxes, failures and stops, with requests
withdrawn and made again at any time. The invariant (`HalfInv`) follows the promise
through its hands, as long as it is not `stale`: while a mark stands the half is out of
the config (`MarkInv`); what a pass is about to report as ready is unused (`PassInv`); what
is reported ready stays asked for, and no pass is under way that has read anything else
(`ReadyInv`); so that after the split no pass puts the half back (`SplitInv`). A
withdrawal makes the report stale and a config with the half makes the mark stale, and
staleness is handed on from mark to pass to report to split. Finding 2 is a split at the
end of that chain, and the theorem says that there is no other way to it.

### The health agents

`NobodyElseIsBlamed` assumes a node `c` that every fault there ever is touches and whose
agent is the only one that may stop, as in the run; the agents and the threshold are
any. The invariant `OnlyPairsFail` says that no streak and no report between two other
nodes ever shows a failure: a probe of theirs crosses no broken link
(`ProbeOfOthersSucceeds`), and what a report holds was in a streak. It is blame that
needs the ring: each pair of nodes is probed from one side at least (`RingCoversPairs`,
which follows from the size of the half ring, `HalfTheRing`). A node is blamed only when
a path between two others worked, so there is a peer other than `c`, and with that peer
a running node other than `c` has been seen to talk.

### Failover

`AtMostOneRestart` is not inductive: a second goroutine could be on its way.
`RestartInv` adds that restarts made and restarts ahead are at most one together, and
that a goroutine that is ahead keeps the node in its backoff, so that a new episode
cannot claim a second one; a new taint sets the count back only when it may. `TypeOK`
bounds the goroutines and needs `RestartInv` for it. `HealthyHasNoShadow` rests on
`ShadowInv`: during a reconcile every node with a shadow is in `failedOver` or proven
broken in the verdict this reconcile has read, and an operation that is about to take
a node out of `failedOver` has removed its shadows. `FailbackKeepsPods` adds
`FailbackInv`: a shadow only holds pods of its node, and while the node fails back a
gate that is off is still in the list of the stage before the shadows are dropped. A
pod that is replaced meanwhile has no gate condition at all, so it is not off. The
assumption is `PodsAssumption`: every pod has a node and every slice lists pods.

### Pod connectivity

`DisruptionIsEarned` holds however often the operator loses its memory. Its invariant
(`RemediationInv`) relates the counts in memory to the restarts that were made: memory
never counts more than that. It also says that a decision waiting to be acted on names
a node, and that the egress diagnosis was recorded. The lemma `TriangulateType` shows
that whatever the probes found, a decision which is not healthy blames a node of the
ring and only the egress diagnosis asks for isolation.

`TriangulationIsRight` is about rings of any size from three up. The lemmas about
`Succ` and `Pred` say that the ring closes and, with three nodes, that the two
neighbours of a node differ (`TwoNeighbours`), so that each node has two edges into it
and two out of it (`RingDegrees`). From that each single fault is diagnosed as its kind
and at its place: a node that cannot be reached (`DeafIsBlamed`), one that cannot send (`MuteIsBlamed`), one
whose own probe fails (`LocalIsBlamed`), one cut edge, on its target
(`EdgeIsBlamed`). The assumption
of three nodes cannot be dropped: with two, both degrees are one and an egress failure
of one node looks like an ingress failure of the other (listed as a hazard).

### The round of the modules

`RemediationTypes` also says that what a module decided lives as long as its
remediation: no target, error or list of pods is left when a module's turn ends,
whichever call failed and whenever the operator restarted, so none is acted on in a
later round. Its invariant has one part for the round and one for each module; a step
of one module leaves the parts of the others alone because it does not change whether
they act (`Same`).

### Only model-checked

* Liveness (`DrainCompletes`, `PendingIsLeft`, `ReleaseResolves`, `RestComesBack`,
  `BrokenNodeIsFound`, `BrokenLinkIsFound`, `PathsHeal`, `WorkingIsRestored`,
  `CutOffIsIsolated`, `PersistentFaultIsContained`, `BadAgentsAreRestarted`,
  `PodsGetAddresses`, `DNSIsRestored`, `StatusSettles`): fairness and ENABLED are
  outside the prover's reach.
* `ClosedFormsMatchLoops`: the loops it compares with are recursive operators, which the
  prover does not expand.

## 5. Not modelled, and the plan

Not modelled for good: metrics and monitoring, the offline simulator, the kube-proxy
check, the commands and their flags, API types and generated code, the visualizer,
netlink and iptables calls, file formats, CIDR arithmetic. Left out of modelled
components: the latency CoreDNS reads from Prometheus, a missing Deployment and the
switches that turn a remedy off; the backup path of the health agents, which is the same
code on its own map; the sizes the planner computes.

Left for later, in this order:

1. several blocks of one node and a stale cache of the controller: overlap of blocks of
   different size, `buildPool`, one node without an InternalIP holding up everyone;
2. sizing as functions: `growthNeed`, `needsGrowth`, `shrinkCandidate`, against
   reference definitions; no oscillation between growing and shrinking;
3. `HealthAgents` and `Failover` together, so that the controller acts on verdicts the
   agents can produce; `PodConnectivity` in the round of `NetworkRemediation`;
4. proofs: the loops of `MCBuddyAllocator` as functions of the number of steps, like those
   of `BuddyPool`, so that `ClosedFormsMatchLoops` can be proved as well.
