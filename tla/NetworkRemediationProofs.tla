---------------------- MODULE NetworkRemediationProofs ----------------------
(* Theorems about NetworkRemediation, for every set of nodes, pods, workloads *)
(* and replicas, every cooldown and every bound on what goes wrong.           *)
EXTENDS NetworkRemediation, TLAPS

-----------------------------------------------------------------------------
(* The type invariant, one part for the round and one for each module *)

RoundOK ==
  /\ pc \in Places /\ unhealthy \subseteq Modules /\ phase \in {"Running", "Degraded"}
  /\ agent \in [Nodes -> AgentPhases] /\ left \in [Troubles -> Nat]

PodStates == {"running", "waiting", "addressless", "sandboxless", "gone"}

TargetRecords ==
  [action : {"none", "restart", "reenable", "release", "evict"},
   agents : SUBSET Nodes, pods : SUBSET Pods]

CNIOK ==
  /\ pool \in {"enabled", "disabled"} /\ exhausted \in BOOLEAN
  /\ pods \in [Pods -> PodStates]
  /\ target \in TargetRecords /\ lastErr \in BOOLEAN
  /\ target # NoTarget => Acting("cni")
  /\ lastErr => Acting("cni")
  /\ lastWorkloadEviction \in [Workloads -> 0..EvictionCooldown]

Fixes == {"none", "scale", "repair", "reload", "restore", "restart"}

DNSOK ==
  /\ scaled \in BOOLEAN /\ throttled \in BOOLEAN /\ corefile \in Upstreams
  /\ dns \in [Replicas -> DNSPhases] /\ outdated \subseteq Replicas /\ unapplied \in BOOLEAN
  /\ fix \in Fixes
  /\ fix # "none" <=> Acting("coredns")
  /\ lastRemediatedAt \in 0..DNSCooldown

NPOK ==
  /\ unhealthyFelixPods \subseteq Nodes
  /\ unhealthyFelixPods # {} => Acting("networkpolicy")
  /\ lastFelixRestart \in 0..FelixCooldown

RemediationInv == RoundOK /\ CNIOK /\ DNSOK /\ NPOK

\* The parts are TypeOK, with the fields of the target spelled out.
LEMMA PartsAreTypes == RemediationInv => TypeOK
BY DEF RemediationInv, RoundOK, CNIOK, DNSOK, NPOK, TypeOK, TargetRecords, PodStates, Fixes

LEMMA RemediationInit == Init => RemediationInv
<1> SUFFICES ASSUME Init PROVE RemediationInv
  OBVIOUS
<1>1. RoundOK
  BY LimitsAssumption DEF Init, RoundOK, Places, AgentPhases
<1>2. CNIOK
  <2>1. NoTarget \in TargetRecords
    BY DEF NoTarget, TargetRecords
  <2>2. NeverEvicted \in [Workloads -> 0..EvictionCooldown]
    BY WorkloadsAssumption DEF NeverEvicted
  <2>3. pods \in [Pods -> PodStates]
    BY DEF Init, CNIInit, PodStates
  <2> QED BY <2>1, <2>2, <2>3 DEF Init, CNIInit, CNIOK
<1>3. DNSOK
  <2>1. dns \in [Replicas -> DNSPhases] /\ corefile \in Upstreams /\ fix \in Fixes
    BY DEF Init, DNSInit, DNSPhases, Upstreams, Fixes
  <2>2. lastRemediatedAt \in 0..DNSCooldown
    BY CooldownAssumption DEF Init, DNSInit
  <2>3. fix = "none" /\ ~Acting("coredns")
    BY DEF Init, DNSInit, Acting, Idle
  <2> QED BY <2>1, <2>2, <2>3 DEF Init, DNSInit, DNSOK
<1>4. NPOK
  BY FelixAssumption DEF Init, NPInit, NPOK
<1> QED BY <1>1, <1>2, <1>3, <1>4 DEF RemediationInv

-----------------------------------------------------------------------------
(* The round *)

\* Whether a module acts does not change, and neither do its variables.
Same(m) == Acting(m)' <=> Acting(m)

LEMMA CNIElsewhere == ASSUME CNIOK, UNCHANGED cniVars, Same("cni") PROVE CNIOK'
BY DEF CNIOK, cniVars, cniMemory, workloads, Same

LEMMA DNSElsewhere == ASSUME DNSOK, UNCHANGED dnsVars, Same("coredns") PROVE DNSOK'
BY DEF DNSOK, dnsVars, deployment, Same

LEMMA NPElsewhere == ASSUME NPOK, UNCHANGED npVars, Same("networkpolicy") PROVE NPOK'
BY DEF NPOK, npVars, Same

LEMMA SpendTypes ==
  ASSUME RoundOK, NEW kind, Spend(kind)
  PROVE  left' \in [Troubles -> Nat]
<1>1. left \in [Troubles -> Nat]
  BY DEF RoundOK
<1>2. CASE kind \in Troubles
  <2>1. left[kind] \in Nat /\ left[kind] > 0
    BY <1>1, <1>2 DEF Spend
  <2>2. left[kind] - 1 \in Nat
    BY <2>1
  <2>3. left' = [left EXCEPT ![kind] = left[kind] - 1]
    BY DEF Spend
  <2> QED BY <1>1, <2>2, <2>3
<1>3. CASE kind \notin Troubles
  BY <1>1, <1>3 DEF Spend
<1> QED BY <1>2, <1>3

\* Where a result of a module leads, and which other modules act.
LEMMA ResultPlaces ==
  ASSUME RoundOK, NEW m \in Modules, pc \in {<<m, "check">>, <<m, "act">>},
         Healthy(m) \/ Unhealthy(m) \/ NeedsRemediation(m) \/ UNCHANGED round
  PROVE  /\ pc' \in Places /\ unhealthy' \subseteq Modules /\ phase' \in {"Running", "Degraded"}
         /\ \A k \in Modules \ {m} : Same(k)
<1>1. Successor(m) \in Places /\ \A k \in Modules : Successor(m) # <<k, "act">>
  <2>1. Successor(m) \in {<<"coredns", "check">>, <<"networkpolicy", "check">>, <<"dispatcher", "status">>}
    BY DEF Successor, Modules
  <2>2. \A k \in Modules : <<k, "check">> \in Places
    BY DEF Places
  <2>3. <<"dispatcher", "status">> \in Places
    BY DEF Places
  <2>4. \A k, x, y \in STRING : y # "act" => <<x, y>> # <<k, "act">>
    OBVIOUS
  <2> QED BY <2>1, <2>2, <2>3, <2>4 DEF Modules
<1>2. <<m, "act">> \in Places /\ \A k \in Modules \ {m} : <<m, "act">> # <<k, "act">>
  BY DEF Places
<1>3. \A k \in Modules \ {m} : ~Acting(k)
  BY DEF Acting
<1>4. pc' \in {Successor(m), <<m, "act">>, pc}
  BY DEF Healthy, Unhealthy, NeedsRemediation, round
<1>5. \A k \in Modules \ {m} : Same(k)
  BY <1>1, <1>2, <1>3, <1>4 DEF Acting, Same
<1>6. unhealthy' \subseteq Modules /\ phase' \in {"Running", "Degraded"}
  BY DEF Healthy, Unhealthy, NeedsRemediation, round, RoundOK
<1> QED BY <1>1, <1>2, <1>4, <1>5, <1>6 DEF RoundOK

\* After a result that is not a remediation the module no longer acts.
LEMMA ResultEnds ==
  ASSUME NEW m \in Modules, Healthy(m) \/ Unhealthy(m)
  PROVE  ~Acting(m)'
BY DEF Healthy, Unhealthy, Successor, Modules, Acting

LEMMA DeleteTypes ==
  ASSUME RoundOK, NEW n \in Nodes, DeleteAgent(n)
  PROVE  agent' \in [Nodes -> AgentPhases]
BY DEF RoundOK, DeleteAgent, AgentPhases

-----------------------------------------------------------------------------
(* The cni module *)

LEMMA ChoiceTypes ==
  ASSUME NEW stuck \in SUBSET Pods, NEW disabled \in BOOLEAN
  PROVE  Choice(stuck, disabled) \in TargetRecords
BY DEF Choice, Target, NoTarget, TargetRecords, Unready, Actionable

LEMMA CNIEvaluateTypes ==
  ASSUME RoundOK, CNIOK, Checking("cni"), NEW stuck \in SUBSET Pods, NEW disabled \in BOOLEAN,
         NEW full, CNIEvaluate(stuck, disabled, full)
  PROVE  /\ CNIOK'
         /\ Healthy("cni") \/ Unhealthy("cni") \/ NeedsRemediation("cni")
<1>1. target' \in TargetRecords
  BY ChoiceTypes DEF CNIEvaluate
<1>2. target' # NoTarget => Acting("cni")'
  BY DEF CNIEvaluate, NeedsRemediation, Acting
<1>3. ~lastErr
  BY DEF CNIOK, Checking, Acting
<1>4. UNCHANGED <<pool, exhausted, pods, lastErr, lastWorkloadEviction>>
  BY DEF CNIEvaluate, workloads
<1>5. Healthy("cni") \/ Unhealthy("cni") \/ NeedsRemediation("cni")
  BY DEF CNIEvaluate
<1> QED BY <1>1, <1>2, <1>3, <1>4, <1>5 DEF CNIOK

LEMMA CNICheckTypes ==
  ASSUME RoundOK, CNIOK, CNICheck \/ \E what \in {"pods", "pools", "blocks"} : CNICheckBlind(what)
  PROVE  /\ CNIOK' /\ left' \in [Troubles -> Nat] /\ UNCHANGED agent
         /\ pc = <<"cni", "check">>
         /\ Healthy("cni") \/ Unhealthy("cni") \/ NeedsRemediation("cni")
<1>1. Stuck \subseteq Pods /\ {} \subseteq Pods
  BY DEF Stuck
<1>2. CASE CNICheck
  <2>1. Checking("cni") /\ CNIEvaluate(Stuck, pool = "disabled", exhausted) /\ UNCHANGED left
    BY <1>2 DEF CNICheck
  <2>2. UNCHANGED agent
    BY <2>1 DEF CNIEvaluate
  <2> QED BY <1>1, <2>1, <2>2, CNIEvaluateTypes DEF RoundOK, Checking
<1>3. ASSUME NEW what \in {"pods", "pools", "blocks"}, CNICheckBlind(what)
      PROVE  /\ CNIOK' /\ left' \in [Troubles -> Nat] /\ UNCHANGED agent
             /\ pc = <<"cni", "check">>
             /\ Healthy("cni") \/ Unhealthy("cni") \/ NeedsRemediation("cni")
  <2>1. /\ Checking("cni") /\ Spend("refusals")
        /\ CNIEvaluate(IF what = "pods" THEN {} ELSE Stuck,
                       what = "pods" /\ pool = "disabled", what # "blocks" /\ exhausted)
    BY <1>3 DEF CNICheckBlind, Refused
  <2>2. (IF what = "pods" THEN {} ELSE Stuck) \in SUBSET Pods
    BY <1>1
  <2>3. UNCHANGED agent
    BY <2>1 DEF CNIEvaluate
  <2> QED BY <2>1, <2>2, <2>3, CNIEvaluateTypes, SpendTypes DEF Checking
<1> QED BY <1>2, <1>3

LEMMA CNIActTypes ==
  ASSUME RoundOK, CNIOK,
         \/ \E n \in Nodes : RestartAgent(n)
         \/ ReenablePool
         \/ \E p \in Pods : EvictPod(p)
         \/ \E passedOver \in BOOLEAN : CallFails(passedOver)
         \/ CNIRemediated
  PROVE  /\ CNIOK' /\ left' \in [Troubles -> Nat] /\ agent' \in [Nodes -> AgentPhases]
         /\ pc = <<"cni", "act">>
         /\ Healthy("cni") \/ Unhealthy("cni") \/ UNCHANGED round
<1> DEFINE Goal == /\ CNIOK' /\ left' \in [Troubles -> Nat] /\ agent' \in [Nodes -> AgentPhases]
                   /\ pc = <<"cni", "act">>
                   /\ Healthy("cni") \/ Unhealthy("cni") \/ UNCHANGED round
<1>1. ASSUME NEW n \in Nodes, RestartAgent(n) PROVE Goal
  <2>1. agent' \in [Nodes -> AgentPhases] /\ lastErr' \in BOOLEAN
    <3>1. CASE InKubeSystem
      BY <1>1, <3>1, DeleteTypes DEF RestartAgent, CNIOK
    <3>2. CASE ~InKubeSystem
      BY <1>1, <3>2 DEF RestartAgent, RoundOK
    <3> QED BY <3>1, <3>2
  <2>2. target' \in TargetRecords /\ Acting("cni")'
    BY <1>1 DEF RestartAgent, CNIOK, TargetRecords, Acting, round
  <2> QED BY <1>1, <2>1, <2>2 DEF RestartAgent, CNIOK, RoundOK, workloads, Acting
<1>2. CASE ReenablePool
  <2>1. target' \in TargetRecords /\ Acting("cni")'
    BY <1>2 DEF ReenablePool, CNIOK, TargetRecords, Acting, round
  <2> QED BY <1>2, <2>1 DEF ReenablePool, CNIOK, RoundOK, Acting
<1>3. ASSUME NEW p \in Pods, EvictPod(p) PROVE Goal
  <2>1. target' \in TargetRecords /\ Acting("cni")'
    BY <1>3 DEF EvictPod, CNIOK, TargetRecords, Acting, round
  <2>2. lastWorkloadEviction' \in [Workloads -> 0..EvictionCooldown]
    <3>1. 0 \in 0..EvictionCooldown
      BY WorkloadsAssumption
    <3> QED BY <1>3, <3>1 DEF EvictPod, CNIOK
  <2>3. pods' \in [Pods -> PodStates]
    BY <1>3 DEF EvictPod, CNIOK, PodStates
  <2> QED BY <1>3, <2>1, <2>2, <2>3 DEF EvictPod, CNIOK, RoundOK, Acting
<1>4. ASSUME NEW passedOver \in BOOLEAN, CallFails(passedOver) PROVE Goal
  <2>1. target' \in TargetRecords
    BY <1>4 DEF CallFails, CNIOK, TargetRecords
  <2>2. Acting("cni")' /\ lastErr' \in BOOLEAN
    BY <1>4 DEF CallFails, CNIOK, Acting, round
  <2>3. left' \in [Troubles -> Nat]
    BY <1>4, SpendTypes DEF CallFails, Refused
  <2> QED BY <1>4, <2>1, <2>2, <2>3 DEF CallFails, CNIOK, RoundOK, workloads, Acting
<1>5. CASE CNIRemediated
  <2>1. NoTarget \in TargetRecords
    BY DEF NoTarget, TargetRecords
  <2>2. Healthy("cni") \/ Unhealthy("cni")
    BY <1>5 DEF CNIRemediated, Ends
  <2> QED BY <1>5, <2>1, <2>2 DEF CNIRemediated, CNIOK, RoundOK, workloads, Acting
<1> QED BY <1>1, <1>2, <1>3, <1>4, <1>5

LEMMA CNIStepTypes ==
  ASSUME RemediationInv, CNIStep, UNCHANGED <<dnsVars, npVars>>
  PROVE  RemediationInv'
<1>1. RoundOK /\ CNIOK
  BY DEF RemediationInv
<1>2. /\ CNIOK' /\ left' \in [Troubles -> Nat] /\ agent' \in [Nodes -> AgentPhases]
      /\ pc \in {<<"cni", "check">>, <<"cni", "act">>}
      /\ Healthy("cni") \/ Unhealthy("cni") \/ NeedsRemediation("cni") \/ UNCHANGED round
  <2>1. CASE CNICheck \/ \E what \in {"pods", "pools", "blocks"} : CNICheckBlind(what)
    BY <1>1, <2>1, CNICheckTypes DEF RoundOK
  <2>2. CASE ~(CNICheck \/ \E what \in {"pods", "pools", "blocks"} : CNICheckBlind(what))
    BY <1>1, <2>2, CNIActTypes DEF CNIStep
  <2> QED BY <2>1, <2>2
<1>3. "cni" \in Modules /\ "coredns" \in Modules \ {"cni"} /\ "networkpolicy" \in Modules \ {"cni"}
  BY DEF Modules
<1>4. /\ pc' \in Places /\ unhealthy' \subseteq Modules /\ phase' \in {"Running", "Degraded"}
      /\ Same("coredns") /\ Same("networkpolicy")
  BY <1>1, <1>2, <1>3, ResultPlaces
<1> QED BY <1>2, <1>4, DNSElsewhere, NPElsewhere DEF RemediationInv, RoundOK
-----------------------------------------------------------------------------
(* The coredns module *)

\* Its deployment, which others change too.
DeploymentOK ==
  /\ scaled \in BOOLEAN /\ throttled \in BOOLEAN /\ corefile \in Upstreams
  /\ dns \in [Replicas -> DNSPhases] /\ outdated \subseteq Replicas /\ unapplied \in BOOLEAN

LEMMA RolloutTypes == Rollout => outdated' \subseteq Replicas /\ unapplied' \in BOOLEAN
BY DEF Rollout

LEMMA DNSEvaluateTypes ==
  ASSUME DNSOK, NEW corrupted \in BOOLEAN, NEW crashing \in BOOLEAN, DNSEvaluate(corrupted, crashing)
  PROVE  /\ DNSOK' /\ UNCHANGED agent
         /\ Healthy("coredns") \/ NeedsRemediation("coredns")
<1>1. fix' \in Fixes
  BY DEF DNSEvaluate, DNSChoice, Fixes
<1>2. UNCHANGED <<agent, scaled, corefile, throttled, dns, outdated, unapplied, lastRemediatedAt>>
  BY DEF DNSEvaluate, deployment
<1>3. \/ fix' = "none" /\ Healthy("coredns")
      \/ fix' # "none" /\ NeedsRemediation("coredns")
  BY DEF DNSEvaluate
<1>4. fix' # "none" <=> Acting("coredns")'
  BY <1>3, ResultEnds DEF NeedsRemediation, Acting, Modules
<1> QED BY <1>1, <1>2, <1>3, <1>4 DEF DNSOK

LEMMA DNSCheckTypes ==
  ASSUME RoundOK, DNSOK, DNSCheck \/ \E podsUnseen \in BOOLEAN : DNSCheckBlind(podsUnseen)
  PROVE  /\ DNSOK' /\ left' \in [Troubles -> Nat] /\ UNCHANGED agent
         /\ pc = <<"coredns", "check">>
         /\ Healthy("coredns") \/ NeedsRemediation("coredns")
<1>1. CASE DNSCheck
  <2>1. Corrupted \in BOOLEAN /\ Crashing \in BOOLEAN
    BY DEF Crashing, Corrupted
  <2>2. DNSEvaluate(Corrupted, Crashing)
    BY <1>1 DEF DNSCheck
  <2>3. /\ DNSOK' /\ UNCHANGED agent
        /\ Healthy("coredns") \/ NeedsRemediation("coredns")
    BY <2>1, <2>2, DNSEvaluateTypes
  <2> QED BY <1>1, <2>3 DEF DNSCheck, Checking, RoundOK
<1>2. ASSUME NEW podsUnseen \in BOOLEAN, DNSCheckBlind(podsUnseen)
      PROVE  /\ DNSOK' /\ left' \in [Troubles -> Nat] /\ UNCHANGED agent
             /\ pc = <<"coredns", "check">>
             /\ Healthy("coredns") \/ NeedsRemediation("coredns")
  <2>1. /\ (podsUnseen /\ Corrupted) \in BOOLEAN
        /\ (~podsUnseen /\ Crashing) \in BOOLEAN
    BY DEF Crashing, Corrupted
  <2>2. DNSEvaluate(podsUnseen /\ Corrupted, ~podsUnseen /\ Crashing)
    BY <1>2 DEF DNSCheckBlind
  <2>3. /\ DNSOK' /\ UNCHANGED agent
        /\ Healthy("coredns") \/ NeedsRemediation("coredns")
    BY <2>1, <2>2, DNSEvaluateTypes
  <2> QED BY <1>2, <2>3, SpendTypes DEF DNSCheckBlind, Refused, Checking
<1> QED BY <1>1, <1>2

\* Every way in which a remediation ends; RepairConfigMap goes on to its restart.
LEMMA DNSActTypes ==
  ASSUME RoundOK, DNSOK,
         \/ SkipForCooldown \/ ScaleReplicas \/ RepairConfigMap \/ ReloadConfig
         \/ ReloadConfigFails \/ RestoreResources \/ RestartDeployment \/ DNSRemediationFails
  PROVE  /\ DNSOK' /\ left' \in [Troubles -> Nat] /\ UNCHANGED agent
         /\ pc = <<"coredns", "act">>
         /\ Healthy("coredns") \/ Unhealthy("coredns") \/ UNCHANGED round
<1>1. CASE RepairConfigMap
  <2>1. pc = <<"coredns", "act">> /\ pc' = pc
    BY <1>1 DEF RepairConfigMap, Remediates, Acting, round
  <2>2. /\ corefile' \in Upstreams /\ fix' = "reload" /\ fix' \in Fixes /\ unapplied' \in BOOLEAN
        /\ UNCHANGED <<round, agent, left, scaled, throttled, dns, outdated, lastRemediatedAt>>
    BY <1>1 DEF RepairConfigMap, Upstreams, Fixes
  <2> QED BY <2>1, <2>2 DEF DNSOK, RoundOK, Acting
<1>2. CASE ~RepairConfigMap
  <2>1. /\ pc = <<"coredns", "act">> /\ UNCHANGED agent /\ fix' = "none"
        /\ Healthy("coredns") \/ Unhealthy("coredns")
    BY <1>2 DEF SkipForCooldown, ScaleReplicas, ReloadConfig, ReloadConfigFails, RestoreResources,
                RestartDeployment, DNSRemediationFails, Remediates, Remediated, Acting
  <2>2. left' \in [Troubles -> Nat]
    BY <1>2, SpendTypes
    DEF SkipForCooldown, ScaleReplicas, ReloadConfig, ReloadConfigFails, RestoreResources,
        RestartDeployment, DNSRemediationFails, Remediated, Refused, RoundOK
  <2>3. lastRemediatedAt' \in 0..DNSCooldown
    <3>1. lastRemediatedAt' \in {0, lastRemediatedAt}
      BY <1>2 DEF SkipForCooldown, ScaleReplicas, ReloadConfig, ReloadConfigFails, RestoreResources,
                  RestartDeployment, DNSRemediationFails, Remediated
    <3> QED BY <3>1, CooldownAssumption DEF DNSOK
  <2>4. DeploymentOK'
    BY <1>2, RolloutTypes
    DEF SkipForCooldown, ScaleReplicas, ReloadConfig, ReloadConfigFails, RestoreResources,
        RestartDeployment, DNSRemediationFails, deployment, DeploymentOK, DNSOK
  <2>5. ~Acting("coredns")'
    BY <2>1, ResultEnds DEF Modules
  <2> QED BY <2>1, <2>2, <2>3, <2>4, <2>5 DEF DNSOK, DeploymentOK, Fixes
<1> QED BY <1>1, <1>2

LEMMA DNSStepTypes ==
  ASSUME RemediationInv, DNSStep, UNCHANGED <<cniVars, npVars>>
  PROVE  RemediationInv'
<1>1. RoundOK /\ DNSOK
  BY DEF RemediationInv
<1>2. /\ DNSOK' /\ left' \in [Troubles -> Nat] /\ UNCHANGED agent
      /\ pc \in {<<"coredns", "check">>, <<"coredns", "act">>}
      /\ Healthy("coredns") \/ Unhealthy("coredns") \/ NeedsRemediation("coredns") \/ UNCHANGED round
  BY <1>1, DNSCheckTypes, DNSActTypes DEF DNSStep
<1>3. "coredns" \in Modules /\ "cni" \in Modules \ {"coredns"} /\ "networkpolicy" \in Modules \ {"coredns"}
  BY DEF Modules
<1>4. /\ pc' \in Places /\ unhealthy' \subseteq Modules /\ phase' \in {"Running", "Degraded"}
      /\ Same("cni") /\ Same("networkpolicy")
  BY <1>1, <1>2, <1>3, ResultPlaces
<1> QED BY <1>2, <1>4, CNIElsewhere, NPElsewhere DEF RemediationInv, RoundOK

-----------------------------------------------------------------------------
(* The networkpolicy module *)

LEMMA NPStepTypes ==
  ASSUME RemediationInv, NPStep, UNCHANGED <<cniVars, dnsVars>>
  PROVE  RemediationInv'
<1> DEFINE Goal == /\ NPOK' /\ left' \in [Troubles -> Nat] /\ agent' \in [Nodes -> AgentPhases]
                   /\ pc \in {<<"networkpolicy", "check">>, <<"networkpolicy", "act">>}
                   /\ \/ Healthy("networkpolicy") \/ Unhealthy("networkpolicy")
                      \/ NeedsRemediation("networkpolicy") \/ UNCHANGED round
<1>1. RoundOK /\ NPOK
  BY DEF RemediationInv
<1>2. ASSUME NPCheck PROVE Goal
  <2>1. unhealthyFelixPods' \subseteq Nodes
    BY <1>2 DEF NPCheck, BadFelix
  <2>2. unhealthyFelixPods' # {} => Acting("networkpolicy")'
    BY <1>2 DEF NPCheck, NeedsRemediation, Acting
  <2>3. Healthy("networkpolicy") \/ NeedsRemediation("networkpolicy")
    BY <1>2 DEF NPCheck
  <2>4. UNCHANGED <<agent, left, lastFelixRestart>> /\ pc = <<"networkpolicy", "check">>
    BY <1>2 DEF NPCheck, Checking
  <2>5. NPOK'
    BY <1>1, <2>1, <2>2, <2>4 DEF NPOK
  <2> QED BY <1>1, <2>3, <2>4, <2>5 DEF RoundOK
<1>3. ASSUME SkipRestart \/ RestartFails \/ AgentsRestarted PROVE Goal
  <2>1. /\ unhealthyFelixPods' = {} /\ lastFelixRestart' \in {0, lastFelixRestart}
        /\ pc = <<"networkpolicy", "act">> /\ UNCHANGED agent
        /\ Healthy("networkpolicy") \/ Unhealthy("networkpolicy")
    BY <1>3 DEF SkipRestart, RestartFails, AgentsRestarted, Acting
  <2>2. left' \in [Troubles -> Nat]
    BY <1>1, <1>3, SpendTypes DEF SkipRestart, RestartFails, AgentsRestarted, Refused, RoundOK
  <2>3. NPOK'
    BY <1>1, <2>1, FelixAssumption DEF NPOK
  <2> QED BY <1>1, <2>1, <2>2, <2>3 DEF RoundOK
<1>4. ASSUME NEW n \in Nodes, RestartEnforcementAgent(n) PROVE Goal
  <2>1. agent' \in [Nodes -> AgentPhases]
    BY <1>1, <1>4, DeleteTypes DEF RestartEnforcementAgent
  <2>2. Acting("networkpolicy")' /\ Acting("networkpolicy")
    BY <1>4 DEF RestartEnforcementAgent, round, Acting
  <2>3. NPOK'
    BY <1>1, <1>4, <2>2 DEF RestartEnforcementAgent, NPOK
  <2>4. UNCHANGED <<round, left>> /\ pc = <<"networkpolicy", "act">>
    BY <1>4 DEF RestartEnforcementAgent, Acting
  <2> QED BY <1>1, <2>1, <2>3, <2>4 DEF RoundOK
<1>5. Goal
  BY <1>2, <1>3, <1>4 DEF NPStep
<1>6. "networkpolicy" \in Modules /\ "cni" \in Modules \ {"networkpolicy"} /\ "coredns" \in Modules \ {"networkpolicy"}
  BY DEF Modules
<1>7. /\ pc' \in Places /\ unhealthy' \subseteq Modules /\ phase' \in {"Running", "Degraded"}
      /\ Same("cni") /\ Same("coredns")
  BY <1>1, <1>5, <1>6, ResultPlaces
<1> QED BY <1>5, <1>7, CNIElsewhere, DNSElsewhere DEF RemediationInv, RoundOK
-----------------------------------------------------------------------------
(* What happens around the modules *)

LEMMA AgentsTypes == ASSUME RemediationInv, Agents PROVE RemediationInv'
<1>1. RoundOK /\ CNIOK /\ DNSOK /\ NPOK
  BY DEF RemediationInv
<1>2. UNCHANGED <<round, cniVars, dnsVars, npVars>>
  BY DEF Agents, AgentFails, AgentCreated, AgentReady
<1>3. \A m \in Modules : Same(m)
  BY <1>2 DEF Same, Acting, round
<1>4. left' \in [Troubles -> Nat]
  BY <1>1, SpendTypes DEF Agents, AgentFails, AgentCreated, AgentReady, RoundOK
<1>5. agent' \in [Nodes -> AgentPhases]
  BY <1>1 DEF Agents, AgentFails, AgentCreated, AgentReady, RoundOK, AgentPhases
<1>6. RoundOK'
  BY <1>1, <1>2, <1>4, <1>5 DEF RoundOK, round
<1> QED BY <1>1, <1>2, <1>3, <1>6, CNIElsewhere, DNSElsewhere, NPElsewhere DEF RemediationInv, Modules

LEMMA WorkloadTypes ==
  ASSUME RemediationInv, Workload, UNCHANGED <<round, agent, dnsVars, npVars>>
  PROVE  RemediationInv'
<1>1. RoundOK /\ CNIOK /\ DNSOK /\ NPOK
  BY DEF RemediationInv
<1>2. \A m \in Modules : Same(m)
  BY DEF Same, Acting, round
<1>3. left' \in [Troubles -> Nat]
  BY <1>1, SpendTypes
  DEF Workload, PoolDisabled, BlockFills, BlockFrees, PodReplaced, SandboxFails, PodStarts, PodGetsStuck, RoundOK
<1>4. /\ pool' \in {"enabled", "disabled"} /\ exhausted' \in BOOLEAN
      /\ UNCHANGED cniMemory
  BY <1>1 DEF Workload, PoolDisabled, BlockFills, BlockFrees, PodReplaced, SandboxFails, PodStarts,
              PodGetsStuck, PodBecomes, CNIOK
<1>5. pods' \in [Pods -> PodStates]
  <2>1. UNCHANGED pods \/ \E p \in Pods, state \in PodStates : PodBecomes(p, state)
    BY DEF Workload, PoolDisabled, BlockFills, BlockFrees, PodReplaced, SandboxFails, PodStarts,
           PodGetsStuck, PodStates
  <2> QED BY <1>1, <2>1 DEF PodBecomes, CNIOK
<1>6. CNIOK'
  BY <1>1, <1>2, <1>4, <1>5 DEF CNIOK, cniMemory, Same, Modules
<1>7. RoundOK'
  BY <1>1, <1>3 DEF RoundOK, round
<1> QED BY <1>1, <1>2, <1>6, <1>7, DNSElsewhere, NPElsewhere DEF RemediationInv, Modules

LEMMA DNSDeploymentTypes ==
  ASSUME RemediationInv, DNSDeployment, UNCHANGED <<round, agent, cniVars, npVars>>
  PROVE  RemediationInv'
<1>1. RoundOK /\ CNIOK /\ DNSOK /\ NPOK
  BY DEF RemediationInv
<1>2. \A m \in Modules : Same(m)
  BY DEF Same, Acting, round
<1>3. left' \in [Troubles -> Nat]
  BY <1>1, SpendTypes
  DEF DNSDeployment, ScaledDown, CPUCut, CorefileEdited, DNSPodCrashes, DNSPodStarts, DNSPodRestarts,
      RolloutReplaces, RoundOK
<1>4. Loaded \in DNSPhases
  BY <1>1 DEF DNSOK, Loaded, Upstreams, DNSPhases
<1>5. dns' \in [Replicas -> DNSPhases]
  <2>1. \/ UNCHANGED dns
        \/ dns' = [r \in Replicas |-> "none"]
        \/ \E r \in Replicas, state \in {"crashing", Loaded} : DNSPodBecomes(r, state)
    BY DEF DNSDeployment, ScaledDown, CPUCut, CorefileEdited, DNSPodCrashes, DNSPodStarts,
           DNSPodRestarts, RolloutReplaces
  <2> QED BY <1>1, <1>4, <2>1 DEF DNSPodBecomes, DNSOK, DNSPhases
<1>6. outdated' \subseteq Replicas /\ unapplied' \in BOOLEAN
  <2>1. CASE CPUCut
    BY <2>1, RolloutTypes DEF CPUCut
  <2>2. CASE \E upstream \in Upstreams : CorefileEdited(upstream)
    BY <1>1, <2>2 DEF CorefileEdited, DNSOK
  <2>3. CASE \/ ScaledDown
             \/ \E r \in Replicas : DNSPodCrashes(r) \/ DNSPodStarts(r) \/ DNSPodRestarts(r)
                                                     \/ RolloutReplaces(r)
    BY <1>1, <2>3 DEF ScaledDown, DNSPodCrashes, DNSPodStarts, DNSPodRestarts, RolloutReplaces,
                      DNSPodBecomes, DNSOK
  <2> QED BY <2>1, <2>2, <2>3 DEF DNSDeployment
<1>7. /\ scaled' \in BOOLEAN /\ throttled' \in BOOLEAN /\ corefile' \in Upstreams
      /\ UNCHANGED <<fix, lastRemediatedAt>>
  BY <1>1 DEF DNSDeployment, ScaledDown, CPUCut, CorefileEdited, DNSPodCrashes, DNSPodStarts,
              DNSPodRestarts, RolloutReplaces, DNSPodBecomes, DNSOK
<1>8. DNSOK'
  BY <1>1, <1>2, <1>5, <1>6, <1>7 DEF DNSOK, Same, Modules
<1>9. RoundOK'
  BY <1>1, <1>3 DEF RoundOK, round
<1> QED BY <1>1, <1>2, <1>8, <1>9, CNIElsewhere, NPElsewhere DEF RemediationInv, Modules

LEMMA BeginsTypes ==
  ASSUME RoundOK, pc = Idle \/ pc = <<"dispatcher", "status">>, Begins
  PROVE  /\ pc' \in Places /\ unhealthy' \subseteq Modules /\ phase' \in {"Running", "Degraded"}
         /\ \A m \in Modules : Same(m)
<1>1. pc' = <<"cni", "check">> /\ <<"cni", "check">> \in Places
  BY DEF Begins, Places, Modules
<1>2. \A m \in Modules : ~Acting(m) /\ ~Acting(m)'
  BY <1>1 DEF Acting, Idle, Modules
<1> QED BY <1>1, <1>2 DEF Same, Begins, RoundOK

\* A round begins, ends, or is passed over by a check that fails.
LEMMA DispatcherTypes ==
  ASSUME RemediationInv,
         \/ SpecEdited \/ StatusConflict \/ UpdateStatus
         \/ \E m \in Modules : CheckFails(m)
  PROVE  RemediationInv'
<1>1. RoundOK /\ CNIOK /\ DNSOK /\ NPOK
  BY DEF RemediationInv
<1>2. UNCHANGED <<agent, cniVars, dnsVars, npVars>>
  BY DEF SpecEdited, StatusConflict, UpdateStatus, CheckFails
<1>3. left' \in [Troubles -> Nat]
  BY <1>1, SpendTypes DEF SpecEdited, StatusConflict, UpdateStatus, CheckFails, Refused, RoundOK
<1>4. /\ pc' \in Places /\ unhealthy' \subseteq Modules /\ phase' \in {"Running", "Degraded"}
      /\ \A m \in Modules : Same(m)
  <2>1. CASE SpecEdited \/ StatusConflict
    BY <1>1, <2>1, BeginsTypes DEF SpecEdited, StatusConflict
  <2>2. CASE UpdateStatus
    <3>1. pc' = Idle /\ Idle \in Places
      BY <2>2 DEF UpdateStatus, Places
    <3>2. \A m \in Modules : ~Acting(m) /\ ~Acting(m)'
      BY <2>2, <3>1 DEF UpdateStatus, Acting, Idle, Modules
    <3> QED BY <1>1, <2>2, <3>1, <3>2 DEF UpdateStatus, RoundOK, Same
  <2>3. ASSUME NEW m \in Modules, CheckFails(m)
        PROVE  /\ pc' \in Places /\ unhealthy' \subseteq Modules /\ phase' \in {"Running", "Degraded"}
               /\ \A k \in Modules : Same(k)
    <3>1. pc = <<m, "check">> /\ Unhealthy(m)
      BY <2>3 DEF CheckFails, Checking
    <3>2. ~Acting(m) /\ ~Acting(m)'
      BY <3>1, ResultEnds DEF Acting
    <3> QED BY <1>1, <3>1, <3>2, ResultPlaces DEF Same
  <2> QED BY <2>1, <2>2, <2>3
<1>5. RoundOK'
  BY <1>1, <1>2, <1>3, <1>4 DEF RoundOK
<1> QED BY <1>1, <1>2, <1>4, <1>5, CNIElsewhere, DNSElsewhere, NPElsewhere DEF RemediationInv, Modules

\* The ages grow, and stop at their cooldown.
LEMMA RequeueTypes == ASSUME RemediationInv, RequeueAfter PROVE RemediationInv'
<1>1. RoundOK /\ CNIOK /\ DNSOK /\ NPOK
  BY DEF RemediationInv
<1>2. \A limit \in Nat : \A age \in 0..limit : Older(age, limit) \in 0..limit
  BY DEF Older
<1>3. lastRemediatedAt' \in 0..DNSCooldown /\ lastFelixRestart' \in 0..FelixCooldown
  BY <1>1, <1>2, CooldownAssumption, FelixAssumption DEF RequeueAfter, DNSOK, NPOK
<1>4. lastWorkloadEviction' \in [Workloads -> 0..EvictionCooldown]
  BY <1>1, WorkloadsAssumption DEF RequeueAfter, Ages, CNIOK
<1>5. UNCHANGED <<agent, left, workloads, target, lastErr, deployment, fix, unhealthyFelixPods>>
  BY DEF RequeueAfter
<1>6. /\ pc' \in Places /\ unhealthy' \subseteq Modules /\ phase' \in {"Running", "Degraded"}
      /\ Same("cni") /\ Same("coredns") /\ Same("networkpolicy")
  BY <1>1, BeginsTypes DEF RequeueAfter, Modules
<1>7. RoundOK'
  BY <1>1, <1>5, <1>6 DEF RoundOK
<1>8. CNIOK'
  BY <1>1, <1>4, <1>5, <1>6 DEF CNIOK, workloads, Same
<1>9. DNSOK'
  BY <1>1, <1>3, <1>5, <1>6 DEF DNSOK, deployment, Same
<1>10. NPOK'
  BY <1>1, <1>3, <1>5, <1>6 DEF NPOK, Same
<1> QED BY <1>7, <1>8, <1>9, <1>10 DEF RemediationInv

LEMMA RestartTypes == ASSUME RemediationInv, OperatorRestarts PROVE RemediationInv'
<1>1. RoundOK /\ CNIOK /\ DNSOK /\ NPOK
  BY DEF RemediationInv
<1>2. pc' = Idle /\ Idle \in Places /\ \A m \in Modules : ~Acting(m)'
  BY DEF OperatorRestarts, Places, Acting, Idle, Modules
<1>3. RoundOK'
  BY <1>1, <1>2, SpendTypes DEF OperatorRestarts, RoundOK
<1>4. CNIOK'
  <2>1. NoTarget \in TargetRecords
    BY DEF NoTarget, TargetRecords
  <2>2. NeverEvicted \in [Workloads -> 0..EvictionCooldown]
    BY WorkloadsAssumption DEF NeverEvicted
  <2> QED BY <1>1, <2>1, <2>2 DEF OperatorRestarts, CNIOK, workloads
<1>5. DNSOK'
  BY <1>1, <1>2, CooldownAssumption DEF OperatorRestarts, DNSOK, deployment, Fixes, Modules
<1>6. NPOK'
  BY <1>1, FelixAssumption DEF OperatorRestarts, NPOK
<1> QED BY <1>3, <1>4, <1>5, <1>6 DEF RemediationInv

LEMMA RemediationStep == RemediationInv /\ [Next]_vars => RemediationInv'
<1> SUFFICES ASSUME RemediationInv, [Next]_vars PROVE RemediationInv'
  OBVIOUS
<1>1. CASE UNCHANGED vars
  <2>1. UNCHANGED <<pc, unhealthy, phase, agent, left, cniVars, dnsVars, npVars>>
    BY <1>1 DEF vars, round
  <2>2. RoundOK' /\ \A m \in Modules : Same(m)
    BY <2>1 DEF RemediationInv, RoundOK, Same, Acting
  <2> QED BY <2>1, <2>2, CNIElsewhere, DNSElsewhere, NPElsewhere DEF RemediationInv, Modules
<1>2. CASE Reconcile
  BY <1>2, RequeueTypes, DispatcherTypes, CNIStepTypes, DNSStepTypes, NPStepTypes DEF Reconcile
<1> QED BY <1>1, <1>2, RestartTypes, AgentsTypes, WorkloadTypes, DNSDeploymentTypes DEF Next

\* What each module remembers keeps its type and lasts no longer than its
\* remediation: a target, an error or a list of pods of one round is never acted on
\* in another, whatever fails, whenever the operator restarts and however the other
\* modules and the cluster change things meanwhile; no cooldown counts past its end.
THEOREM RemediationTypes == Spec => []TypeOK
BY RemediationInit, RemediationStep, PartsAreTypes, PTL DEF Spec
=============================================================================
