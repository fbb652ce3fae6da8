------------------------- MODULE NetworkPolicyModule -------------------------
(***************************************************************************)
(* The networkpolicy module (operator/internal/controller/networkpolicy):  *)
(* it deletes the calico-node pods that do not enforce policies as they    *)
(* should, once in a cooldown.  autoHeal is on.                            *)
(***************************************************************************)
EXTENDS RemediationRound

CONSTANT FelixCooldown     \* cooldownSeconds, in rounds
ASSUME FelixAssumption == FelixCooldown \in Nat

VARIABLES
  unhealthyFelixPods,   \* ActionData, less what was deleted of it
  lastFelixRestart      \* rounds since then, up to the cooldown

npVars == <<unhealthyFelixPods, lastFelixRestart>>

NPInit == unhealthyFelixPods = {} /\ lastFelixRestart = FelixCooldown

\* As BadFelix, but a pod that is ready is good.
BadFelixUnready == {n \in Nodes : InKubeSystem /\ agent[n] \in {"starting", "failing"}}

\* Not running, not ready, or ready after too many restarts.  Check lists the pods
\* of kube-system only.
BadFelix == {n \in Nodes : InKubeSystem /\ agent[n] \in {"starting", "failing", "worn"}}

NPCheck ==
  /\ Checking("networkpolicy")
  /\ unhealthyFelixPods' = BadFelix
  /\ IF BadFelix = {} THEN Healthy("networkpolicy") ELSE NeedsRemediation("networkpolicy")
  /\ UNCHANGED <<agent, left, lastFelixRestart>>

FelixCooling == lastFelixRestart < FelixCooldown

SkipRestart ==
  /\ Acting("networkpolicy") /\ FelixCooling
  /\ unhealthyFelixPods' = {}
  /\ Healthy("networkpolicy")
  /\ UNCHANGED <<agent, left, lastFelixRestart>>

\* A pod that is gone by now is passed over.
RestartEnforcementAgent(n) ==
  /\ Acting("networkpolicy") /\ ~FelixCooling /\ n \in unhealthyFelixPods
  /\ DeleteAgent(n)
  /\ unhealthyFelixPods' = unhealthyFelixPods \ {n}
  /\ UNCHANGED <<round, left, lastFelixRestart>>

\* The first failure ends the remediation, and no cooldown begins.
RestartFails ==
  /\ Acting("networkpolicy") /\ ~FelixCooling /\ unhealthyFelixPods # {} /\ Refused
  /\ unhealthyFelixPods' = {}
  /\ Unhealthy("networkpolicy")
  /\ UNCHANGED <<agent, lastFelixRestart>>

AgentsRestarted ==
  /\ Acting("networkpolicy") /\ ~FelixCooling /\ unhealthyFelixPods = {}
  /\ lastFelixRestart' = 0
  /\ Healthy("networkpolicy")
  /\ UNCHANGED <<agent, left, unhealthyFelixPods>>

NPStep ==
  \/ NPCheck \/ SkipRestart
  \/ \E n \in Nodes : RestartEnforcementAgent(n)
  \/ RestartFails \/ AgentsRestarted
=============================================================================
