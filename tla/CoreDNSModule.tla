---------------------------- MODULE CoreDNSModule ----------------------------
(***************************************************************************)
(* The coredns module (operator/internal/controller/coredns): it scales    *)
(* the CoreDNS Deployment up again, repairs the forward directive of its   *)
(* Corefile, restores its CPU and restarts it when pods crash, at most one *)
(* of these in a cooldown.                                                 *)
(*                                                                         *)
(* The Deployment exists: a missing one is reported and left alone.  The   *)
(* latency read from Prometheus, which asks for the CPU to be restored as  *)
(* a small CPU does, is left out.                                          *)
(***************************************************************************)
EXTENDS RemediationRound

CONSTANTS
  Replicas,        \* the expected replicas
  DNSCooldown      \* the cooldown window, in rounds

ASSUME CooldownAssumption == DNSCooldown \in Nat

VARIABLES
  scaled,     \* the Deployment asks for its replicas, and not for none
  corefile,   \* where the Corefile forwards to
  throttled,  \* the Deployment's CPU is tiny
  dns,        \* dns[r]: the CoreDNS pod r
  outdated,   \* pods of an older template, which the rollout will replace
  unapplied,  \* history: the Corefile was mended and no rollout began since
  fix,        \* ActionType
  lastRemediatedAt   \* rounds since then, up to the cooldown

deployment == <<scaled, corefile, throttled, dns, outdated, unapplied>>
dnsVars == <<deployment, fix, lastRemediatedAt>>

\* A good upstream; two that do not answer, one of which is among the prefixes that
\* checkConfigMap takes for corrupted; and the server itself, which is too, and at
\* which CoreDNS stops with a loop detected.
Upstreams == {"good", "unreachable", "unlisted", "loop"}
Corrupted == corefile \in {"unreachable", "loop"}

\* A pod without container, crash looping, or serving with a good or a bad Corefile.
DNSPhases == {"none", "crashing", "good", "unreachable"}
Loaded == CASE corefile = "good" -> "good"
            [] corefile = "loop" -> "crashing"
            [] OTHER -> "unreachable"

Serving == {r \in Replicas : dns[r] \in {"good", "unreachable"}}

DNSInit ==
  /\ scaled = TRUE /\ corefile = "good" /\ throttled = FALSE
  /\ dns = [r \in Replicas |-> "good"] /\ outdated = {} /\ unapplied = FALSE
  /\ fix = "none" /\ lastRemediatedAt = DNSCooldown

-----------------------------------------------------------------------------
(* The cluster *)

ScaledDown ==
  /\ Spend("dns") /\ scaled /\ scaled' = FALSE
  /\ dns' = [r \in Replicas |-> "none"] /\ outdated' = {}
  /\ UNCHANGED <<corefile, throttled, unapplied, fix, lastRemediatedAt>>

CorefileEdited(upstream) ==
  /\ Spend("dns") /\ corefile' = upstream /\ corefile # upstream
  /\ unapplied' = (unapplied \/ upstream = "good")
  /\ UNCHANGED <<scaled, throttled, dns, outdated, fix, lastRemediatedAt>>

\* Everything that runs is of an older template now.
Rollout == /\ outdated' = IF scaled THEN Replicas ELSE {}
           /\ unapplied' = FALSE

CPUCut ==
  /\ Spend("dns") /\ ~throttled /\ throttled' = TRUE
  /\ Rollout
  /\ UNCHANGED <<scaled, corefile, dns, fix, lastRemediatedAt>>

DNSPodBecomes(r, state) ==
  /\ dns' = [dns EXCEPT ![r] = state]
  /\ UNCHANGED <<scaled, corefile, throttled, unapplied, fix, lastRemediatedAt>>

DNSPodCrashes(r) ==
  /\ Spend("dns") /\ r \in Serving
  /\ DNSPodBecomes(r, "crashing") /\ UNCHANGED outdated

\* The container of a new pod, or one that crashed, starts and reads the Corefile.
DNSPodStarts(r) ==
  /\ scaled /\ dns[r] = "none"
  /\ DNSPodBecomes(r, Loaded) /\ UNCHANGED <<outdated, left>>

DNSPodRestarts(r) ==
  /\ dns[r] = "crashing" /\ Loaded # "crashing"
  /\ DNSPodBecomes(r, Loaded) /\ UNCHANGED <<outdated, left>>

\* A serving pod is only replaced while the others serve.
RolloutReplaces(r) ==
  /\ r \in outdated
  /\ r \in Serving => Replicas \ {r} \subseteq Serving
  /\ DNSPodBecomes(r, Loaded) /\ outdated' = outdated \ {r}
  /\ UNCHANGED left

-----------------------------------------------------------------------------
(* Check and Evaluate *)

\* As DNSChoice, but the Deployment is scaled when it is only degraded.
DNSChoiceDegraded(corrupted, crashing) ==
  IF ~scaled \/ Serving # Replicas THEN "scale"
  ELSE IF corrupted THEN "repair"
  ELSE IF throttled THEN "restore"
  ELSE IF crashing THEN "restart"
  ELSE "none"

\* The first of the scenarios, in the order in which Evaluate goes through them.
DNSChoice(corrupted, crashing) ==
  IF ~scaled \/ Serving = {} THEN "scale"
  ELSE IF corrupted THEN "repair"
  ELSE IF throttled THEN "restore"
  ELSE IF crashing THEN "restart"
  ELSE "none"

DNSEvaluate(corrupted, crashing) ==
  /\ fix' = DNSChoice(corrupted, crashing)
  /\ IF fix' = "none" THEN Healthy("coredns") ELSE NeedsRemediation("coredns")
  /\ UNCHANGED <<agent, deployment, lastRemediatedAt>>

Crashing == \E r \in Replicas : dns[r] = "crashing"

DNSCheck ==
  /\ Checking("coredns")
  /\ DNSEvaluate(Corrupted, Crashing)
  /\ UNCHANGED left

\* The pods or the ConfigMap cannot be read: the check goes on without them.
DNSCheckBlind(podsUnseen) ==
  /\ Checking("coredns") /\ Refused
  /\ DNSEvaluate(podsUnseen /\ Corrupted, ~podsUnseen /\ Crashing)

-----------------------------------------------------------------------------
(* Remediate *)

Cooling == lastRemediatedAt < DNSCooldown

\* A remediation is done: it counts for the cooldown, and for healthy.
Remediated ==
  /\ fix' = "none" /\ lastRemediatedAt' = 0
  /\ Healthy("coredns") /\ UNCHANGED <<agent, left>>

\* A skipped one counts for healthy too.
SkipForCooldown ==
  /\ Acting("coredns") /\ Cooling /\ fix # "reload"
  /\ fix' = "none"
  /\ Healthy("coredns")
  /\ UNCHANGED <<agent, left, deployment, lastRemediatedAt>>

Remediates(action) == Acting("coredns") /\ ~Cooling /\ fix = action

ScaleReplicas ==
  /\ Remediates("scale") /\ Remediated
  /\ scaled' = TRUE
  /\ UNCHANGED <<corefile, throttled, dns, outdated, unapplied>>

\* remediateRepairConfigMap writes the ConfigMap, then restarts the Deployment.
RepairConfigMap ==
  /\ Remediates("repair")
  /\ corefile' = "good" /\ fix' = "reload" /\ unapplied' = TRUE
  /\ UNCHANGED <<round, agent, left, scaled, throttled, dns, outdated, lastRemediatedAt>>

ReloadConfig ==
  /\ Acting("coredns") /\ fix = "reload" /\ Remediated
  /\ Rollout
  /\ UNCHANGED <<scaled, corefile, throttled, dns>>

\* Whether the Deployment could be restarted makes no difference to the result.
ReloadConfigFails ==
  /\ Acting("coredns") /\ fix = "reload" /\ Refused
  /\ fix' = "none" /\ lastRemediatedAt' = 0
  /\ Healthy("coredns")
  /\ UNCHANGED <<agent, deployment>>

RestoreResources ==
  /\ Remediates("restore") /\ Remediated
  /\ throttled' = FALSE /\ Rollout
  /\ UNCHANGED <<scaled, corefile, dns>>

RestartDeployment ==
  /\ Remediates("restart") /\ Remediated
  /\ Rollout
  /\ UNCHANGED <<scaled, corefile, throttled, dns>>

DNSRemediationFails ==
  /\ Acting("coredns") /\ ~Cooling /\ fix # "reload" /\ Refused
  /\ fix' = "none"
  /\ Unhealthy("coredns")
  /\ UNCHANGED <<agent, deployment, lastRemediatedAt>>

DNSStep ==
  \/ DNSCheck \/ \E podsUnseen \in BOOLEAN : DNSCheckBlind(podsUnseen)
  \/ SkipForCooldown \/ ScaleReplicas \/ RepairConfigMap \/ ReloadConfig
  \/ ReloadConfigFails \/ RestoreResources \/ RestartDeployment \/ DNSRemediationFails

DNSDeployment ==
  \/ ScaledDown \/ CPUCut
  \/ \E upstream \in Upstreams : CorefileEdited(upstream)
  \/ \E r \in Replicas :
       DNSPodCrashes(r) \/ DNSPodStarts(r) \/ DNSPodRestarts(r) \/ RolloutReplaces(r)
=============================================================================
