--------------------------- MODULE PodConnectivity ---------------------------
(***************************************************************************)
(* The pod connectivity module of the network remediation operator         *)
(* (operator/internal/controller/podconnectivity): the ring of probes      *)
(* between the canary pods, the triangulation that names a faulty node and *)
(* the remediator that restarts its CNI pod, isolates it or drains it.     *)
(*                                                                         *)
(* One round of the dispatcher is a Check, an Evaluate and a Remediate.    *)
(* Check takes two steps, the probes of each node and the probes of the    *)
(* ring, between which the network and the pods may change.  A round whose *)
(* listing fails changes nothing and is left out.  Nodes are numbers: the  *)
(* ring follows their order, as it follows that of the names in the code.  *)
(***************************************************************************)
EXTENDS Integers, FiniteSets

CONSTANTS
  Nodes,
  Threshold,       \* consecutiveFailureThreshold
  MaxRestarts,     \* maxRestartAttempts
  EscalateAfter,   \* escalateAfterFailedRestarts
  Limits           \* bounds: how often a fault begins, a canary is lost and the
                   \* operator restarts, one record for each mix to explore

ASSUME NodesAssumption == Nodes \subseteq Nat /\ IsFiniteSet(Nodes)
ASSUME PolicyAssumption ==
  {Threshold, MaxRestarts, EscalateAfter} \subseteq Nat \ {0}
Troubles == {"faults", "losses", "crashes"}
ASSUME LimitsAssumption == Limits \subseteq [Troubles -> Nat]

NoNode == -1

\* What can be wrong with a node: its canary cannot be reached from itself; no
\* peer reaches it; it reaches no peer; it reaches nothing at all; it is dead.
Faults == {"none", "local", "ingress", "overlay", "egress", "dark"}
\* Those a fresh CNI pod may repair.
Curable == {"local", "ingress", "overlay"}

VARIABLES
  fault,       \* fault[n]: what is wrong with node n
  cut,         \* ordered pairs of nodes between which nothing passes
  canary,      \* nodes with a running pod in the target namespace
  agents,      \* nodes with a CNI pod
  isolated,    \* nodes tainted and cordoned by the remediator
  draining,    \* DrainNode is permitted by the policy
  pc, seen,    \* the round in progress and what its first probes found
  consecutiveFailures, latestDecision, RestartAttempts,
  tries,       \* history: CNI pods deleted on n, counted up to the limits
  hasEgress,   \* history: nodes diagnosed with NodeEgressDead
  evicted,     \* history: nodes drained
  left         \* how often each kind of trouble may still happen

network == <<fault, cut>>
cluster == <<canary, agents, isolated, draining>>
memory == <<consecutiveFailures, latestDecision, RestartAttempts>>
history == <<tries, hasEgress, evicted>>
vars == <<network, cluster, pc, seen, memory, history, left>>

-----------------------------------------------------------------------------
(* BuildRingTopology *)

After(n) == {m \in Nodes : m > n}
Least(S) == CHOOSE m \in S : \A o \in S : m <= o
Greatest(S) == CHOOSE m \in S : \A o \in S : o <= m

Succ(n) == Least(IF After(n) # {} THEN After(n) ELSE Nodes)
Pred(n) == LET before == {m \in Nodes : m < n}
           IN  Greatest(IF before # {} THEN before ELSE Nodes)

Forward == {<<n, Succ(n)>> : n \in Nodes}
Reverse == {<<n, Pred(n)>> : n \in Nodes}

\* As RingEdges, but three nodes are not enough for the reverse edges.
RingEdgesFromFour ==
  IF Cardinality(Nodes) < 2 THEN {}
  ELSE IF Cardinality(Nodes) <= 3 THEN Forward ELSE Forward \cup Reverse

RingEdges ==
  IF Cardinality(Nodes) < 2 THEN {}
  ELSE IF Cardinality(Nodes) < 3 THEN Forward ELSE Forward \cup Reverse

\* The edge that is probed first: by source, forward before reverse.
FirstOf(edges) ==
  {e \in edges : \A o \in edges : e[1] < o[1] \/ (e[1] = o[1] /\ (e = o \/ e \in Forward))}

-----------------------------------------------------------------------------
(* Triangulate *)

Healthy == [type |-> "None", node |-> NoNode, action |-> "none"]
Blame(t, n, a) == [type |-> t, node |-> n, action |-> a]

Into(n, edges) == {e \in edges : e[2] = n}
OutOf(n, edges) == {e \in edges : e[1] = n}

\* Nodes all of whose incoming, all of whose outgoing probes failed.
Deaf(probed, failed) ==
  {n \in Nodes : Into(n, probed) # {} /\ Into(n, probed) \subseteq failed}
Mute(probed, failed) ==
  {n \in Nodes : OutOf(n, probed) # {} /\ OutOf(n, probed) \subseteq failed}

Egress(n, anchored) ==
  IF n \in anchored THEN Blame("TunnelCrash", n, "cni_restart")
                    ELSE Blame("NodeEgressDead", n, "node_isolation")

\* The diagnoses the maps' iteration orders allow.
Triangulate(badLocal, probed, failed, anchored) ==
  LET reaching == anchored \cup {e[1] : e \in probed \ failed}
      deaf == Deaf(probed, failed)
      mute == Mute(probed, failed)
  IN  IF badLocal \cap reaching # {}
        THEN {Blame("LocalCNI", n, "cni_restart") : n \in badLocal \cap reaching}
      ELSE IF failed = {} THEN {Healthy}
      ELSE IF deaf # {} THEN {Blame("NodeIngressDead", n, "cni_restart") : n \in deaf}
      ELSE IF mute # {} THEN {Egress(n, anchored) : n \in mute}
      ELSE {Blame("AsymmetricPathFailure", e[2], "cni_restart") : e \in FirstOf(failed)}

-----------------------------------------------------------------------------
(* The network, as the probes see it *)

LocalOK(n) == fault[n] \notin {"local", "dark"}
AnchorOK(n) == fault[n] \notin {"egress", "dark"}
EdgeOK(e) == /\ fault[e[1]] \notin {"overlay", "egress", "dark"}
             /\ fault[e[2]] \notin {"ingress", "dark"}
             /\ e \notin cut
             /\ {e[1], e[2]} \subseteq canary

Faulty == {n \in Nodes : fault[n] # "none"}
Quiet == Faulty = {} /\ cut = {}

Nothing == [pods |-> {}, badLocal |-> {}, anchored |-> {}, network |-> <<>>]

Init ==
  /\ fault = [n \in Nodes |-> "none"] /\ cut = {}
  /\ canary = Nodes /\ agents = Nodes /\ isolated = {}
  /\ draining \in BOOLEAN
  /\ pc = "idle" /\ seen = Nothing
  /\ consecutiveFailures = 0
  /\ latestDecision = Healthy
  /\ RestartAttempts = [n \in Nodes |-> 0]
  /\ tries = [n \in Nodes |-> 0]
  /\ hasEgress = {} /\ evicted = {}
  /\ left \in Limits

Spend(kind) == left[kind] > 0 /\ left' = [left EXCEPT ![kind] = @ - 1]

FaultBegins(n, f) ==
  /\ Spend("faults") /\ f # "none" /\ Quiet
  /\ fault' = [fault EXCEPT ![n] = f]
  /\ UNCHANGED <<cut, cluster, pc, seen, memory, history>>

PathBreaks(e) ==
  /\ Spend("faults") /\ Quiet
  /\ cut' = {e}
  /\ UNCHANGED <<fault, cluster, pc, seen, memory, history>>

FaultEnds ==
  /\ ~Quiet
  /\ fault' = [n \in Nodes |-> "none"] /\ cut' = {}
  /\ UNCHANGED <<cluster, pc, seen, memory, history, left>>

CanaryStarts(n) ==
  /\ n \notin canary \cup isolated
  /\ canary' = canary \cup {n}
  /\ UNCHANGED <<network, agents, isolated, draining, pc, seen, memory, history, left>>

CanaryStops(n) ==
  /\ Spend("losses") /\ n \in canary
  /\ canary' = canary \ {n}
  /\ UNCHANGED <<network, agents, isolated, draining, pc, seen, memory, history>>

\* The DaemonSet recreates the pod, which may repair the node it starts on.
AgentStarts(n, cures) ==
  /\ n \notin agents
  /\ agents' = agents \cup {n}
  /\ IF cures /\ fault[n] \in Curable \cup {"none"}
       THEN /\ fault' = [fault EXCEPT ![n] = "none"]
            /\ cut' = {e \in cut : n \notin {e[1], e[2]}}
       ELSE UNCHANGED <<fault, cut>>
  /\ UNCHANGED <<canary, isolated, draining, pc, seen, memory, history, left>>

-----------------------------------------------------------------------------
(* Check and Evaluate *)

CheckNodes ==
  /\ pc = "idle"
  /\ pc' = "ring"
  /\ seen' = [pods |-> canary,
              badLocal |-> {n \in canary : ~LocalOK(n)},
              anchored |-> {n \in canary : AnchorOK(n)},
              network |-> <<fault, cut>>]
  /\ UNCHANGED <<network, cluster, memory, history, left>>

\* ResetNodeHistory.  Evaluate names the node of the decision it has just taken, and
\* a healthy decision names none, so that no count is ever cleared.
ResetNodeHistory(n) == [m \in Nodes |-> IF m = n THEN 0 ELSE RestartAttempts[m]]

Evaluate(decision) ==
  IF decision = Healthy
    THEN /\ consecutiveFailures' = 0
         /\ RestartAttempts' = ResetNodeHistory(decision.node)
         /\ pc' = "idle"
    ELSE /\ consecutiveFailures' =
              IF consecutiveFailures < Threshold THEN consecutiveFailures + 1 ELSE Threshold
         /\ pc' = IF consecutiveFailures' >= Threshold THEN "remediate" ELSE "idle"
         /\ UNCHANGED RestartAttempts

CheckRing ==
  /\ pc = "ring"
  /\ LET probed == {e \in RingEdges : {e[1], e[2]} \subseteq seen.pods}
     IN  \E decision \in Triangulate(seen.badLocal, probed,
                           {e \in probed : ~EdgeOK(e)}, seen.anchored) :
           /\ latestDecision' = decision
           /\ hasEgress' = IF decision.action = "node_isolation"
                             THEN hasEgress \cup {decision.node} ELSE hasEgress
           /\ Evaluate(decision)
  /\ seen' = Nothing
  /\ UNCHANGED <<network, cluster, tries, evicted, left>>

-----------------------------------------------------------------------------
(* Remediate: ExecuteRemediation on the node of the latest decision *)

Blamed == latestDecision.node
Attempts == RestartAttempts[Blamed]

\* As MustDrain and MustIsolate, one restart too early, or too late.
MustDrainEarly == Attempts + 1 >= EscalateAfter /\ draining

MustIsolateEarly ==
  ~(Attempts >= EscalateAfter /\ draining)
    /\ (latestDecision.action = "node_isolation" \/ Attempts + 1 >= MaxRestarts)

MustIsolateLate ==
  ~(Attempts >= EscalateAfter /\ draining)
    /\ (latestDecision.action = "node_isolation" \/ Attempts > MaxRestarts)

MustDrain == Attempts >= EscalateAfter /\ draining

MustIsolate ==
  /\ ~MustDrain
  /\ latestDecision.action = "node_isolation" \/ Attempts >= MaxRestarts

MustRestart == ~MustDrain /\ ~MustIsolate

\* An error leaves consecutiveFailures as it is.
Ends(success) ==
  /\ pc = "remediate" /\ pc' = "idle"
  /\ consecutiveFailures' = IF success THEN 0 ELSE consecutiveFailures
  /\ UNCHANGED <<network, draining, seen, latestDecision, hasEgress, left>>

\* IsolateNode, whose error is ignored here, then DrainNode, which passes over a
\* pod that cannot be deleted.
Drain(isolates, deletes) ==
  /\ Ends(TRUE) /\ MustDrain
  /\ isolated' = IF isolates THEN isolated \cup {Blamed} ELSE isolated
  /\ canary' = IF deletes THEN canary \ {Blamed} ELSE canary
  /\ evicted' = evicted \cup {Blamed}
  /\ UNCHANGED <<agents, RestartAttempts, tries>>

Isolate ==
  /\ Ends(TRUE) /\ MustIsolate
  /\ isolated' = isolated \cup {Blamed}
  /\ UNCHANGED <<canary, agents, RestartAttempts, tries, evicted>>

CountTo(limit, f) == [f EXCEPT ![Blamed] = IF @ < limit THEN @ + 1 ELSE @]
Enough == IF EscalateAfter < MaxRestarts THEN EscalateAfter ELSE MaxRestarts

\* As RestartCNIPod, but the attempt is not counted.
RestartCNIPodUncounted ==
  /\ Ends(TRUE) /\ MustRestart /\ Blamed \in agents
  /\ agents' = agents \ {Blamed}
  /\ UNCHANGED <<canary, isolated, evicted, RestartAttempts, tries>>

RestartCNIPod ==
  /\ Ends(TRUE) /\ MustRestart /\ Blamed \in agents
  /\ agents' = agents \ {Blamed}
  /\ RestartAttempts' = [RestartAttempts EXCEPT ![Blamed] = Attempts + 1]
  /\ tries' = CountTo(EscalateAfter, tries)
  /\ UNCHANGED <<canary, isolated, evicted>>

Remediate ==
  \/ \E isolates, deletes \in BOOLEAN : Drain(isolates, deletes)
  \/ Isolate
  \/ RestartCNIPod

\* A listing, a patch or the deletion of the CNI pod fails, or the node has no
\* CNI pod.  A drain isolates the node before it lists the pods.
RemediationFails(isolates) ==
  /\ Ends(FALSE)
  /\ isolated' = IF isolates /\ MustDrain THEN isolated \cup {Blamed} ELSE isolated
  /\ UNCHANGED <<canary, agents, RestartAttempts, tries, evicted>>

OperatorRestarts ==
  /\ Spend("crashes")
  /\ pc' = "idle" /\ seen' = Nothing
  /\ consecutiveFailures' = 0 /\ latestDecision' = Healthy
  /\ RestartAttempts' = [n \in Nodes |-> 0]
  /\ UNCHANGED <<network, cluster, history>>

Next ==
  \/ \E n \in Nodes :
       \/ \E f \in Faults : FaultBegins(n, f)
       \/ CanaryStarts(n) \/ CanaryStops(n)
       \/ \E cures \in BOOLEAN : AgentStarts(n, cures)
  \/ \E e \in RingEdges : PathBreaks(e)
  \/ FaultEnds
  \/ CheckNodes \/ CheckRing \/ Remediate
  \/ \E isolates \in BOOLEAN : RemediationFails(isolates)
  \/ OperatorRestarts

Spec == Init /\ [][Next]_vars

\* The dispatcher runs the next round after requeueInterval, the API does not
\* refuse every remediation, and the DaemonSet controller recreates CNI pods.
Round ==
  \/ CheckNodes \/ CheckRing \/ Remediate
  \/ \E isolates \in BOOLEAN : RemediationFails(isolates)

Fairness ==
  /\ WF_vars(Round) /\ SF_vars(Remediate)
  /\ \A n \in Nodes : WF_vars(\E cures \in BOOLEAN : AgentStarts(n, cures))

FairSpec == Spec /\ Fairness

-----------------------------------------------------------------------------

Decisions ==
  {Healthy}
    \cup [type : {"LocalCNI", "NodeIngressDead", "TunnelCrash", "AsymmetricPathFailure"},
          node : Nodes, action : {"cni_restart"}]
    \cup [type : {"NodeEgressDead"}, node : Nodes, action : {"node_isolation"}]

TypeOK ==
  /\ fault \in [Nodes -> Faults] /\ cut \subseteq Nodes \X Nodes
  /\ canary \subseteq Nodes /\ agents \subseteq Nodes /\ isolated \subseteq Nodes
  /\ draining \in BOOLEAN
  /\ pc \in {"idle", "ring", "remediate"}
  /\ {seen.pods, seen.badLocal, seen.anchored} \subseteq SUBSET Nodes
  /\ consecutiveFailures \in 0..Threshold
  /\ latestDecision \in Decisions
  /\ pc = "remediate" => latestDecision # Healthy
  /\ RestartAttempts \in [Nodes -> 0..MaxRestarts]
  /\ tries \in [Nodes -> 0..EscalateAfter]
  /\ hasEgress \subseteq Nodes /\ evicted \subseteq Nodes
  /\ left \in [Troubles -> Nat]

\* A drained node was not cured by as many restarts of its CNI pod as the policy
\* asks for, however often the operator lost count (ExecuteRemediation's escalation).
EvictedHadRestarts == \A n \in evicted : tries[n] >= EscalateAfter

\* A node is tainted and cordoned only when it was diagnosed to reach nothing at
\* all, or after its restarts: no other diagnosis isolates it directly, and none
\* isolates another node.
IsolatedForCause ==
  \A n \in isolated : n \in hasEgress \/ tries[n] >= Enough

\* A round that found a canary on every node and one network under all its probes.
WholeView == seen.pods = Nodes /\ canary = Nodes /\ seen.network = <<fault, cut>>

\* The name Triangulate has for what is wrong with a node.  One that reaches nothing
\* and that nobody reaches is not told from one that nobody reaches.
Symptom(f) ==
  CASE f = "local" -> "LocalCNI"
    [] f \in {"ingress", "dark"} -> "NodeIngressDead"
    [] f = "overlay" -> "TunnelCrash"
    [] OTHER -> "NodeEgressDead"

Names(decision) ==
  /\ Quiet => decision = Healthy
  /\ \A n \in Faulty : decision.node = n /\ decision.type = Symptom(fault[n])
  /\ \A e \in cut : decision.node = e[2] /\ decision.type = "AsymmetricPathFailure"

\* A round with a whole view of the ring tells apart a quiet network, each kind of
\* faulty node and a broken path, and blames that node or the target of that path:
\* the order of Triangulate's tests never lets the neighbours of a faulty node, or
\* another failure, take the blame.
DiagnosisIsRight == [][CheckRing /\ WholeView => Names(latestDecision')]_vars

\* A node that stays faulty is in the end isolated or drained: neither the shared
\* streak nor restarts that cure nothing keep the remediator from escalating.
OneFaultyNode == Cardinality(Faulty) = 1 /\ canary = Nodes

PersistentFaultIsContained ==
  <>[]OneFaultyNode => []<>(Faulty \subseteq isolated \cup evicted)
=============================================================================
