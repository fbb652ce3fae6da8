---------------------------- MODULE HealthAgents ----------------------------
(***************************************************************************)
(* The health agents of operator/internal/controller/cniresilience/        *)
(* healthagent.  An agent on every node probes its peers along a rotating  *)
(* ring, smooths the results and publishes them in an annotation of its    *)
(* Node (daemon.go); the operator concludes from all annotations which     *)
(* node is broken, which link is broken and which node works (agent.go).   *)
(*                                                                         *)
(* Only the primary path is modelled: the backup path is probed, smoothed, *)
(* published and classified by the same code on separate data.             *)
(*                                                                         *)
(* The round number comes from the clock and a slow agent skips rounds,    *)
(* so an agent may take any of its offsets next.                           *)
(***************************************************************************)
EXTENDS Integers, FiniteSets

CONSTANTS
  Nodes,      \* the nodes of the cluster, as numbers: names are sorted
  Threshold,  \* spec.failureThreshold
  Faults,     \* the sets of links that can be down together
  MayStop     \* the nodes whose agent pod may stop and start again

ASSUME NodesAssumption == Nodes \subseteq Nat /\ IsFiniteSet(Nodes)

Links == UNION {{{a, b} : b \in Nodes \ {a}} : a \in Nodes}

ASSUME FaultsAssumption == \A f \in Faults : f \subseteq Links

ASSUME ThresholdAssumption == Threshold \in Nat \ {0}

VARIABLES
  fault,    \* the links that are down
  running,  \* the nodes whose agent pod is Running
  streaks,  \* streaks[a][b]: Daemon.primary of the agent on a
  reports,  \* reports[a][b]: Report.Peers in the annotation of a
  fresh     \* the nodes whose report is younger than SilentAfterSeconds

vars == <<fault, running, streaks, reports, fresh>>

Streaks == [known : BOOLEAN, healthy : BOOLEAN, run : 0..(Threshold - 1)]

\* A peer that is not in the map yet; a new streak starts out healthy.
Unprobed == [known |-> FALSE, healthy |-> TRUE, run |-> 0]

Init ==
  /\ fault \in Faults
  /\ running = Nodes
  /\ streaks = [a \in Nodes |-> [b \in Nodes |-> Unprobed]]
  /\ reports = [a \in Nodes |-> [b \in Nodes |-> "none"]]
  /\ fresh = {}

-----------------------------------------------------------------------------
(* The agent *)

Index(a) == Cardinality({b \in running : b < a})

\* RingTarget, for all offsets: the peers at most half the ring ahead of a.
RingTargets(a) ==
  LET n == Cardinality(running)
  IN {b \in running : (Index(b) - Index(a)) % n \in 1..(n \div 2)}

\* As observe, but the run is not reset when the streak flips.
observeKeepingRun(s, ok) ==
  [known   |-> TRUE,
   healthy |-> IF ok # s.healthy /\ s.run + 1 >= Threshold THEN ok ELSE s.healthy,
   run     |-> IF ok # s.healthy THEN s.run + 1 ELSE 0]

\* As observe, but only a failing streak can flip.
observeFailuresOnly(s, ok) ==
  [known   |-> TRUE,
   healthy |-> s.healthy /\ (ok \/ s.run + 1 < Threshold),
   run     |-> IF ok # s.healthy /\ s.run + 1 < Threshold THEN s.run + 1 ELSE 0]

\* A streak flips after Threshold results in a row that contradict it.
observe(s, ok) ==
  [known   |-> TRUE,
   healthy |-> IF ok # s.healthy /\ s.run + 1 >= Threshold THEN ok ELSE s.healthy,
   run     |-> IF ok # s.healthy /\ s.run + 1 < Threshold THEN s.run + 1 ELSE 0]

Observed(a, b) == [streaks EXCEPT ![a][b] = observe(@, {a, b} \notin fault)]

\* publish: the report carries the state of every streak in the map.
Publish(a) ==
  /\ reports' = [reports EXCEPT ![a] = [b \in Nodes |->
       IF ~streaks'[a][b].known THEN "none"
       ELSE IF streaks'[a][b].healthy THEN "ok" ELSE "fail"]]
  /\ fresh' = fresh \cup {a}

\* A round: one probe, one report.
Probe(a, b) ==
  /\ a \in running /\ b \in RingTargets(a)
  /\ streaks' = Observed(a, b)
  /\ Publish(a)
  /\ UNCHANGED <<fault, running>>

\* A round whose report could not be written.
ProbeUnpublished(a, b) ==
  /\ a \in running /\ b \in RingTargets(a)
  /\ streaks' = Observed(a, b)
  /\ UNCHANGED <<fault, running, reports, fresh>>

\* A round that finds nobody to probe, or could not list the pods.
PublishOnly(a) ==
  /\ a \in running
  /\ UNCHANGED <<fault, running, streaks>>
  /\ Publish(a)

\* The pod of the agent goes away, and with it the agent's memory.
AgentStops(a) ==
  /\ a \in running \cap MayStop
  /\ running' = running \ {a}
  /\ streaks' = [streaks EXCEPT ![a] = [b \in Nodes |-> Unprobed]]
  /\ UNCHANGED <<fault, reports, fresh>>

AgentStarts(a) ==
  /\ a \notin running
  /\ running' = running \cup {a}
  /\ UNCHANGED <<fault, streaks, reports, fresh>>

\* An agent that runs renews its report well before it counts as silent.
ReportAges(a) ==
  /\ a \in fresh \ running
  /\ fresh' = fresh \ {a}
  /\ UNCHANGED <<fault, running, streaks, reports>>

FaultChanges ==
  /\ fault' \in Faults \ {fault}
  /\ UNCHANGED <<running, streaks, reports, fresh>>

Next ==
  \/ \E a, b \in Nodes : Probe(a, b) \/ ProbeUnpublished(a, b)
  \/ \E a \in Nodes : PublishOnly(a) \/ AgentStops(a) \/ AgentStarts(a) \/ ReportAges(a)
  \/ FaultChanges

Spec == Init /\ [][Next]_vars

\* Every agent that runs keeps probing every peer that is ahead of it.
FairSpec == Spec /\ \A a, b \in Nodes : WF_vars(Probe(a, b))

-----------------------------------------------------------------------------
(* What the operator concludes (ReadNodeHealth, Classify) *)

\* The directed probe results in the reports that are not silent.
Edges == {e \in fresh \X Nodes : reports[e[1]][e[2]] # "none"}
Worked(e) == reports[e[1]][e[2]] = "ok"

Into(n) == {e \in Edges : e[2] = n}
OutOf(n) == {e \in Edges : e[1] = n}
Touching(n) == Into(n) \cup OutOf(n)

AllFailed(es) == es # {} /\ \A e \in es : ~Worked(e)

\* As BrokenNodes, but the node's own view is not asked for.
BrokenByPeers ==
  {n \in Nodes : /\ AllFailed(Into(n))
                 /\ \E e \in Edges \ Touching(n) : Worked(e)}

BrokenNodes ==
  {n \in Nodes : /\ AllFailed(Into(n))
                 /\ AllFailed(OutOf(n)) \/ n \notin fresh
                 /\ \E e \in Edges \ Touching(n) : Worked(e)}

SeenWorking(n) == \E e \in Touching(n) : Worked(e)

\* As Unexplained, but a broken node explains only the probes into it.
UnexplainedInto == {e \in Edges : ~Worked(e) /\ e[2] \notin BrokenNodes}

\* The failures that no broken node explains.
Unexplained ==
  {e \in Edges : ~Worked(e) /\ e[1] \notin BrokenNodes /\ e[2] \notin BrokenNodes}

BrokenLinks ==
  {{e[1], e[2]} : e \in {d \in Unexplained : SeenWorking(d[1]) /\ SeenWorking(d[2])}}

\* As Ambiguous, but every failure no broken node explains counts.
AmbiguousIfUnexplained == Unexplained # {}

Ambiguous == \E e \in Unexplained : ~SeenWorking(e[1]) \/ ~SeenWorking(e[2])

Measured(n) == Touching(n) # {}

Working(n) == Measured(n) /\ ~Ambiguous /\ \A e \in Touching(n) : Worked(e)

-----------------------------------------------------------------------------
(* Properties *)

LinksOf(n) == {l \in Links : n \in l}

\* Every variable keeps its type.
TypeOK ==
  /\ fault \in Faults
  /\ running \in SUBSET Nodes
  /\ streaks \in [Nodes -> [Nodes -> Streaks]]
  /\ reports \in [Nodes -> [Nodes -> {"none", "ok", "fail"}]]
  /\ fresh \in SUBSET Nodes

\* Every agent that runs has reported on every peer it probes.
SweepReported ==
  \A a \in running : a \in fresh /\ \A b \in RingTargets(a) : reports[a][b] # "none"

\* When every fault there ever is touches one node, BrokenNodes names no other
\* node whose agent runs, once a sweep has been reported and whatever mixture of
\* old and new results the reports hold while links fail and return and the
\* agent of that node comes and goes.
OnlyTheFaultyIsBlamed ==
  SweepReported =>
    \A n \in BrokenNodes \cap running, f \in Faults : \A l \in f : n \in l

\* A node that stays cut off is eventually named, and nothing else is.
BrokenNodeIsFound ==
  \A n \in Nodes :
    <>[](fault = LinksOf(n) /\ running = Nodes)
      => <>[](BrokenNodes = {n} /\ BrokenLinks = {} /\ ~Ambiguous)

\* A single link that stays broken is eventually named and no node is blamed.
BrokenLinkIsFound ==
  \A l \in Links :
    <>[](fault = {l} /\ running = Nodes)
      => <>[](BrokenNodes = {} /\ BrokenLinks = {l} /\ ~Ambiguous)

\* Once every path works for good, every node is eventually reported working,
\* which is what the controller waits for before it fails back.
PathsHeal ==
  <>[](fault = {} /\ running = Nodes) => <>[](\A n \in Nodes : Working(n))
=============================================================================
