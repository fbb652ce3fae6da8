------------------------- MODULE HealthAgentsProofs -------------------------
(* Theorems about HealthAgents, for every cluster, threshold and set of       *)
(* faults.                                                                    *)
EXTENDS HealthAgents, FiniteSetTheorems, TLAPS

-----------------------------------------------------------------------------
(* Types *)

\* observe keeps the run below the threshold.
LEMMA ObserveType ==
  ASSUME NEW s \in Streaks, NEW ok \in BOOLEAN
  PROVE  observe(s, ok) \in Streaks
BY ThresholdAssumption DEF observe, Streaks

\* A probe changes one streak of one agent.
LEMMA ObservedType ==
  ASSUME TypeOK, NEW a \in Nodes, NEW b \in Nodes
  PROVE  /\ Observed(a, b) \in [Nodes -> [Nodes -> Streaks]]
         /\ \A n, m \in Nodes :
              Observed(a, b)[n][m] = IF n = a /\ m = b
                                       THEN observe(streaks[a][b], {a, b} \notin fault)
                                       ELSE streaks[n][m]
<1>1. observe(streaks[a][b], {a, b} \notin fault) \in Streaks
  BY ObserveType DEF TypeOK
<1> QED BY <1>1 DEF Observed, TypeOK

\* Publish writes the report of one agent.
LEMMA PublishType ==
  ASSUME TypeOK, NEW a \in Nodes, Publish(a)
  PROVE  /\ reports' \in [Nodes -> [Nodes -> {"none", "ok", "fail"}]]
         /\ fresh' \in SUBSET Nodes
         /\ \A n, m \in Nodes :
              /\ n # a => reports'[n][m] = reports[n][m]
              /\ reports'[a][m] = IF ~streaks'[a][m].known THEN "none"
                                  ELSE IF streaks'[a][m].healthy THEN "ok" ELSE "fail"
BY DEF Publish, TypeOK

\* The agents start with empty maps.
LEMMA TypesInit == Init => TypeOK
BY ThresholdAssumption DEF Init, TypeOK, Streaks, Unprobed

\* Every step keeps the types.
LEMMA TypesStep == TypeOK /\ [Next]_vars => TypeOK'
<1> SUFFICES ASSUME TypeOK, [Next]_vars PROVE TypeOK'
  OBVIOUS
<1>1. ASSUME NEW a \in Nodes, NEW b \in Nodes, Probe(a, b) PROVE TypeOK'
  BY <1>1, ObservedType, PublishType DEF Probe, TypeOK
<1>2. ASSUME NEW a \in Nodes, NEW b \in Nodes, ProbeUnpublished(a, b) PROVE TypeOK'
  BY <1>2, ObservedType DEF ProbeUnpublished, TypeOK
<1>3. ASSUME NEW a \in Nodes, PublishOnly(a) PROVE TypeOK'
  BY <1>3, PublishType DEF PublishOnly, TypeOK
<1>4. ASSUME NEW a \in Nodes, AgentStops(a) PROVE TypeOK'
  <2>1. Unprobed \in Streaks
    BY ThresholdAssumption DEF Unprobed, Streaks
  <2> QED BY <1>4, <2>1 DEF AgentStops, TypeOK
<1>5. ASSUME NEW a \in Nodes, AgentStarts(a) PROVE TypeOK'
  BY <1>5 DEF AgentStarts, TypeOK
<1>6. ASSUME NEW a \in Nodes, ReportAges(a) PROVE TypeOK'
  BY <1>6 DEF ReportAges, TypeOK
<1>7. CASE FaultChanges
  BY <1>7 DEF FaultChanges, TypeOK
<1>8. CASE UNCHANGED vars
  BY <1>8 DEF vars, TypeOK
<1> QED BY <1>1, <1>2, <1>3, <1>4, <1>5, <1>6, <1>7, <1>8 DEF Next

\* Whatever fails, no streak runs past the threshold and no report holds anything
\* but a result.
THEOREM AgentTypes == Spec => []TypeOK
<1> QED BY TypesInit, TypesStep, PTL DEF Spec

-----------------------------------------------------------------------------
(* The ring *)

\* Index numbers the running agents in order, from zero.
LEMMA IndexType ==
  ASSUME running \in SUBSET Nodes, NEW a \in running
  PROVE  /\ Index(a) \in Nat /\ Cardinality(running) \in Nat
         /\ Index(a) < Cardinality(running)
         /\ \A b \in running : a < b => Index(a) < Index(b)
<1> DEFINE below(n) == {b \in running : b < n}
<1>1. /\ running \in SUBSET Nat /\ IsFiniteSet(running)
      /\ \A n : IsFiniteSet(below(n)) /\ below(n) \in SUBSET running
  BY NodesAssumption, FS_Subset
<1>2. \A n : Cardinality(below(n)) \in Nat /\ Cardinality(below(n)) <= Cardinality(running)
  BY <1>1, FS_Subset, FS_CardinalityType
<1>3. Cardinality(running) \in Nat
  BY <1>1, FS_CardinalityType
<1>4. below(a) # running
  BY <1>1
<1>5. Cardinality(below(a)) # Cardinality(running)
  <2> HIDE DEF below
  <2> QED BY <1>1, <1>4, FS_Subset
<1>6. ASSUME NEW b \in running, a < b
      PROVE  Cardinality(below(a)) < Cardinality(below(b))
  <2>1. below(a) \in SUBSET below(b) /\ below(b) # below(a)
    <3>1. a \in below(b) /\ a \notin below(a)
      BY <1>1, <1>6
    <3>2. \A k \in running : k < a => k < b
      BY <1>1, <1>6
    <3> QED BY <3>1, <3>2
  <2> HIDE DEF below
  <2>2. /\ Cardinality(below(a)) <= Cardinality(below(b))
        /\ Cardinality(below(b)) # Cardinality(below(a))
    BY <1>1, <2>1, FS_Subset
  <2> QED BY <1>2, <2>2
<1>7. \A n : Index(n) = Cardinality(below(n))
  BY DEF Index
<1> HIDE DEF below
<1> QED BY <1>2, <1>3, <1>5, <1>6, <1>7

\* One of two places on a ring is at most half the ring ahead of the other.
LEMMA HalfTheRing ==
  ASSUME NEW N \in Nat, NEW i \in Nat, NEW j \in Nat, i < j, j < N
  PROVE  (j - i) % N \in 1..(N \div 2) \/ (i - j) % N \in 1..(N \div 2)
<1>1. /\ (j - i) % N = j - i
      /\ (i - j) % N = N - (j - i)
  OBVIOUS
<1>2. j - i <= N \div 2 \/ N - (j - i) <= N \div 2
  OBVIOUS
<1> QED BY <1>1, <1>2

\* Of two running agents one probes the other, and no agent probes itself.
LEMMA RingCoversPairs ==
  ASSUME running \in SUBSET Nodes, NEW a \in running
  PROVE  /\ a \notin RingTargets(a)
         /\ \A b \in running \ {a} : b \in RingTargets(a) \/ a \in RingTargets(b)
<1> DEFINE N == Cardinality(running)
<1>1. N \in Nat /\ \A b \in running : Index(b) \in Nat /\ Index(b) < N
  BY IndexType
<1>2. a \notin RingTargets(a)
  <2>1. (Index(a) - Index(a)) % N = 0
    BY <1>1
  <2> QED BY <2>1 DEF RingTargets
<1>3. ASSUME NEW b \in running, b # a
      PROVE  b \in RingTargets(a) \/ a \in RingTargets(b)
  <2>1. a < b \/ b < a
    BY <1>3, NodesAssumption
  <2>2. Index(a) < Index(b) \/ Index(b) < Index(a)
    BY <2>1, IndexType
  <2>3. \/ (Index(b) - Index(a)) % N \in 1..(N \div 2)
        \/ (Index(a) - Index(b)) % N \in 1..(N \div 2)
    BY <1>1, <2>2, HalfTheRing
  <2> QED BY <2>3 DEF RingTargets
<1> QED BY <1>2, <1>3

-----------------------------------------------------------------------------
(* Blame *)

\* While every fault touches c and only the agent of c stops: the other agents
\* run, the streak of a pair without c never starts to flip, and a report of a
\* failure is of a pair with c.
OnlyPairsFail(c) ==
  /\ TypeOK
  /\ Nodes \ {c} \subseteq running
  /\ \A a, b \in Nodes : c \notin {a, b} => streaks[a][b].healthy /\ streaks[a][b].run = 0
  /\ \A a, b \in Nodes : reports[a][b] = "fail" => c \in {a, b}
  /\ \A a \in Nodes : ~streaks[a][a].known /\ reports[a][a] = "none"

\* At the start every streak is new and no report holds a result.
LEMMA OnlyPairsFailInit ==
  ASSUME NEW c \in Nodes, Init
  PROVE  OnlyPairsFail(c)
BY TypesInit DEF Init, OnlyPairsFail, Unprobed

\* A probe between two other nodes succeeds, and the streak stays as it is.
LEMMA ProbeOfOthersSucceeds ==
  ASSUME NEW c \in Nodes, \A f \in Faults : \A l \in f : c \in l,
         OnlyPairsFail(c), NEW a \in running, NEW b \in RingTargets(a)
  PROVE  /\ a \in Nodes /\ b \in Nodes /\ a # b
         /\ c \notin {a, b} =>
              LET s == observe(streaks[a][b], {a, b} \notin fault)
              IN  s.healthy /\ s.run = 0
<1>1. a \in Nodes /\ b \in Nodes /\ a # b
  <2>1. running \in SUBSET Nodes /\ RingTargets(a) \in SUBSET running
    BY DEF OnlyPairsFail, TypeOK, RingTargets
  <2> QED BY <2>1, RingCoversPairs
<1>2. c \notin {a, b} => {a, b} \notin fault
  BY DEF OnlyPairsFail, TypeOK
<1>3. c \notin {a, b} => streaks[a][b].healthy = TRUE
  BY <1>1 DEF OnlyPairsFail, TypeOK, Streaks
<1> QED BY <1>1, <1>2, <1>3 DEF observe

\* A probe keeps the streaks of the pairs without c.
LEMMA StreaksKeep ==
  ASSUME NEW c \in Nodes, \A f \in Faults : \A l \in f : c \in l,
         OnlyPairsFail(c), NEW a \in running, NEW b \in RingTargets(a),
         streaks' = Observed(a, b)
  PROVE  /\ \A n, m \in Nodes : c \notin {n, m} => streaks'[n][m].healthy /\ streaks'[n][m].run = 0
         /\ \A n \in Nodes : ~streaks'[n][n].known
<1>1. /\ a \in Nodes /\ b \in Nodes /\ a # b
      /\ c \notin {a, b} =>
              LET s == observe(streaks[a][b], {a, b} \notin fault)
              IN  s.healthy /\ s.run = 0
  BY ProbeOfOthersSucceeds
<1> DEFINE s == observe(streaks[a][b], {a, b} \notin fault)
<1>2. \A n, m \in Nodes : streaks'[n][m] = IF n = a /\ m = b THEN s ELSE streaks[n][m]
  BY <1>1, ObservedType DEF OnlyPairsFail
<1>3. c \notin {a, b} => s.healthy /\ s.run = 0
  BY <1>1
<1> HIDE DEF s
<1>4. ASSUME NEW n \in Nodes, NEW m \in Nodes, c \notin {n, m}
      PROVE  streaks'[n][m].healthy /\ streaks'[n][m].run = 0
  <2>1. CASE n = a /\ m = b
    BY <1>2, <1>3, <1>4, <2>1
  <2>2. CASE ~(n = a /\ m = b)
    BY <1>2, <1>4, <2>2 DEF OnlyPairsFail
  <2> QED BY <2>1, <2>2
<1>5. ASSUME NEW n \in Nodes PROVE ~streaks'[n][n].known
  BY <1>1, <1>2 DEF OnlyPairsFail
<1> QED BY <1>4, <1>5

\* A report shows the streaks.
LEMMA ReportsKeep ==
  ASSUME NEW c \in Nodes, OnlyPairsFail(c), NEW a \in Nodes, Publish(a),
         \A n, m \in Nodes : c \notin {n, m} => streaks'[n][m].healthy,
         \A n \in Nodes : ~streaks'[n][n].known
  PROVE  /\ \A n, m \in Nodes : reports'[n][m] = "fail" => c \in {n, m}
         /\ \A n \in Nodes : reports'[n][n] = "none"
<1>1. \A n, m \in Nodes :
        /\ n # a => reports'[n][m] = reports[n][m]
        /\ reports'[a][m] = IF ~streaks'[a][m].known THEN "none"
                            ELSE IF streaks'[a][m].healthy THEN "ok" ELSE "fail"
  BY PublishType DEF OnlyPairsFail
<1> QED BY <1>1 DEF OnlyPairsFail

\* Every step of an agent, of a link or of a report keeps it so.
LEMMA OnlyPairsFailStep ==
  ASSUME NEW c \in Nodes, \A f \in Faults : \A l \in f : c \in l, MayStop \subseteq {c},
         OnlyPairsFail(c), [Next]_vars
  PROVE  OnlyPairsFail(c)'
<1>0. TypeOK'
  BY TypesStep DEF OnlyPairsFail
<1>1. ASSUME NEW a \in Nodes, NEW b \in Nodes, Probe(a, b) PROVE OnlyPairsFail(c)'
  <2>1. /\ a \in running /\ b \in RingTargets(a)
        /\ streaks' = Observed(a, b) /\ Publish(a) /\ UNCHANGED running
    BY <1>1 DEF Probe
  <2>2. /\ \A n, m \in Nodes : c \notin {n, m} => streaks'[n][m].healthy /\ streaks'[n][m].run = 0
        /\ \A n \in Nodes : ~streaks'[n][n].known
    BY <2>1, StreaksKeep
  <2>3. /\ \A n, m \in Nodes : reports'[n][m] = "fail" => c \in {n, m}
        /\ \A n \in Nodes : reports'[n][n] = "none"
    BY <2>1, <2>2, ReportsKeep
  <2> QED BY <1>0, <2>1, <2>2, <2>3 DEF OnlyPairsFail
<1>2. ASSUME NEW a \in Nodes, NEW b \in Nodes, ProbeUnpublished(a, b)
      PROVE  OnlyPairsFail(c)'
  <2>1. /\ a \in running /\ b \in RingTargets(a)
        /\ streaks' = Observed(a, b) /\ UNCHANGED <<running, reports>>
    BY <1>2 DEF ProbeUnpublished
  <2>2. /\ \A n, m \in Nodes : c \notin {n, m} => streaks'[n][m].healthy /\ streaks'[n][m].run = 0
        /\ \A n \in Nodes : ~streaks'[n][n].known
    BY <2>1, StreaksKeep
  <2> QED BY <1>0, <2>1, <2>2 DEF OnlyPairsFail
<1>3. ASSUME NEW a \in Nodes, PublishOnly(a) PROVE OnlyPairsFail(c)'
  <2>1. Publish(a) /\ UNCHANGED <<running, streaks>>
    BY <1>3 DEF PublishOnly
  <2>2. /\ \A n, m \in Nodes : c \notin {n, m} => streaks'[n][m].healthy
        /\ \A n \in Nodes : ~streaks'[n][n].known
    BY <2>1 DEF OnlyPairsFail
  <2>3. /\ \A n, m \in Nodes : reports'[n][m] = "fail" => c \in {n, m}
        /\ \A n \in Nodes : reports'[n][n] = "none"
    BY <2>1, <2>2, ReportsKeep
  <2> QED BY <1>0, <2>1, <2>3 DEF OnlyPairsFail
<1>4. ASSUME NEW a \in Nodes, AgentStops(a) PROVE OnlyPairsFail(c)'
  <2>1. \A n, m \in Nodes : streaks'[n][m] = IF n = a THEN Unprobed ELSE streaks[n][m]
    BY <1>4 DEF AgentStops, OnlyPairsFail, TypeOK
  <2>2. a = c /\ running' = running \ {a} /\ UNCHANGED reports
    BY <1>4 DEF AgentStops
  <2> QED BY <1>0, <2>1, <2>2 DEF OnlyPairsFail, Unprobed
<1>5. ASSUME NEW a \in Nodes, AgentStarts(a) PROVE OnlyPairsFail(c)'
  BY <1>0, <1>5 DEF AgentStarts, OnlyPairsFail
<1>6. ASSUME NEW a \in Nodes, ReportAges(a) PROVE OnlyPairsFail(c)'
  BY <1>0, <1>6 DEF ReportAges, OnlyPairsFail
<1>7. CASE FaultChanges
  BY <1>0, <1>7 DEF FaultChanges, OnlyPairsFail
<1>8. CASE UNCHANGED vars
  BY <1>0, <1>8 DEF vars, OnlyPairsFail
<1> QED BY <1>1, <1>2, <1>3, <1>4, <1>5, <1>6, <1>7, <1>8 DEF Next

\* A running node other than c is reported working by, or reports working, every
\* third node; without a third node there is no other result to clear it with.
LEMMA OthersAreNotBroken ==
  ASSUME NEW c \in Nodes, OnlyPairsFail(c), SweepReported,
         NEW n \in BrokenNodes, n \in running, n # c
  PROVE  FALSE
<1>1. /\ n \in Nodes /\ n \in fresh /\ running \in SUBSET Nodes /\ fresh \in SUBSET Nodes
      /\ AllFailed(Into(n)) /\ AllFailed(OutOf(n))
      /\ \E e \in Edges \ Touching(n) : Worked(e)
  BY DEF BrokenNodes, SweepReported, OnlyPairsFail, TypeOK
<1>2. PICK e \in Edges \ Touching(n) : Worked(e)
  BY <1>1
<1>3. e[1] \in Nodes /\ e[2] \in Nodes /\ e[1] # n /\ e[2] # n /\ e[1] # e[2]
  BY <1>1, <1>2 DEF Edges, Touching, Into, OutOf, Worked, OnlyPairsFail
<1>4. PICK d \in Nodes : d # n /\ d # c
  BY <1>3
<1>5. d \in running /\ d \in fresh
  BY <1>4 DEF OnlyPairsFail, SweepReported
<1>6. ASSUME NEW a \in Nodes, NEW b \in Nodes, a \in running, b \in RingTargets(a), c \notin {a, b}
      PROVE  <<a, b>> \in Edges /\ Worked(<<a, b>>)
  <2>1. a \in fresh /\ reports[a][b] # "none"
    BY <1>6 DEF SweepReported
  <2>2. reports[a][b] = "ok"
    BY <1>6, <2>1 DEF OnlyPairsFail, TypeOK
  <2> QED BY <2>1, <2>2 DEF Edges, Worked
<1>7. CASE d \in RingTargets(n)
  <2>1. <<n, d>> \in Edges /\ Worked(<<n, d>>)
    BY <1>1, <1>4, <1>6, <1>7
  <2> QED BY <1>1, <2>1 DEF AllFailed, OutOf
<1>8. CASE n \in RingTargets(d)
  <2>1. <<d, n>> \in Edges /\ Worked(<<d, n>>)
    BY <1>1, <1>4, <1>5, <1>6, <1>8
  <2> QED BY <1>1, <2>1 DEF AllFailed, Into
<1> QED BY <1>1, <1>4, <1>5, <1>7, <1>8, RingCoversPairs

\* For every cluster, threshold and set of faults that all touch one node, while
\* only that node's agent may stop: once a sweep has been reported BrokenNodes
\* blames no other running node, whatever mixture of old and new results the
\* annotations hold and wherever each agent is in its rotation.
THEOREM NobodyElseIsBlamed ==
  ASSUME NEW c \in Nodes, \A f \in Faults : \A l \in f : c \in l, MayStop \subseteq {c}
  PROVE  Spec => []OnlyTheFaultyIsBlamed
<1>1. Init => OnlyPairsFail(c)
  BY OnlyPairsFailInit
<1>2. OnlyPairsFail(c) /\ [Next]_vars => OnlyPairsFail(c)'
  BY OnlyPairsFailStep
<1>3. OnlyPairsFail(c) => OnlyTheFaultyIsBlamed
  BY OthersAreNotBroken DEF OnlyTheFaultyIsBlamed
<1> QED BY <1>1, <1>2, <1>3, PTL DEF Spec
=============================================================================
