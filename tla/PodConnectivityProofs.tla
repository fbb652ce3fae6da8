----------------------- MODULE PodConnectivityProofs -----------------------
(* Theorems about PodConnectivity, for every set of nodes and every policy.  *)
EXTENDS PodConnectivity, FiniteSetTheorems, WellFoundedInduction, TLAPS

-----------------------------------------------------------------------------
(* BuildRingTopology *)

\* Every nonempty set of numbers has a least element.
LEMMA LeastNatural ==
  ASSUME NEW T \in SUBSET Nat, T # {}
  PROVE  \E m \in T : \A k \in T : m <= k
<1> DEFINE R == {ss \in Nat \X Nat : ss[1] < ss[2]}
<1>1. R = OpToRel(<, Nat)
  BY Zenon DEF OpToRel
<1>2. IsWellFoundedOn(R, Nat)
  BY <1>1, NatLessThanWellFounded
<1> HIDE DEF R
<1>3. PICK m \in T : \A k \in T : ~(<<k, m>> \in R)
  BY <1>2, WFMin
<1>4. ASSUME NEW k \in T, k < m PROVE FALSE
  <2>1. k \in Nat /\ m \in Nat
    OBVIOUS
  <2>2. <<k, m>> \in R
    BY <1>4, <2>1 DEF R
  <2> QED BY <1>3, <2>2
<1> QED BY <1>4


\* Least and Greatest find what they look for.
LEMMA LeastIsLeast ==
  ASSUME NEW S \in SUBSET Nodes, S # {}
  PROVE  Least(S) \in S /\ \A o \in S : Least(S) <= o
<1>1. S \in SUBSET Nat
  BY NodesAssumption
<1>2. \E m \in S : \A o \in S : m <= o
  BY <1>1, LeastNatural
<1> QED BY <1>2 DEF Least

\* A finite set of numbers has a greatest: the one with the fewest above it.
LEMMA GreatestIsGreatest ==
  ASSUME NEW S \in SUBSET Nodes, S # {}
  PROVE  Greatest(S) \in S /\ \A o \in S : o <= Greatest(S)
<1> DEFINE Above(m) == {k \in S : k > m}
           Counts == {Cardinality(Above(m)) : m \in S}
<1>1. S \in SUBSET Nat /\ IsFiniteSet(S)
  BY NodesAssumption, FS_Subset
<1>2. \A m \in S : IsFiniteSet(Above(m)) /\ Cardinality(Above(m)) \in Nat
  BY <1>1, FS_Subset, FS_CardinalityType
<1>3. Counts \in SUBSET Nat /\ Counts # {}
  BY <1>2
<1>4. PICK m \in S : \A c \in Counts : Cardinality(Above(m)) <= c
  <2> HIDE DEF Counts
  <2>1. \E c \in Counts : \A d \in Counts : c <= d
    BY <1>3, LeastNatural
  <2> QED BY <2>1 DEF Counts
<1>5. ASSUME NEW o \in S, o > m PROVE FALSE
  <2>1. Above(o) \subseteq Above(m) /\ o \in Above(m) /\ o \notin Above(o)
    <3>1. o \in Nat /\ m \in Nat /\ \A k \in S : k \in Nat
      BY <1>1
    <3>2. \A k \in S : k > o => k > m
      BY <1>5, <3>1
    <3>3. ~(o > o)
      BY <3>1
    <3> QED BY <1>5, <3>2, <3>3
  <2>2. Cardinality(Above(m)) <= Cardinality(Above(o))
    BY <1>4
  <2>3. /\ IsFiniteSet(Above(m))
        /\ Cardinality(Above(o)) \in Nat /\ Cardinality(Above(m)) \in Nat
    BY <1>2
  <2> HIDE DEF Above
  <2>4. Above(o) \in SUBSET Above(m) /\ Above(m) # Above(o)
    BY <2>1
  <2>5. /\ Cardinality(Above(o)) <= Cardinality(Above(m))
        /\ Cardinality(Above(m)) # Cardinality(Above(o))
    BY <2>3, <2>4, FS_Subset
  <2> QED BY <2>2, <2>3, <2>5
<1>6. \E g \in S : \A o \in S : o <= g
  BY <1>1, <1>5
<1> QED BY <1>6 DEF Greatest

\* Succ is the next node in the order, or the first after the last.
LEMMA SuccIsNext ==
  ASSUME NEW n \in Nodes
  PROVE  /\ Succ(n) \in Nodes
         /\ (\E m \in Nodes : m > n) => Succ(n) > n /\ \A o \in Nodes : o > n => Succ(n) <= o
         /\ ~(\E m \in Nodes : m > n) => \A o \in Nodes : Succ(n) <= o
<1>1. CASE After(n) # {}
  <2>1. Succ(n) = Least(After(n)) /\ After(n) \in SUBSET Nodes
    BY <1>1 DEF Succ, After
  <2>2. Succ(n) \in After(n) /\ \A o \in After(n) : Succ(n) <= o
    BY <1>1, <2>1, LeastIsLeast
  <2> QED BY <2>2 DEF After
<1>2. CASE After(n) = {}
  <2>1. Succ(n) = Least(Nodes)
    BY <1>2 DEF Succ
  <2> QED BY <1>2, <2>1, LeastIsLeast DEF After
<1> QED BY <1>1, <1>2

\* Pred is the node before in the order, or the last before the first.
LEMMA PredIsPrevious ==
  ASSUME NEW n \in Nodes
  PROVE  /\ Pred(n) \in Nodes
         /\ (\E m \in Nodes : m < n) => Pred(n) < n /\ \A o \in Nodes : o < n => o <= Pred(n)
         /\ ~(\E m \in Nodes : m < n) => \A o \in Nodes : o <= Pred(n)
<1> DEFINE before == {m \in Nodes : m < n}
<1>1. CASE before # {}
  <2>1. Pred(n) = Greatest(before) /\ before \in SUBSET Nodes
    BY <1>1 DEF Pred
  <2>2. Pred(n) \in before /\ \A o \in before : o <= Pred(n)
    BY <1>1, <2>1, GreatestIsGreatest
  <2> QED BY <2>2
<1>2. CASE before = {}
  <2>1. Pred(n) = Greatest(Nodes)
    BY <1>2 DEF Pred
  <2> QED BY <1>2, <2>1, GreatestIsGreatest
<1> QED BY <1>1, <1>2

\* The ring closes: the neighbours of a node have it as their neighbour.
LEMMA RingCloses ==
  ASSUME NEW n \in Nodes
  PROVE  Pred(Succ(n)) = n /\ Succ(Pred(n)) = n
<1> DEFINE s == Succ(n)
           p == Pred(n)
<1>1. s \in Nodes /\ p \in Nodes /\ Pred(s) \in Nodes /\ Succ(p) \in Nodes
  BY SuccIsNext, PredIsPrevious
<1>2. \A m \in Nodes : m \in Nat
  BY NodesAssumption
<1>3. Pred(s) = n
  BY <1>1, <1>2, SuccIsNext, PredIsPrevious
<1>4. Succ(p) = n
  BY <1>1, <1>2, SuccIsNext, PredIsPrevious
<1> QED BY <1>3, <1>4

\* With three nodes or more, every node has two neighbours.
LEMMA TwoNeighbours ==
  ASSUME Cardinality(Nodes) >= 3, NEW n \in Nodes
  PROVE  Succ(n) # n /\ Pred(n) # n /\ Succ(n) # Pred(n)
<1>1. ASSUME NEW a \in Nodes, NEW b \in Nodes PROVE \E c \in Nodes : c # a /\ c # b
  <2>1. Cardinality({a}) = 1 /\ IsFiniteSet({a})
    BY FS_Singleton
  <2>2. Cardinality({a} \cup {b}) = 1 \/ Cardinality({a} \cup {b}) = 2
    BY <2>1, FS_AddElement
  <2>3. Nodes # {a} \cup {b}
    BY <2>2
  <2> QED BY <2>3
<1>2. PICK a \in Nodes : a # n
  BY <1>1
<1>3. PICK b \in Nodes : b # n /\ b # a
  BY <1>1
<1>4. /\ Succ(n) \in Nodes /\ Pred(n) \in Nodes
      /\ \A m \in Nodes : m \in Nat
  BY SuccIsNext, PredIsPrevious, NodesAssumption
<1>5. Succ(n) # n
  BY <1>2, <1>4, SuccIsNext
<1>6. Pred(n) # n
  BY <1>2, <1>4, PredIsPrevious
<1>7. Succ(n) # Pred(n)
  BY <1>2, <1>3, <1>4, SuccIsNext, PredIsPrevious
<1> QED BY <1>5, <1>6, <1>7

\* An edge of the ring is a pair of nodes.
LEMMA RingEdgeType ==
  ASSUME NEW e \in RingEdges
  PROVE  e \in Nodes \X Nodes /\ e = <<e[1], e[2]>>
<1>1. e \in Forward \cup Reverse
  BY DEF RingEdges
<1> QED BY <1>1, SuccIsNext, PredIsPrevious DEF Forward, Reverse

-----------------------------------------------------------------------------
(* Triangulate *)

Kinds == [type : {"LocalCNI", "NodeIngressDead", "TunnelCrash", "AsymmetricPathFailure"},
          node : Nodes, action : {"cni_restart"}]
Egresses == [type : {"NodeEgressDead"}, node : Nodes, action : {"node_isolation"}]

LEMMA BlameType ==
  ASSUME NEW n \in Nodes,
         NEW t \in {"LocalCNI", "NodeIngressDead", "TunnelCrash", "AsymmetricPathFailure"}
  PROVE  Blame(t, n, "cni_restart") \in Kinds
BY DEF Blame, Kinds

LEMMA EgressType ==
  ASSUME NEW n \in Nodes, NEW anchored
  PROVE  Egress(n, anchored) \in Kinds \cup Egresses
BY BlameType DEF Egress, Blame, Egresses

\* Whatever the probes found, a decision that is not Healthy names a node.
LEMMA TriangulateType ==
  ASSUME NEW badLocal \in SUBSET Nodes, NEW probed \in SUBSET (Nodes \X Nodes),
         NEW failed \in SUBSET probed, NEW anchored,
         NEW d \in Triangulate(badLocal, probed, failed, anchored)
  PROVE  d \in Decisions
<1> DEFINE reaching == anchored \cup {e[1] : e \in probed \ failed}
<1>1. Kinds \cup Egresses \cup {Healthy} = Decisions
  BY DEF Kinds, Egresses, Decisions
<1>2. CASE badLocal \cap reaching # {}
  <2>1. PICK n \in badLocal \cap reaching : d = Blame("LocalCNI", n, "cni_restart")
    BY <1>2 DEF Triangulate
  <2> QED BY <1>1, <2>1, BlameType
<1>3. CASE badLocal \cap reaching = {} /\ failed = {}
  BY <1>1, <1>3 DEF Triangulate
<1>4. CASE badLocal \cap reaching = {} /\ failed # {} /\ Deaf(probed, failed) # {}
  <2>1. PICK n \in Deaf(probed, failed) : d = Blame("NodeIngressDead", n, "cni_restart")
    BY <1>4 DEF Triangulate
  <2> QED BY <1>1, <2>1, BlameType DEF Deaf
<1>5. CASE /\ badLocal \cap reaching = {} /\ failed # {} /\ Deaf(probed, failed) = {}
           /\ Mute(probed, failed) # {}
  <2>1. PICK n \in Mute(probed, failed) : d = Egress(n, anchored)
    BY <1>5 DEF Triangulate
  <2> QED BY <1>1, <2>1, EgressType DEF Mute
<1>6. CASE /\ badLocal \cap reaching = {} /\ failed # {} /\ Deaf(probed, failed) = {}
           /\ Mute(probed, failed) = {}
  <2>1. PICK e \in FirstOf(failed) : d = Blame("AsymmetricPathFailure", e[2], "cni_restart")
    BY <1>6 DEF Triangulate
  <2>2. e[2] \in Nodes
    BY <2>1 DEF FirstOf
  <2> QED BY <1>1, <2>1, <2>2, BlameType
<1> QED BY <1>2, <1>3, <1>4, <1>5, <1>6

\* Only the egress diagnosis recommends isolation, and it names a node.
LEMMA DecisionsNameNodes ==
  ASSUME NEW d \in Decisions
  PROVE  /\ d # Healthy => d.node \in Nodes
         /\ d.action = "node_isolation" => d.node \in Nodes
BY DEF Decisions, Healthy

-----------------------------------------------------------------------------
(* The remediator *)

\* The restarts the operator remembers were made; the egress diagnosis it is
\* about to act on was recorded.
RemediationInv ==
  /\ RestartAttempts \in [Nodes -> Nat]
  /\ tries \in [Nodes -> Nat]
  /\ \A n \in Nodes : RestartAttempts[n] <= tries[n] \/ tries[n] >= EscalateAfter
  /\ latestDecision \in Decisions
  /\ pc = "remediate" => /\ latestDecision # Healthy
                         /\ latestDecision.action = "node_isolation"
                              => latestDecision.node \in hasEgress
  /\ seen.pods \subseteq Nodes /\ seen.badLocal \subseteq Nodes
  /\ canary \subseteq Nodes
  /\ isolated \subseteq Nodes /\ evicted \subseteq Nodes
  /\ EvictedHadRestarts /\ IsolatedForCause

LEMMA RemediationInvInit == Init => RemediationInv
BY DEF Init, RemediationInv, EvictedHadRestarts, IsolatedForCause, Decisions, Nothing

\* Steps of the network and of the pods touch none of the remediator's state.
LEMMA RemediationInvNetwork ==
  ASSUME RemediationInv, UNCHANGED <<isolated, pc, memory, history>>,
         canary' \subseteq Nodes, seen'.pods \subseteq Nodes, seen'.badLocal \subseteq Nodes
  PROVE  RemediationInv'
BY DEF RemediationInv, EvictedHadRestarts, IsolatedForCause, memory, history, Enough, Decisions

LEMMA CheckRingKeeps ==
  ASSUME RemediationInv, CheckRing
  PROVE  RemediationInv'
<1> DEFINE probed == {e \in RingEdges : {e[1], e[2]} \subseteq seen.pods}
           failed == {e \in probed : ~EdgeOK(e)}
<1>1. PICK d \in Triangulate(seen.badLocal, probed, failed, seen.anchored) :
        /\ latestDecision' = d
        /\ hasEgress' = IF d.action = "node_isolation" THEN hasEgress \cup {d.node}
                                                       ELSE hasEgress
        /\ Evaluate(d)
  BY DEF CheckRing
<1>2. probed \subseteq Nodes \X Nodes
  <2>1. RingEdges \subseteq {<<n, Succ(n)>> : n \in Nodes} \cup {<<n, Pred(n)>> : n \in Nodes}
    BY DEF RingEdges, Forward, Reverse
  <2>2. \A e \in RingEdges : e = <<e[1], e[2]>>
    BY <2>1
  <2> QED BY <2>2 DEF RemediationInv
<1>3. d \in Decisions
  BY <1>1, <1>2, TriangulateType DEF RemediationInv
<1>4. /\ UNCHANGED <<network, cluster, tries, evicted>>
      /\ seen' = Nothing
  BY DEF CheckRing
<1>5. /\ RestartAttempts' \in [Nodes -> Nat]
      /\ \A n \in Nodes : RestartAttempts'[n] <= RestartAttempts[n]
  <2>1. RestartAttempts' = RestartAttempts \/ RestartAttempts' = ResetNodeHistory(d.node)
    BY <1>1 DEF Evaluate
  <2>2. ResetNodeHistory(d.node) \in [Nodes -> Nat]
    BY DEF ResetNodeHistory, RemediationInv
  <2>3. \A n \in Nodes : ResetNodeHistory(d.node)[n] <= RestartAttempts[n]
    BY DEF ResetNodeHistory, RemediationInv
  <2>4. \A n \in Nodes : RestartAttempts[n] <= RestartAttempts[n]
    BY DEF RemediationInv
  <2> QED BY <2>1, <2>2, <2>3, <2>4 DEF RemediationInv
<1>6. pc' = "remediate" => /\ latestDecision' # Healthy
                           /\ latestDecision'.action = "node_isolation"
                                => latestDecision'.node \in hasEgress'
  BY <1>1 DEF Evaluate
<1>7. \A n \in Nodes : RestartAttempts'[n] <= tries'[n] \/ tries'[n] >= EscalateAfter
  BY <1>4, <1>5, PolicyAssumption DEF RemediationInv
<1>8. hasEgress \subseteq hasEgress'
  BY <1>1
<1>9. EvictedHadRestarts' /\ IsolatedForCause'
  BY <1>4, <1>8 DEF RemediationInv, EvictedHadRestarts, IsolatedForCause, cluster, Enough
<1>10. latestDecision' \in Decisions'
  BY <1>1, <1>3 DEF Decisions
<1> QED
  BY <1>4, <1>5, <1>6, <1>7, <1>9, <1>10 DEF RemediationInv, cluster, Nothing

-----------------------------------------------------------------------------

LEMMA BlamedIsKnown ==
  ASSUME RemediationInv, pc = "remediate"
  PROVE  /\ Blamed \in Nodes
         /\ Attempts \in Nat
         /\ Attempts <= tries[Blamed] \/ tries[Blamed] >= EscalateAfter
BY DecisionsNameNodes DEF RemediationInv, Blamed, Attempts

LEMMA DrainKeeps ==
  ASSUME RemediationInv, NEW isolates \in BOOLEAN, NEW deletes \in BOOLEAN,
         Drain(isolates, deletes)
  PROVE  RemediationInv'
<1>1. /\ pc = "remediate" /\ pc' = "idle"
      /\ UNCHANGED <<latestDecision, hasEgress, seen, RestartAttempts, tries>>
      /\ evicted' = evicted \cup {Blamed}
      /\ isolated' \subseteq isolated \cup {Blamed}
      /\ canary' \subseteq canary
  BY DEF Drain, Ends
<1>2. Attempts >= EscalateAfter
  BY DEF Drain, MustDrain
<1>3. Blamed \in Nodes /\ tries[Blamed] >= EscalateAfter
  BY <1>1, <1>2, BlamedIsKnown, PolicyAssumption DEF RemediationInv
<1>4. EscalateAfter >= Enough
  BY PolicyAssumption DEF Enough
<1>5. Enough' = Enough
  BY DEF Enough
<1>6. EvictedHadRestarts'
  BY <1>1, <1>3 DEF RemediationInv, EvictedHadRestarts
<1>7. IsolatedForCause'
  <2>1. tries[Blamed] >= Enough
    BY <1>3, <1>4, PolicyAssumption DEF RemediationInv, Enough
  <2> QED BY <1>1, <1>5, <2>1 DEF RemediationInv, IsolatedForCause
<1>8. latestDecision' \in Decisions'
  BY <1>1 DEF RemediationInv, Decisions
<1> QED BY <1>1, <1>3, <1>6, <1>7, <1>8 DEF RemediationInv

LEMMA IsolateKeeps ==
  ASSUME RemediationInv, Isolate
  PROVE  RemediationInv'
<1>1. /\ pc = "remediate" /\ pc' = "idle"
      /\ UNCHANGED <<latestDecision, hasEgress, seen, canary, evicted, RestartAttempts, tries>>
      /\ isolated' = isolated \cup {Blamed}
  BY DEF Isolate, Ends
<1>2. Blamed \in Nodes
  BY <1>1, BlamedIsKnown
<1>3. Blamed \in hasEgress \/ tries[Blamed] >= Enough
  <2>1. CASE latestDecision.action = "node_isolation"
    BY <1>1, <2>1 DEF RemediationInv, Blamed
  <2>2. CASE Attempts >= MaxRestarts
    BY <1>1, <1>2, <2>2, BlamedIsKnown, PolicyAssumption DEF RemediationInv, Enough
  <2> QED BY <2>1, <2>2 DEF Isolate, MustIsolate
<1>4. EvictedHadRestarts' /\ IsolatedForCause'
  BY <1>1, <1>3 DEF RemediationInv, EvictedHadRestarts, IsolatedForCause, Enough
<1>5. latestDecision' \in Decisions'
  BY <1>1 DEF RemediationInv, Decisions
<1> QED BY <1>1, <1>2, <1>4, <1>5 DEF RemediationInv

LEMMA RestartKeeps ==
  ASSUME RemediationInv, RestartCNIPod
  PROVE  RemediationInv'
<1>1. /\ pc = "remediate" /\ pc' = "idle"
      /\ UNCHANGED <<latestDecision, hasEgress, seen, canary, evicted, isolated>>
      /\ RestartAttempts' = [RestartAttempts EXCEPT ![Blamed] = Attempts + 1]
      /\ tries' = CountTo(EscalateAfter, tries)
  BY DEF RestartCNIPod, Ends
<1>2. Blamed \in Nodes /\ Attempts \in Nat
  BY <1>1, BlamedIsKnown
<1>3. EscalateAfter \in Nat /\ Enough \in Nat /\ Enough' = Enough
  BY PolicyAssumption DEF Enough
<1>4. /\ tries' \in [Nodes -> Nat] /\ RestartAttempts' \in [Nodes -> Nat]
      /\ \A n \in Nodes : n # Blamed => /\ tries'[n] = tries[n]
                                        /\ RestartAttempts'[n] = RestartAttempts[n]
      /\ RestartAttempts'[Blamed] = RestartAttempts[Blamed] + 1
      /\ tries[Blamed] < EscalateAfter => tries'[Blamed] = tries[Blamed] + 1
      /\ ~(tries[Blamed] < EscalateAfter) => tries'[Blamed] = tries[Blamed]
  BY <1>1, <1>2, <1>3 DEF RemediationInv, CountTo, Attempts
<1>5. ASSUME NEW n \in Nodes
      PROVE  RestartAttempts'[n] <= tries'[n] \/ tries'[n] >= EscalateAfter
  <2>1. /\ tries[n] \in Nat /\ RestartAttempts[n] \in Nat
        /\ RestartAttempts[n] <= tries[n] \/ tries[n] >= EscalateAfter
    BY DEF RemediationInv
  <2> QED BY <1>3, <1>4, <2>1
<1>6. \A n \in Nodes : tries[n] \in Nat /\ tries'[n] >= tries[n]
  BY <1>2, <1>3, <1>4 DEF RemediationInv
<1>7. EvictedHadRestarts' /\ IsolatedForCause'
  <2>1. /\ \A n \in evicted : n \in Nodes /\ tries[n] >= EscalateAfter
        /\ \A n \in isolated : n \in Nodes /\ (n \in hasEgress \/ tries[n] >= Enough)
    BY DEF RemediationInv, EvictedHadRestarts, IsolatedForCause
  <2>2. \A n \in evicted : tries'[n] >= EscalateAfter
    BY <1>3, <1>4, <1>6, <2>1
  <2>3. \A n \in isolated : n \in hasEgress \/ tries'[n] >= Enough
    BY <1>3, <1>4, <1>6, <2>1
  <2> QED BY <1>1, <1>3, <2>2, <2>3 DEF EvictedHadRestarts, IsolatedForCause
<1>8. latestDecision' \in Decisions'
  BY <1>1 DEF RemediationInv, Decisions
<1> QED BY <1>1, <1>4, <1>5, <1>7, <1>8 DEF RemediationInv

LEMMA FailureKeeps ==
  ASSUME RemediationInv, NEW isolates \in BOOLEAN, RemediationFails(isolates)
  PROVE  RemediationInv'
<1>1. /\ pc = "remediate" /\ pc' = "idle"
      /\ UNCHANGED <<latestDecision, hasEgress, seen, canary, evicted, RestartAttempts, tries>>
      /\ isolated' = isolated \/ (MustDrain /\ isolated' = isolated \cup {Blamed})
  BY DEF RemediationFails, Ends
<1>2. Blamed \in Nodes
  BY <1>1, BlamedIsKnown
<1>3. MustDrain => tries[Blamed] >= Enough
  BY <1>1, <1>2, BlamedIsKnown, PolicyAssumption DEF RemediationInv, Enough, MustDrain
<1>4. EvictedHadRestarts' /\ IsolatedForCause'
  BY <1>1, <1>3 DEF RemediationInv, EvictedHadRestarts, IsolatedForCause, Enough
<1>5. latestDecision' \in Decisions'
  BY <1>1 DEF RemediationInv, Decisions
<1> QED BY <1>1, <1>2, <1>4, <1>5 DEF RemediationInv

LEMMA OperatorRestartKeeps ==
  ASSUME RemediationInv, OperatorRestarts
  PROVE  RemediationInv'
<1>1. /\ pc' = "idle" /\ seen' = Nothing /\ latestDecision' = Healthy
      /\ RestartAttempts' = [n \in Nodes |-> 0]
      /\ UNCHANGED <<cluster, history>>
  BY DEF OperatorRestarts
<1>2. latestDecision' \in Decisions'
  BY <1>1 DEF Decisions
<1> QED BY <1>1, <1>2, PolicyAssumption
        DEF RemediationInv, EvictedHadRestarts, IsolatedForCause, cluster, history, Enough, Nothing

LEMMA RemediationInvStep == RemediationInv /\ [Next]_vars => RemediationInv'
<1> SUFFICES ASSUME RemediationInv, [Next]_vars PROVE RemediationInv'
  OBVIOUS
<1>1. ASSUME NEW n \in Nodes, NEW f \in Faults, FaultBegins(n, f) PROVE RemediationInv'
  BY <1>1, RemediationInvNetwork DEF FaultBegins, cluster, RemediationInv
<1>2. ASSUME NEW n \in Nodes, CanaryStarts(n) PROVE RemediationInv'
  BY <1>2, RemediationInvNetwork DEF CanaryStarts, RemediationInv
<1>3. ASSUME NEW n \in Nodes, CanaryStops(n) PROVE RemediationInv'
  BY <1>3, RemediationInvNetwork DEF CanaryStops, RemediationInv
<1>4. ASSUME NEW n \in Nodes, NEW cures \in BOOLEAN, AgentStarts(n, cures) PROVE RemediationInv'
  BY <1>4, RemediationInvNetwork DEF AgentStarts, RemediationInv
<1>5. ASSUME NEW e \in RingEdges, PathBreaks(e) PROVE RemediationInv'
  BY <1>5, RemediationInvNetwork DEF PathBreaks, cluster, RemediationInv
<1>6. CASE FaultEnds
  BY <1>6, RemediationInvNetwork DEF FaultEnds, cluster, RemediationInv
<1>7. CASE CheckNodes
  <2>1. /\ seen' = [pods |-> canary, badLocal |-> {n \in canary : ~LocalOK(n)},
                    anchored |-> {n \in canary : AnchorOK(n)}, network |-> <<fault, cut>>]
        /\ pc = "idle" /\ pc' = "ring" /\ UNCHANGED <<cluster, memory, history>>
    BY <1>7 DEF CheckNodes
  <2>2. latestDecision' \in Decisions'
    BY <2>1 DEF RemediationInv, Decisions, memory
  <2>3. EvictedHadRestarts' /\ IsolatedForCause'
    BY <2>1 DEF RemediationInv, EvictedHadRestarts, IsolatedForCause, cluster, history, Enough
  <2> QED BY <2>1, <2>2, <2>3 DEF RemediationInv, cluster, memory, history
<1>8. CASE CheckRing
  BY <1>8, CheckRingKeeps
<1>9. CASE Remediate
  BY <1>9, DrainKeeps, IsolateKeeps, RestartKeeps DEF Remediate
<1>10. ASSUME NEW isolates \in BOOLEAN, RemediationFails(isolates) PROVE RemediationInv'
  BY <1>10, FailureKeeps
<1>11. CASE OperatorRestarts
  BY <1>11, OperatorRestartKeeps
<1>12. CASE UNCHANGED vars
  BY <1>12, RemediationInvNetwork DEF vars, cluster, RemediationInv
<1> QED
  BY <1>1, <1>2, <1>3, <1>4, <1>5, <1>6, <1>7, <1>8, <1>9, <1>10, <1>11, <1>12 DEF Next

\* The limits on disruption: for every ring and every policy, a node is drained
\* only after EscalateAfter restarts of its CNI pod, and isolated only after its
\* restarts or on the diagnosis that it reaches nothing.
THEOREM DisruptionIsEarned == Spec => [](EvictedHadRestarts /\ IsolatedForCause)
<1>1. RemediationInv => EvictedHadRestarts /\ IsolatedForCause
  BY DEF RemediationInv
<1> QED BY <1>1, RemediationInvInit, RemediationInvStep, PTL DEF Spec

\* No node is drained before EscalateAfter restarts of its CNI pod failed to cure
\* it, whatever the operator forgot in between.
THEOREM EvictionIsEarned == Spec => []EvictedHadRestarts
<1>1. RemediationInv => EvictedHadRestarts
  BY DEF RemediationInv
<1> QED BY <1>1, RemediationInvInit, RemediationInvStep, PTL DEF Spec

-----------------------------------------------------------------------------
(* Types *)

\* The operator starts well typed.
LEMMA TypesInit == Init => TypeOK
BY PolicyAssumption, LimitsAssumption DEF Init, TypeOK, Nothing, Decisions, Faults

\* The probes of a round are edges between nodes, and so is every decision's.
LEMMA CheckRingDecides ==
  ASSUME TypeOK, CheckRing
  PROVE  /\ latestDecision' \in Decisions
         /\ hasEgress' \subseteq Nodes
         /\ Evaluate(latestDecision')
         /\ seen' = Nothing
         /\ UNCHANGED <<network, cluster, tries, evicted, left>>
<1> DEFINE probed == {e \in RingEdges : {e[1], e[2]} \subseteq seen.pods}
           failed == {e \in probed : ~EdgeOK(e)}
<1>1. PICK d \in Triangulate(seen.badLocal, probed, failed, seen.anchored) :
        /\ latestDecision' = d
        /\ hasEgress' = IF d.action = "node_isolation" THEN hasEgress \cup {d.node}
                                                       ELSE hasEgress
        /\ Evaluate(d)
  BY DEF CheckRing
<1>2. probed \in SUBSET (Nodes \X Nodes) /\ failed \in SUBSET probed
  BY RingEdgeType
<1>3. seen.badLocal \in SUBSET Nodes
  BY DEF TypeOK
<1>4. d \in Decisions
  BY <1>1, <1>2, <1>3, TriangulateType
<1>5. hasEgress' \subseteq Nodes
  BY <1>1, <1>4, DecisionsNameNodes DEF TypeOK
<1> QED BY <1>1, <1>4, <1>5 DEF CheckRing

\* Evaluate keeps the streak within the threshold and only ever clears counts.
LEMMA TypesCheckRing ==
  ASSUME TypeOK, CheckRing
  PROVE  TypeOK'
<1>1. /\ latestDecision' \in Decisions /\ hasEgress' \subseteq Nodes
      /\ Evaluate(latestDecision') /\ seen' = Nothing
      /\ UNCHANGED <<network, cluster, tries, evicted, left>>
  BY CheckRingDecides
<1>2. /\ consecutiveFailures' \in 0..Threshold
      /\ pc' \in {"idle", "remediate"}
      /\ pc' = "remediate" => latestDecision' # Healthy
  BY <1>1, PolicyAssumption DEF Evaluate, TypeOK
<1>3. RestartAttempts' \in [Nodes -> 0..MaxRestarts]
  BY <1>1, PolicyAssumption DEF Evaluate, ResetNodeHistory, TypeOK
<1> QED BY <1>1, <1>2, <1>3 DEF TypeOK, network, cluster, Nothing, Decisions, Healthy

\* Remediate and its failures.
LEMMA TypesRemediate ==
  ASSUME TypeOK, NEW isolates \in BOOLEAN, Remediate \/ RemediationFails(isolates)
  PROVE  TypeOK'
<1>1. /\ pc = "remediate" /\ pc' = "idle"
      /\ consecutiveFailures' \in {0, consecutiveFailures}
      /\ UNCHANGED <<network, draining, seen, latestDecision, hasEgress, left>>
  BY DEF Remediate, Drain, Isolate, RestartCNIPod, RemediationFails, Ends
<1>2. Blamed \in Nodes
  BY <1>1, DecisionsNameNodes DEF TypeOK, Blamed
<1>3. /\ isolated' \subseteq isolated \cup {Blamed} /\ canary' \subseteq canary
      /\ agents' \subseteq agents /\ evicted' \subseteq evicted \cup {Blamed}
  BY DEF Remediate, Drain, Isolate, RestartCNIPod, RemediationFails
<1>4. /\ RestartAttempts' \in [Nodes -> 0..MaxRestarts]
      /\ tries' \in [Nodes -> 0..EscalateAfter]
  <2>1. CASE RestartCNIPod
    <3>1. /\ RestartAttempts' = [RestartAttempts EXCEPT ![Blamed] = Attempts + 1]
          /\ tries' = CountTo(EscalateAfter, tries)
      BY <2>1 DEF RestartCNIPod
    <3>2. Attempts \in 0..MaxRestarts /\ ~(Attempts >= MaxRestarts)
      BY <1>2, <2>1 DEF RestartCNIPod, MustRestart, MustIsolate, TypeOK, Attempts
    <3>3. tries[Blamed] \in 0..EscalateAfter
      BY <1>2 DEF TypeOK
    <3> QED BY <1>2, <3>1, <3>2, <3>3, PolicyAssumption DEF TypeOK, CountTo
  <2>2. CASE ~RestartCNIPod
    BY <2>2 DEF Remediate, Drain, Isolate, RemediationFails, TypeOK
  <2> QED BY <2>1, <2>2
<1> QED BY <1>1, <1>2, <1>3, <1>4, PolicyAssumption DEF TypeOK, network, Decisions, Healthy

\* Every step keeps the types.
LEMMA TypesStep == TypeOK /\ [Next]_vars => TypeOK'
<1> SUFFICES ASSUME TypeOK, [Next]_vars PROVE TypeOK'
  OBVIOUS
<1> USE DEF network, cluster, memory, history, Decisions, Healthy
<1>1. ASSUME NEW n \in Nodes, NEW f \in Faults, FaultBegins(n, f) PROVE TypeOK'
  BY <1>1 DEF FaultBegins, TypeOK, Spend, Troubles
<1>2. ASSUME NEW n \in Nodes, CanaryStarts(n) PROVE TypeOK'
  BY <1>2 DEF CanaryStarts, TypeOK
<1>3. ASSUME NEW n \in Nodes, CanaryStops(n) PROVE TypeOK'
  BY <1>3 DEF CanaryStops, TypeOK, Spend, Troubles
<1>4. ASSUME NEW n \in Nodes, NEW cures \in BOOLEAN, AgentStarts(n, cures) PROVE TypeOK'
  BY <1>4 DEF AgentStarts, TypeOK, Faults
<1>5. ASSUME NEW e \in RingEdges, PathBreaks(e) PROVE TypeOK'
  BY <1>5, RingEdgeType DEF PathBreaks, TypeOK, Spend, Troubles
<1>6. CASE FaultEnds
  BY <1>6 DEF FaultEnds, TypeOK, Faults
<1>7. CASE CheckNodes
  BY <1>7 DEF CheckNodes, TypeOK
<1>8. CASE CheckRing
  BY <1>8, TypesCheckRing
<1>9. CASE Remediate \/ \E isolates \in BOOLEAN : RemediationFails(isolates)
  BY <1>9, TypesRemediate
<1>10. CASE OperatorRestarts
  <2>1. Spend("crashes")
    BY <1>10 DEF OperatorRestarts
  <2>2. left' \in [Troubles -> Nat]
    <3>1. left["crashes"] - 1 \in Nat
      BY <2>1 DEF Spend, TypeOK, Troubles
    <3> QED BY <2>1, <3>1 DEF Spend, TypeOK
  <2>3. RestartAttempts' \in [Nodes -> 0..MaxRestarts]
    BY <1>10, PolicyAssumption DEF OperatorRestarts
  <2>4. /\ pc' = "idle" /\ seen' = Nothing
        /\ consecutiveFailures' \in 0..Threshold
        /\ latestDecision' \in Decisions
    BY <1>10, PolicyAssumption DEF OperatorRestarts
  <2>5. {seen'.pods, seen'.badLocal, seen'.anchored} \subseteq SUBSET Nodes
    BY <2>4 DEF Nothing
  <2>6. UNCHANGED <<network, cluster, history>>
    BY <1>10 DEF OperatorRestarts
  <2> QED BY <2>2, <2>3, <2>4, <2>5, <2>6 DEF TypeOK
<1>11. CASE UNCHANGED vars
  BY <1>11 DEF vars, TypeOK
<1> QED
  BY <1>1, <1>2, <1>3, <1>4, <1>5, <1>6, <1>7, <1>8, <1>9, <1>10, <1>11 DEF Next

\* For every ring and every policy the remediator's state keeps its type: no node
\* is ever restarted more often than MaxRestarts and every diagnosis, isolation
\* and drain is one of a node of the cluster.
THEOREM RemediatorTypes == Spec => []TypeOK
<1> QED BY TypesInit, TypesStep, PTL DEF Spec

-----------------------------------------------------------------------------
(* The diagnosis *)

\* With three nodes or more the ring has an edge either way between neighbours.
LEMMA RingHasBothWays ==
  ASSUME Cardinality(Nodes) >= 3
  PROVE  /\ \A n \in Nodes : <<n, Succ(n)>> \in RingEdges /\ <<n, Pred(n)>> \in RingEdges
         /\ \A e \in RingEdges : \E n \in Nodes : e = <<n, Succ(n)>> \/ e = <<n, Pred(n)>>
<1>1. Cardinality(Nodes) \in Nat
  BY NodesAssumption, FS_CardinalityType
<1>2. RingEdges = Forward \cup Reverse
  BY <1>1 DEF RingEdges
<1> QED BY <1>2 DEF Forward, Reverse

\* Every node is probed by two others and probes two others.
LEMMA RingDegrees ==
  ASSUME Cardinality(Nodes) >= 3, NEW n \in Nodes
  PROVE  \E a, b \in Nodes :
           /\ a # b /\ a # n /\ b # n
           /\ <<a, n>> \in RingEdges /\ <<b, n>> \in RingEdges
           /\ <<n, a>> \in RingEdges /\ <<n, b>> \in RingEdges
<1>1. Succ(n) \in Nodes /\ Pred(n) \in Nodes /\ Succ(n) # n /\ Pred(n) # n /\ Succ(n) # Pred(n)
  BY SuccIsNext, PredIsPrevious, TwoNeighbours
<1>2. <<Succ(n), n>> \in RingEdges /\ <<Pred(n), n>> \in RingEdges
  <2>1. Pred(Succ(n)) = n /\ Succ(Pred(n)) = n
    BY RingCloses
  <2>2. /\ <<Succ(n), Pred(Succ(n))>> \in RingEdges
        /\ <<Pred(n), Succ(Pred(n))>> \in RingEdges
    BY <1>1, RingHasBothWays
  <2> QED BY <2>1, <2>2
<1>3. <<n, Succ(n)>> \in RingEdges /\ <<n, Pred(n)>> \in RingEdges
  BY RingHasBothWays
<1> QED BY <1>1, <1>2, <1>3

\* No probe failed.
LEMMA NothingFails ==
  ASSUME NEW probed, NEW anchored
  PROVE  Triangulate({}, probed, {}, anchored) = {Healthy}
BY DEF Triangulate

\* Only x fails to reach its own canary, and x reaches something.
LEMMA LocalIsBlamed ==
  ASSUME NEW x \in Nodes, NEW probed, NEW failed, NEW anchored, x \in anchored,
         NEW d \in Triangulate({x}, probed, failed, anchored)
  PROVE  d.node = x /\ d.type = "LocalCNI"
BY DEF Triangulate, Blame

\* Only the edges into x fail, and neither x nor another node seems dumb.
LEMMA DeafIsBlamed ==
  ASSUME Cardinality(Nodes) >= 3, NEW x \in Nodes, NEW bad \in SUBSET {x}, NEW anchored,
         NEW failed \in SUBSET {e \in RingEdges : x \in {e[1], e[2]}},
         \A e \in RingEdges : e[2] = x => e \in failed,
         bad = {} \/ (x \notin anchored /\ \A e \in RingEdges : e[1] = x => e \in failed),
         NEW d \in Triangulate(bad, RingEdges, failed, anchored)
  PROVE  d.node = x /\ d.type = "NodeIngressDead"
<1> DEFINE reaching == anchored \cup {e[1] : e \in RingEdges \ failed}
<1>1. bad \cap reaching = {}
  OBVIOUS
<1>2. PICK a \in Nodes, b \in Nodes :
       /\ a # b /\ a # x /\ b # x
       /\ <<a, x>> \in RingEdges /\ <<b, x>> \in RingEdges
       /\ <<x, a>> \in RingEdges /\ <<x, b>> \in RingEdges
  BY RingDegrees
<1>3. failed # {} /\ <<a, x>> \in failed
  BY <1>2
<1>4. Deaf(RingEdges, failed) = {x}
  <2>1. x \in Deaf(RingEdges, failed)
    BY <1>2 DEF Deaf, Into
  <2>2. ASSUME NEW y \in Nodes, y # x PROVE y \notin Deaf(RingEdges, failed)
    <3>1. PICK c \in Nodes, f \in Nodes :
           /\ c # f /\ c # y /\ f # y
           /\ <<c, y>> \in RingEdges /\ <<f, y>> \in RingEdges
           /\ <<y, c>> \in RingEdges /\ <<y, f>> \in RingEdges
      BY RingDegrees
    <3>2. <<c, y>> \notin failed \/ <<f, y>> \notin failed
      BY <2>2, <3>1
    <3> QED BY <3>1, <3>2 DEF Deaf, Into
  <2> QED BY <2>1, <2>2 DEF Deaf
<1>5. d \in {Blame("NodeIngressDead", n, "cni_restart") : n \in {x}}
  BY <1>1, <1>3, <1>4 DEF Triangulate
<1> QED BY <1>5 DEF Blame

\* Only the edges out of x fail.
LEMMA MuteIsBlamed ==
  ASSUME Cardinality(Nodes) >= 3, NEW x \in Nodes, NEW anchored,
         NEW failed, failed = {e \in RingEdges : e[1] = x},
         NEW d \in Triangulate({}, RingEdges, failed, anchored)
  PROVE  d.node = x /\ d.type = IF x \in anchored THEN "TunnelCrash" ELSE "NodeEgressDead"
<1>1. PICK a \in Nodes, b \in Nodes :
       /\ a # b /\ a # x /\ b # x
       /\ <<a, x>> \in RingEdges /\ <<b, x>> \in RingEdges
       /\ <<x, a>> \in RingEdges /\ <<x, b>> \in RingEdges
  BY RingDegrees
<1>2. <<x, a>> \in failed
  BY <1>1
<1>3. ASSUME NEW y \in Nodes PROVE y \notin Deaf(RingEdges, failed)
  <2>1. PICK c \in Nodes, f \in Nodes :
         /\ c # f /\ c # y /\ f # y
         /\ <<c, y>> \in RingEdges /\ <<f, y>> \in RingEdges
         /\ <<y, c>> \in RingEdges /\ <<y, f>> \in RingEdges
    BY RingDegrees
  <2>2. <<c, y>> \notin failed \/ <<f, y>> \notin failed
    BY <2>1
  <2> QED BY <2>1, <2>2 DEF Deaf, Into
<1>4. Deaf(RingEdges, failed) = {}
  BY <1>3 DEF Deaf
<1>5. Mute(RingEdges, failed) = {x}
  <2>1. x \in Mute(RingEdges, failed)
    BY <1>1, <1>2 DEF Mute, OutOf
  <2>2. ASSUME NEW y \in Nodes, y # x PROVE y \notin Mute(RingEdges, failed)
    <3>1. <<y, Succ(y)>> \in RingEdges /\ <<y, Succ(y)>> \notin failed
      BY <2>2, RingHasBothWays
    <3> QED BY <3>1 DEF Mute, OutOf
  <2> QED BY <2>1, <2>2 DEF Mute
<1>6. d \in {Egress(n, anchored) : n \in {x}}
  BY <1>2, <1>4, <1>5 DEF Triangulate
<1> QED BY <1>6 DEF Egress, Blame

\* One edge fails.
LEMMA EdgeIsBlamed ==
  ASSUME Cardinality(Nodes) >= 3, NEW c \in RingEdges, NEW anchored,
         NEW d \in Triangulate({}, RingEdges, {c}, anchored)
  PROVE  d.node = c[2] /\ d.type = "AsymmetricPathFailure"
<1>1. ASSUME NEW y \in Nodes
      PROVE  y \notin Deaf(RingEdges, {c}) /\ y \notin Mute(RingEdges, {c})
  <2>1. PICK a \in Nodes, b \in Nodes :
         /\ a # b /\ a # y /\ b # y
         /\ <<a, y>> \in RingEdges /\ <<b, y>> \in RingEdges
         /\ <<y, a>> \in RingEdges /\ <<y, b>> \in RingEdges
    BY RingDegrees
  <2>2. <<a, y>> # c \/ <<b, y>> # c
    BY <2>1
  <2>3. <<y, a>> # c \/ <<y, b>> # c
    BY <2>1
  <2> QED BY <2>1, <2>2, <2>3 DEF Deaf, Into, Mute, OutOf
<1>2. Deaf(RingEdges, {c}) = {} /\ Mute(RingEdges, {c}) = {}
  BY <1>1 DEF Deaf, Mute
<1>3. d \in {Blame("AsymmetricPathFailure", e[2], "cni_restart") : e \in FirstOf({c})}
  BY <1>2 DEF Triangulate
<1> QED BY <1>3 DEF FirstOf, Blame

\* Nothing is wrong, or one node is faulty, or one edge of the ring is cut.
OneTrouble ==
  \/ /\ cut = {}
     /\ \A n, m \in Nodes : fault[n] # "none" /\ fault[m] # "none" => n = m
  \/ /\ \E e \in RingEdges : cut = {e}
     /\ \A n \in Nodes : fault[n] = "none"

\* The first half of a check saw the network it remembers.
SeenIsNetwork ==
  pc = "ring" =>
    /\ seen.badLocal = {n \in seen.pods : seen.network[1][n] \in {"local", "dark"}}
    /\ seen.anchored = {n \in seen.pods : seen.network[1][n] \notin {"egress", "dark"}}

DiagnosisInv == TypeOK /\ OneTrouble /\ SeenIsNetwork

\* At the start nothing is wrong and no check is in progress.
LEMMA DiagnosisInit == Init => DiagnosisInv
BY TypesInit DEF Init, DiagnosisInv, OneTrouble, SeenIsNetwork

\* A fault begins only when there is none.
LEMMA NothingIsFaulty ==
  ASSUME Quiet
  PROVE  cut = {} /\ \A n \in Nodes : fault[n] = "none"
BY DEF Quiet, Faulty

\* One trouble at a time, and what a check has seen stays what it was.
LEMMA DiagnosisStep == DiagnosisInv /\ [Next]_vars => DiagnosisInv'
<1> SUFFICES ASSUME DiagnosisInv, [Next]_vars PROVE OneTrouble' /\ SeenIsNetwork'
  BY TypesStep DEF DiagnosisInv
<1> USE DEF DiagnosisInv, OneTrouble, SeenIsNetwork
<1>0. RingEdges' = RingEdges
  BY DEF RingEdges, Forward, Reverse, Succ, Pred, After, Least, Greatest
<1>1. ASSUME NEW n \in Nodes, NEW f \in Faults, FaultBegins(n, f)
      PROVE  OneTrouble' /\ SeenIsNetwork'
  BY <1>1, NothingIsFaulty DEF FaultBegins, TypeOK
<1>2. ASSUME NEW n \in Nodes, CanaryStarts(n) \/ CanaryStops(n)
      PROVE  OneTrouble' /\ SeenIsNetwork'
  BY <1>0, <1>2 DEF CanaryStarts, CanaryStops, network
<1>4. ASSUME NEW n \in Nodes, NEW cures \in BOOLEAN, AgentStarts(n, cures)
      PROVE  OneTrouble' /\ SeenIsNetwork'
  BY <1>0, <1>4 DEF AgentStarts, TypeOK
<1>5. ASSUME NEW e \in RingEdges, PathBreaks(e)
      PROVE  OneTrouble' /\ SeenIsNetwork'
  BY <1>0, <1>5, NothingIsFaulty DEF PathBreaks
<1>6. CASE FaultEnds
  BY <1>6 DEF FaultEnds
<1>7. CASE CheckNodes
  BY <1>0, <1>7 DEF CheckNodes, network, LocalOK, AnchorOK
<1>8. CASE CheckRing
  <2>1. /\ Evaluate(latestDecision') /\ UNCHANGED <<network, cluster, tries, evicted, left>>
    BY <1>8, CheckRingDecides
  <2> QED BY <1>0, <2>1 DEF Evaluate, network
<1>9. CASE Remediate \/ \E isolates \in BOOLEAN : RemediationFails(isolates)
  BY <1>0, <1>9 DEF Remediate, Drain, Isolate, RestartCNIPod, RemediationFails, Ends, network
<1>10. CASE OperatorRestarts
  BY <1>0, <1>10 DEF OperatorRestarts, network
<1>11. CASE UNCHANGED vars
  BY <1>0, <1>11 DEF vars, network
<1> QED
  BY <1>1, <1>2, <1>4, <1>5, <1>6, <1>7, <1>8, <1>9, <1>10, <1>11 DEF Next

\* On a whole ring a round that saw one network throughout answers rightly.
LEMMA CheckRingIsRight ==
  ASSUME Cardinality(Nodes) >= 3, DiagnosisInv, CheckRing, WholeView
  PROVE  Names(latestDecision')
<1> USE DEF WholeView
<1> DEFINE probed == {e \in RingEdges : {e[1], e[2]} \subseteq seen.pods}
           failed == {e \in RingEdges : ~EdgeOK(e)}
<1>1. /\ \A e \in RingEdges : e[1] \in Nodes /\ e[2] \in Nodes /\ e = <<e[1], e[2]>>
      /\ \A e \in RingEdges : e[1] # e[2]
  BY RingEdgeType, RingHasBothWays, TwoNeighbours
<1>2. probed = RingEdges
  BY <1>1
<1>3. latestDecision' \in Triangulate(seen.badLocal, RingEdges, failed, seen.anchored)
  BY <1>2 DEF CheckRing
<1>4. /\ seen.badLocal = {n \in Nodes : fault[n] \in {"local", "dark"}}
      /\ seen.anchored = {n \in Nodes : fault[n] \notin {"egress", "dark"}}
  BY DEF DiagnosisInv, SeenIsNetwork, CheckRing
<1>5. \A e \in RingEdges : e \in failed <=> \/ fault[e[1]] \in {"overlay", "egress", "dark"}
                                            \/ fault[e[2]] \in {"ingress", "dark"}
                                            \/ e \in cut
  BY <1>1 DEF EdgeOK
<1> HIDE DEF failed, probed
<1>6. failed \subseteq RingEdges
  BY DEF failed
<1>7. CASE cut = {} /\ \A n \in Nodes : fault[n] = "none"
  <2>1. Faulty = {} /\ failed = {} /\ seen.badLocal = {}
    BY <1>1, <1>4, <1>5, <1>6, <1>7 DEF Faulty
  <2>2. latestDecision' = Healthy
    BY <1>3, <2>1, NothingFails
  <2> QED BY <1>7, <2>1, <2>2 DEF Names
<1>8. ASSUME cut = {}, NEW x \in Nodes, fault[x] # "none",
             \A n \in Nodes : n # x => fault[n] = "none"
      PROVE  Names(latestDecision')
  <2>1. Faulty = {x}
    BY <1>8 DEF Faulty
  <2>2. fault[x] \in {"local", "ingress", "overlay", "egress", "dark"}
    BY <1>8 DEF DiagnosisInv, TypeOK, Faults
  <2>3. CASE fault[x] = "local"
    <3>1. seen.badLocal = {x} /\ x \in seen.anchored
      BY <1>4, <1>8, <2>3
    <3>2. latestDecision'.node = x /\ latestDecision'.type = "LocalCNI"
      BY <1>3, <3>1, LocalIsBlamed
    <3> QED BY <1>8, <2>1, <2>3, <3>2 DEF Names, Quiet, Symptom
  <2>4. CASE fault[x] \in {"ingress", "dark"}
    <3>1. /\ failed \in SUBSET {e \in RingEdges : x \in {e[1], e[2]}}
          /\ \A e \in RingEdges : e[2] = x => e \in failed
          /\ seen.badLocal \in SUBSET {x}
      BY <1>1, <1>4, <1>5, <1>6, <1>8, <2>4
    <3>2. \/ seen.badLocal = {}
          \/ x \notin seen.anchored /\ \A e \in RingEdges : e[1] = x => e \in failed
      BY <1>1, <1>4, <1>5, <1>8, <2>4
    <3>3. latestDecision'.node = x /\ latestDecision'.type = "NodeIngressDead"
      BY <1>3, <3>1, <3>2, DeafIsBlamed
    <3> QED BY <1>8, <2>1, <2>4, <3>3 DEF Names, Quiet, Symptom
  <2>5. CASE fault[x] \in {"overlay", "egress"}
    <3>1. failed = {e \in RingEdges : e[1] = x} /\ seen.badLocal = {}
      BY <1>1, <1>4, <1>5, <1>6, <1>8, <2>5
    <3>2. /\ latestDecision'.node = x
          /\ latestDecision'.type = IF x \in seen.anchored THEN "TunnelCrash" ELSE "NodeEgressDead"
      BY <1>3, <3>1, MuteIsBlamed
    <3>3. x \in seen.anchored <=> fault[x] = "overlay"
      BY <1>4, <2>5
    <3> QED BY <1>8, <2>1, <2>5, <3>2, <3>3 DEF Names, Quiet, Symptom
  <2> QED BY <2>2, <2>3, <2>4, <2>5
<1>9. ASSUME NEW c \in RingEdges, cut = {c}, \A n \in Nodes : fault[n] = "none"
      PROVE  Names(latestDecision')
  <2>1. failed = {c} /\ seen.badLocal = {}
    BY <1>1, <1>4, <1>5, <1>6, <1>9
  <2>2. latestDecision'.node = c[2] /\ latestDecision'.type = "AsymmetricPathFailure"
    BY <1>3, <2>1, EdgeIsBlamed
  <2>3. Faulty = {} /\ ~Quiet
    BY <1>9 DEF Faulty, Quiet
  <2> QED BY <1>9, <2>2, <2>3 DEF Names
<1>11. CASE cut = {}
  BY <1>7, <1>8, <1>11 DEF DiagnosisInv, OneTrouble
<1>12. CASE cut # {}
  <2>1. PICK c \in RingEdges : cut = {c} /\ \A n \in Nodes : fault[n] = "none"
    BY <1>12 DEF DiagnosisInv, OneTrouble
  <2> QED BY <1>9, <2>1
<1> QED BY <1>11, <1>12

\* On every ring of three nodes or more Triangulate is right: a round that found a
\* canary on every node and saw one network throughout calls a quiet network
\* healthy, names the faulty node and what is wrong with it, and a broken path by
\* its target.
THEOREM TriangulationIsRight ==
  ASSUME Cardinality(Nodes) >= 3
  PROVE  Spec => DiagnosisIsRight
<1>1. DiagnosisInv /\ [Next]_vars => [CheckRing /\ WholeView => Names(latestDecision')]_vars
  BY CheckRingIsRight
<1> QED BY <1>1, DiagnosisInit, DiagnosisStep, PTL DEF Spec, DiagnosisIsRight

=============================================================================
