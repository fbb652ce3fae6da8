--------------------------- MODULE FailoverProofs ---------------------------
(* Theorems about Failover, for every set of nodes, pods and slices.         *)
EXTENDS Failover, TLAPS

-----------------------------------------------------------------------------
(* Restarts *)

\* A restart that is made or still ahead is the only one of the episode, and one
\* that is ahead keeps the backoff from ending.
RestartInv ==
  /\ restarts \in [Nodes -> Nat] /\ recovery \in [Nodes -> Nat]
  /\ \A n \in Nodes : /\ restarts[n] + recovery[n] <= 1
                      /\ recovery[n] > 0 => n \in cooling

LEMMA RestartInvInit == Init => RestartInv
BY DEF Init, RestartInv

\* Only the taint, the goroutine, the end of the backoff and a restart of the
\* operator touch what RestartInv is about.
LEMMA RestartInvStep == RestartInv /\ [Next]_vars => RestartInv'
<1> SUFFICES ASSUME RestartInv, [Next]_vars PROVE RestartInv'
  OBVIOUS
<1> USE DEF RestartInv
<1>1. ASSUME NEW n \in Nodes, TaintNode(n) PROVE RestartInv'
  <2>1. CASE MayClaim(n)
    <3>1. recovery[n] = 0
      BY <2>1 DEF MayClaim
    <3> QED BY <1>1, <2>1, <3>1 DEF TaintNode
  <2>2. CASE ~MayClaim(n)
    BY <1>1, <2>2 DEF TaintNode
  <2> QED BY <2>1, <2>2
<1>2. ASSUME NEW n \in Nodes, NEW done \in BOOLEAN, Restart(n, done) PROVE RestartInv'
  BY <1>2 DEF Restart
<1>3. ASSUME NEW n \in Nodes, BackoffEnds(n) PROVE RestartInv'
  BY <1>3 DEF BackoffEnds
<1>4. CASE OperatorRestarts
  BY <1>4 DEF OperatorRestarts
<1>5. CASE UNCHANGED vars
  BY <1>5 DEF vars, recoveryVars
<1>6. ASSUME UNCHANGED recoveryVars PROVE RestartInv'
  BY <1>6 DEF recoveryVars
<1>7. ASSUME NEW n \in Nodes, NEW fails \in BOOLEAN, Untaint(n, fails) PROVE RestartInv'
  BY <1>7 DEF Untaint
<1>8. CASE Round
  <2>1. CASE Begin \/ ReadHealth \/ PatchStatus \/ \E p \in Pods : EnsureGate(p)
    BY <1>6, <2>1 DEF Begin, ReadHealth, PatchStatus, EnsureGate
  <2>2. ASSUME NEW n \in Nodes, Controller(n) PROVE RestartInv'
    BY <1>1, <1>6, <1>7, <2>2
    DEF Controller, Visit, ApplyShadow, DeleteShadow, SetGate, StageDone, OperationDone, LeaveTaint
  <2> QED BY <1>8, <2>1, <2>2 DEF Round
<1>9. CASE Trouble
  <2>1. CASE ReconcileFails \/ \E p \in Pods : PodReplaced(p)
    BY <1>6, <2>1 DEF ReconcileFails, PodReplaced
  <2>2. ASSUME NEW n \in Nodes, OperationFails(n) \/ TaintFails(n) PROVE RestartInv'
    BY <1>6, <2>2 DEF OperationFails, TaintFails
  <2> QED BY <1>4, <1>7, <1>9, <2>1, <2>2 DEF Trouble
<1>10. ASSUME NEW n \in Nodes, VerdictChanges(n) PROVE RestartInv'
  BY <1>6, <1>10 DEF VerdictChanges
<1> QED BY <1>2, <1>3, <1>5, <1>8, <1>9, <1>10 DEF Next

\* The CNI agent is restarted at most once per fault episode, whatever the number
\* of nodes and however often the operator restarts.
THEOREM OneRestartPerEpisode == Spec => []AtMostOneRestart
<1>1. RestartInv => AtMostOneRestart
  BY DEF RestartInv, AtMostOneRestart
<1> QED BY <1>1, RestartInvInit, RestartInvStep, PTL DEF Spec

-----------------------------------------------------------------------------
(* Types *)

LEMMA StageTails ==
  /\ \A st \in StageLists : st # <<>> => Tail(st) \in StageLists
  /\ \A op \in {"Failover", "Isolate", "Failback"} : Stages[op] \in StageLists
BY DEF StageLists, Stages

LEMMA IdleTypes == Idle \in Reconciles /\ CutShort \in Reconciles
<1>1. NoStatus.path \in [Nodes -> Paths] /\ NoStatus.said \in [Nodes -> SUBSET Messages]
  BY DEF NoStatus, Paths, Messages
<1>2. Idle \in Reconciles
  BY <1>1 DEF Idle, Reconciles, StageLists, Verdicts
<1> QED BY <1>2 DEF CutShort, Reconciles

LEMMA TypeInit == Init => TypeOK
<1> SUFFICES ASSUME Init PROVE TypeOK
  OBVIOUS
<1>1. NoStatus.path \in [Nodes -> Paths] /\ NoStatus.said \in [Nodes -> SUBSET Messages]
  BY DEF NoStatus, Paths, Messages
<1>2. Idle \in Reconciles
  BY IdleTypes
<1>3. cr \in [phase : {"", "FailedOver", "Unknown", "Healthy", "Degraded"},
              path : [Nodes -> Paths], said : [Nodes -> SUBSET Messages]]
  BY <1>1 DEF Init, NoStatus
<1>4. /\ verdict \in [Nodes -> Verdicts]
      /\ gate \in [Pods -> {"none", "True", "False"}]
      /\ ctl \in Reconciles
  BY <1>2 DEF Init, Verdicts
<1>5. shadow \in [Nodes -> [Slices -> SUBSET Pods]]
  BY DEF Init
<1>6. recovery \in [Nodes -> 0..1] /\ restarts \in [Nodes -> Nat]
  BY DEF Init
<1>7. taint \subseteq Nodes /\ cooling \subseteq Nodes /\ pending \subseteq Nodes
  BY DEF Init
<1> QED BY <1>3, <1>4, <1>5, <1>6, <1>7 DEF TypeOK

LEMMA StartTypes ==
  ASSUME TypeOK, NEW n \in Nodes, NEW op \in {"Failover", "Isolate", "Failback"}, Start(op, n)
  PROVE  ctl' \in Reconciles
<1>1. Stages[op] \in StageLists
  BY StageTails
<1>2. {p \in Targets(op, n) : gate[p] # GateValue(op)} \subseteq Pods
  BY PodsAssumption DEF Targets
<1> QED BY <1>1, <1>2 DEF Start, TypeOK, Reconciles

LEMMA RecordTypes ==
  ASSUME TypeOK, NEW n \in Nodes, NEW pc \in {"loop", "taint"},
         NEW path \in Paths, NEW said \in SUBSET Messages, Record(pc, n, path, said)
  PROVE  ctl' \in Reconciles
BY DEF Record, TypeOK, Reconciles

LEMMA VisitTypes ==
  ASSUME TypeOK, NEW n \in Nodes, Visit(n)
  PROVE  ctl' \in Reconciles
<1>1. Kept(n) \in Paths
  BY DEF Kept, Paths
<1>2. CASE IsDown(ctl.verdict[n])
  <2>1. handlePrimaryDown(n)
    BY <1>2 DEF Visit, IsDown
  <2>2. \/ Record("taint", n, "backup", {"on backup"})
        \/ Record("taint", n, Kept(n), {})
        \/ Start("Isolate", n)
        \/ Record("taint", n, "primary", {})
        \/ Start("Failover", n)
    BY <2>1 DEF handlePrimaryDown
  <2> QED BY <1>1, <2>2, StartTypes, RecordTypes DEF Paths, Messages
<1>3. CASE ~IsDown(ctl.verdict[n])
  <2>1. Start("Failback", n) \/ Record("loop", n, Kept(n), {})
    BY <1>3 DEF Visit, IsDown
  <2> QED BY <1>1, <2>1, StartTypes, RecordTypes
<1> QED BY <1>2, <1>3

\* What an operation writes, and where it keeps its place.
WorkTyped ==
  /\ ctl \in Reconciles
  /\ shadow \in [Nodes -> [Slices -> SUBSET Pods]]
  /\ gate \in [Pods -> {"none", "True", "False"}]

LEMMA WorkTypes ==
  ASSUME TypeOK, NEW n \in Nodes,
         \/ \E s \in Slices : ApplyShadow(n, s) \/ DeleteShadow(n, s)
         \/ \E p \in Pods : SetGate(n, p)
         \/ StageDone(n) \/ OperationDone(n) \/ OperationFails(n)
  PROVE  WorkTyped'
<1> USE DEF TypeOK, WorkTyped
<1>1. ASSUME NEW s \in Slices, ApplyShadow(n, s) PROVE WorkTyped'
  <2>1. ToShadow(n, s) \subseteq Pods
    BY DEF ToShadow, Movable, PodsOn
  <2>2. shadow' \in [Nodes -> [Slices -> SUBSET Pods]]
    BY <1>1, <2>1 DEF ApplyShadow
  <2> QED BY <1>1, <2>2 DEF ApplyShadow, Reconciles
<1>2. ASSUME NEW p \in Pods, SetGate(n, p) PROVE WorkTyped'
  BY <1>2 DEF SetGate, GateValue, Reconciles
<1>3. ASSUME NEW s \in Slices, DeleteShadow(n, s) PROVE WorkTyped'
  BY <1>3 DEF DeleteShadow
<1>4. CASE StageDone(n)
  <2>1. ctl.stages \in StageLists /\ ctl.stages # <<>>
    BY <1>4 DEF StageDone, At, Reconciles
  <2>2. Tail(ctl.stages) \in StageLists
    BY <2>1, StageTails
  <2>3. ctl' \in Reconciles
    BY <1>4, <2>2 DEF StageDone, Reconciles
  <2> QED BY <1>4, <2>3 DEF StageDone, clusterVars
<1>5. CASE OperationDone(n)
  <2>1. ctl' \in Reconciles
    <3>1. ASSUME ctl' = [ctl EXCEPT !.pc = "taint", !.failedOver = @ \cup {n},
                          !.path[n] = "backup", !.said[n] = {"on backup"}]
          PROVE  ctl' \in Reconciles
      <4>1. /\ [ctl.path EXCEPT ![n] = "backup"] \in [Nodes -> Paths]
            /\ [ctl.said EXCEPT ![n] = {"on backup"}] \in [Nodes -> SUBSET Messages]
            /\ ctl.failedOver \cup {n} \in SUBSET Nodes
        BY DEF Reconciles, Paths, Messages
      <4>2. ctl' = [ctl EXCEPT !.pc = "taint", !.failedOver = ctl.failedOver \cup {n},
                     !.path = [ctl.path EXCEPT ![n] = "backup"],
                     !.said = [ctl.said EXCEPT ![n] = {"on backup"}]]
        BY <3>1 DEF Reconciles
      <4> QED BY <4>1, <4>2 DEF Reconciles
    <3>2. ASSUME ctl' = [ctl EXCEPT !.pc = "taint", !.failedOver = @ \ {n}, !.path[n] = "none"]
          PROVE  ctl' \in Reconciles
      BY <3>2 DEF Reconciles, Paths
    <3>3. ASSUME ctl' = [ctl EXCEPT !.pc = "untaint", !.failedOver = @ \ {n}]
          PROVE  ctl' \in Reconciles
      BY <3>3 DEF Reconciles
    <3> QED BY <1>5, <3>1, <3>2, <3>3 DEF OperationDone
  <2> QED BY <1>5, <2>1 DEF OperationDone, clusterVars
<1>6. CASE OperationFails(n)
  <2>1. (IF ctl.op = "Failover" THEN "primary" ELSE Kept(n)) \in Paths
    BY DEF Kept, Paths
  <2>2. ctl' \in Reconciles
    BY <1>6, <2>1 DEF OperationFails, Reconciles
  <2> QED BY <1>6, <2>2 DEF OperationFails, clusterVars
<1> QED BY <1>1, <1>2, <1>3, <1>4, <1>5, <1>6

LEMMA StatusTypes ==
  ASSUME TypeOK, PatchStatus
  PROVE  cr' \in [phase : {"", "FailedOver", "Unknown", "Healthy", "Degraded"},
                  path : [Nodes -> Paths], said : [Nodes -> SUBSET Messages]]
<1>1. computePhase \in {"", "FailedOver", "Unknown", "Healthy", "Degraded"}
  BY DEF computePhase
<1>2. ctl.path \in [Nodes -> Paths] /\ ctl.said \in [Nodes -> SUBSET Messages]
  BY DEF TypeOK, Reconciles
<1> QED BY <1>1, <1>2 DEF PatchStatus

\* The steps of a reconcile before the loop over the nodes, and its end.
LEMMA ReconcileTypes ==
  ASSUME TypeOK,
         \/ Begin \/ \E p \in Pods : EnsureGate(p)
         \/ ReadHealth \/ ReconcileFails \/ PatchStatus \/ OperatorRestarts
  PROVE  /\ ctl' \in Reconciles
         /\ gate' \in [Pods -> {"none", "True", "False"}]
<1> USE DEF TypeOK
<1>1. CASE Begin
  <2>1. Shadowed \subseteq Nodes /\ {q \in Gated : HostOf[q] \notin Shadowed /\ gate[q] = "none"} \subseteq Pods
    BY PodsAssumption DEF Shadowed
  <2>2. ctl' \in Reconciles
    BY <1>1, <2>1, IdleTypes DEF Begin, Reconciles
  <2> QED BY <1>1, <2>2 DEF Begin, clusterVars
<1>2. ASSUME NEW p \in Pods, EnsureGate(p)
      PROVE  ctl' \in Reconciles /\ gate' \in [Pods -> {"none", "True", "False"}]
  BY <1>2 DEF EnsureGate, Reconciles
<1>3. CASE ReadHealth
  BY <1>3 DEF ReadHealth, Reconciles, clusterVars
<1>4. CASE ReconcileFails \/ PatchStatus \/ OperatorRestarts
  BY <1>4, IdleTypes DEF ReconcileFails, PatchStatus, OperatorRestarts, clusterVars
<1> QED BY <1>1, <1>2, <1>3, <1>4

\* The steps around the taint.
LEMMA TaintTypes ==
  ASSUME TypeOK, NEW n \in Nodes, NEW fails \in BOOLEAN,
         TaintNode(n) \/ LeaveTaint(n) \/ TaintFails(n) \/ Untaint(n, fails)
  PROVE  /\ ctl' \in Reconciles
         /\ taint' \subseteq Nodes /\ cooling' \subseteq Nodes /\ pending' \subseteq Nodes
<1> USE DEF TypeOK
<1>1. CASE TaintNode(n)
  <2>1. ctl' \in Reconciles
    BY <1>1 DEF TaintNode, Reconciles
  <2>2. taint' \subseteq Nodes /\ cooling' \subseteq Nodes /\ pending' \subseteq Nodes
    BY <1>1 DEF TaintNode
  <2> QED BY <2>1, <2>2
<1>2. CASE LeaveTaint(n)
  <2>1. (IF AutoRecover THEN ctl.said[n] \cup {"restarted"} ELSE ctl.said[n]) \in SUBSET Messages
    BY DEF Reconciles, Messages
  <2>2. ctl' \in Reconciles
    BY <1>2, <2>1 DEF LeaveTaint, Reconciles
  <2> QED BY <1>2, <2>2 DEF LeaveTaint, clusterVars, recoveryVars
<1>3. CASE TaintFails(n)
  BY <1>3 DEF TaintFails, Reconciles, clusterVars, recoveryVars
<1>4. CASE Untaint(n, fails)
  BY <1>4 DEF Untaint, Reconciles
<1> QED BY <1>1, <1>2, <1>3, <1>4

\* With RestartInv, which bounds what the goroutines count, TypeOK is inductive.
LEMMA TypeStep ==
  ASSUME TypeOK, RestartInv, RestartInv', [Next]_vars
  PROVE  TypeOK'
<1>1. recovery' \in [Nodes -> 0..1] /\ restarts' \in [Nodes -> Nat]
  BY DEF RestartInv
<1>2. CASE UNCHANGED vars
  BY <1>2 DEF vars, clusterVars, recoveryVars, TypeOK
<1>3. CASE \/ Begin \/ \E p \in Pods : EnsureGate(p)
          \/ ReadHealth \/ ReconcileFails \/ PatchStatus \/ OperatorRestarts
  <2>1. CASE PatchStatus
    BY <1>1, <2>1, ReconcileTypes, StatusTypes DEF PatchStatus, TypeOK, clusterVars, recoveryVars
  <2>2. CASE OperatorRestarts
    BY <1>1, <2>2, ReconcileTypes DEF OperatorRestarts, TypeOK, clusterVars
  <2>3. ASSUME NEW p \in Pods, EnsureGate(p) PROVE TypeOK'
    BY <1>1, <2>3, ReconcileTypes DEF EnsureGate, TypeOK, recoveryVars
  <2>4. CASE Begin \/ ReadHealth \/ ReconcileFails
    BY <1>1, <2>4, ReconcileTypes DEF Begin, ReadHealth, ReconcileFails, TypeOK, clusterVars, recoveryVars
  <2> QED BY <1>3, <2>1, <2>2, <2>3, <2>4
<1>4. ASSUME NEW n \in Nodes,
             \/ \E s \in Slices : ApplyShadow(n, s) \/ DeleteShadow(n, s)
             \/ \E p \in Pods : SetGate(n, p)
             \/ StageDone(n) \/ OperationDone(n) \/ OperationFails(n)
      PROVE  TypeOK'
  <2>1. WorkTyped'
    BY <1>4, WorkTypes
  <2>2. UNCHANGED <<verdict, taint, cr, cooling, pending>>
    BY <1>4 DEF ApplyShadow, DeleteShadow, SetGate, StageDone, OperationDone, OperationFails,
                clusterVars, recoveryVars
  <2> QED BY <1>1, <2>1, <2>2 DEF TypeOK, WorkTyped
<1>5. ASSUME NEW n \in Nodes, Visit(n) PROVE TypeOK'
  BY <1>1, <1>5, VisitTypes DEF Visit, TypeOK, clusterVars, recoveryVars
<1>6. ASSUME NEW n \in Nodes, NEW fails \in BOOLEAN,
             TaintNode(n) \/ LeaveTaint(n) \/ TaintFails(n) \/ Untaint(n, fails)
      PROVE  TypeOK'
  <2>1. UNCHANGED <<verdict, gate, shadow, cr>>
    BY <1>6 DEF TaintNode, LeaveTaint, TaintFails, Untaint, clusterVars
  <2> QED BY <1>1, <1>6, <2>1, TaintTypes DEF TypeOK
<1>7. ASSUME NEW n \in Nodes, NEW done \in BOOLEAN, Restart(n, done) \/ BackoffEnds(n)
      PROVE  TypeOK'
  BY <1>1, <1>7 DEF Restart, BackoffEnds, TypeOK, clusterVars
<1>8. ASSUME NEW n \in Nodes, VerdictChanges(n) PROVE TypeOK'
  BY <1>1, <1>8 DEF VerdictChanges, TypeOK, clusterVars, recoveryVars
<1>9. ASSUME NEW p \in Pods, PodReplaced(p) PROVE TypeOK'
  BY <1>1, <1>9 DEF PodReplaced, TypeOK, recoveryVars
<1>10. ASSUME NEW n \in Nodes, Controller(n) PROVE TypeOK'
  BY <1>4, <1>5, <1>6, <1>10 DEF Controller
<1>11. CASE Round
  BY <1>3, <1>10, <1>11 DEF Round
<1>12. CASE Trouble
  BY <1>3, <1>4, <1>6, <1>9, <1>12 DEF Trouble
<1> QED BY <1>2, <1>7, <1>8, <1>11, <1>12 DEF Next

\* Type correctness, for every set of nodes, pods and slices.
THEOREM FailoverTypes == Spec => []TypeOK
<1>1. Init => TypeOK /\ RestartInv
  BY TypeInit, RestartInvInit
<1>2. TypeOK /\ RestartInv /\ [Next]_vars => (TypeOK /\ RestartInv)'
  BY TypeStep, RestartInvStep
<1> QED BY <1>1, <1>2, PTL DEF Spec

-----------------------------------------------------------------------------
(* The phase *)

\* In a reconcile every node with a shadow counts as failed over or is proven
\* broken: only a node that is proven broken gets a shadow, and a node leaves
\* failedOver only when it is broken or has no shadow left.
Accounted ==
  \A n \in Shadowed : n \in ctl.failedOver \/ IsDown(ctl.verdict[n])

WorkAccounted ==
  \A n \in ctl.node :
    \/ ctl.op \in {"Failover", "Isolate"} /\ IsDown(ctl.verdict[n])
    \/ /\ ctl.op = "Failback"
       /\ ctl.stages \in {<<"gates", "unshadow">>, <<"unshadow">>, <<>>}
       /\ ctl.stages = <<>> => n \notin Shadowed

ShadowInv ==
  /\ \A m, n \in ctl.node : m = n
  /\ ctl.pc = "ensure" => Shadowed \subseteq ctl.failedOver
  /\ ctl.pc \notin {"idle", "cut short"} => Accounted
  /\ ctl.pc = "work" => WorkAccounted

LEMMA ShadowInit == Init => ShadowInv
BY DEF Init, ShadowInv, Idle

\* Steps that write no shadow and go nowhere the invariant looks at.
LEMMA ShadowElsewhere ==
  ASSUME TypeOK, ShadowInv, UNCHANGED shadow,
         \/ UNCHANGED ctl
         \/ ctl' \in {Idle, CutShort}
         \/ /\ ctl' \in Reconciles /\ ctl.pc \notin {"idle", "cut short"} /\ ctl'.pc \in {"loop", "taint"}
            /\ ctl'.failedOver = ctl.failedOver /\ ctl'.verdict = ctl.verdict
            /\ \A m, n \in ctl'.node : m = n
  PROVE  ShadowInv'
<1>1. Shadowed' = Shadowed
  BY DEF Shadowed
<1>2. CASE UNCHANGED ctl
  BY <1>1, <1>2 DEF ShadowInv, Accounted, WorkAccounted
<1>3. CASE ctl' \in {Idle, CutShort}
  <2>1. CASE ctl' = Idle
    BY <2>1 DEF ShadowInv, Idle
  <2>2. CASE ctl' = CutShort
    <3>1. CutShort.pc = "cut short" /\ CutShort.node = {}
      BY DEF CutShort, Idle
    <3> QED BY <2>2, <3>1 DEF ShadowInv
  <2> QED BY <1>3, <2>1, <2>2
<1>4. CASE /\ ctl.pc \notin {"idle", "cut short"} /\ ctl'.pc \in {"loop", "taint"}
           /\ ctl'.failedOver = ctl.failedOver /\ ctl'.verdict = ctl.verdict
           /\ \A m, n \in ctl'.node : m = n
  BY <1>1, <1>4 DEF ShadowInv, Accounted
<1> QED BY <1>2, <1>3, <1>4

LEMMA ShadowBegin ==
  ASSUME TypeOK, ShadowInv, \/ Begin \/ ReadHealth \/ \E p \in Pods : EnsureGate(p)
  PROVE  ShadowInv'
<1>1. Shadowed' = Shadowed
  BY DEF Shadowed, Begin, ReadHealth, EnsureGate, clusterVars
<1>2. CASE Begin
  BY <1>1, <1>2 DEF Begin, Idle, ShadowInv, Accounted
<1>3. CASE ReadHealth
  BY <1>1, <1>3 DEF ReadHealth, ShadowInv, Accounted, TypeOK, Reconciles
<1>4. ASSUME NEW p \in Pods, EnsureGate(p) PROVE ShadowInv'
  BY <1>1, <1>4 DEF EnsureGate, ShadowInv, Accounted, TypeOK, Reconciles
<1> QED BY <1>2, <1>3, <1>4

LEMMA ShadowVisit ==
  ASSUME TypeOK, ShadowInv, NEW n \in Nodes, Visit(n)
  PROVE  ShadowInv'
<1>1. Shadowed' = Shadowed
  BY DEF Shadowed, Visit, clusterVars
<1>2. ASSUME NEW op, Start(op, n),
             \/ op = "Failback"
             \/ op \in {"Failover", "Isolate"} /\ IsDown(ctl.verdict[n])
      PROVE  ShadowInv'
  <2>1. /\ ctl'.pc = "work" /\ ctl'.node = {n} /\ ctl'.op = op /\ ctl'.stages = Stages[op]
        /\ ctl'.failedOver = ctl.failedOver /\ ctl'.verdict = ctl.verdict
    BY <1>2 DEF Start, TypeOK, Reconciles
  <2>2. Stages["Failback"] = <<"gates", "unshadow">> /\ Stages["Failback"] # <<>>
    BY DEF Stages
  <2>3. WorkAccounted'
    BY <1>2, <2>1, <2>2 DEF WorkAccounted, IsDown
  <2>4. Accounted'
    BY <1>1, <2>1 DEF Visit, ShadowInv, Accounted
  <2> QED BY <2>1, <2>3, <2>4 DEF ShadowInv
<1>3. ASSUME NEW pc \in {"loop", "taint"}, NEW path, NEW said, Record(pc, n, path, said)
      PROVE  ShadowInv'
  <2>1. /\ ctl'.pc = pc /\ ctl'.node = {n}
        /\ ctl'.failedOver = ctl.failedOver /\ ctl'.verdict = ctl.verdict
    BY <1>3 DEF Record, TypeOK, Reconciles
  <2>2. Accounted'
    BY <1>1, <2>1 DEF Visit, ShadowInv, Accounted
  <2> QED BY <2>1, <2>2 DEF ShadowInv
<1>4. CASE IsDown(ctl.verdict[n]) /\ handlePrimaryDown(n)
  BY <1>2, <1>3, <1>4 DEF handlePrimaryDown
<1> QED BY <1>2, <1>3, <1>4 DEF Visit

\* Which stages are shadow stages.
LEMMA ShadowStages ==
  /\ Tail(<<"gates", "unshadow">>) = <<"unshadow">>
  /\ Tail(<<"unshadow">>) = <<>>
  /\ Head(<<"gates", "unshadow">>) = "gates" /\ Head(<<"unshadow">>) = "unshadow"
  /\ <<"unshadow">> # <<>>
OBVIOUS

LEMMA ShadowWork ==
  ASSUME TypeOK, ShadowInv, NEW n \in Nodes,
         \/ \E s \in Slices : ApplyShadow(n, s) \/ DeleteShadow(n, s)
         \/ \E p \in Pods : SetGate(n, p)
         \/ StageDone(n) \/ OperationDone(n) \/ OperationFails(n)
  PROVE  ShadowInv'
<1>1. /\ ctl.pc = "work" /\ n \in ctl.node /\ \A m \in ctl.node : m = n
      /\ Accounted /\ WorkAccounted
  BY DEF ShadowInv, ApplyShadow, DeleteShadow, SetGate, StageDone, OperationDone, OperationFails, At
<1>2. ASSUME NEW s \in Slices, ApplyShadow(n, s) PROVE ShadowInv'
  <2>1. Shadowed' \subseteq Shadowed \cup {n}
    BY <1>2 DEF ApplyShadow, Shadowed, TypeOK
  <2>2. /\ ctl'.pc = "work" /\ ctl'.node = ctl.node /\ ctl'.op = ctl.op
        /\ ctl'.failedOver = ctl.failedOver /\ ctl'.verdict = ctl.verdict
    BY <1>1, <1>2 DEF ApplyShadow, TypeOK, Reconciles
  <2>3. ctl.stages # <<>> /\ Head(ctl.stages) = "shadows"
    BY <1>2 DEF ApplyShadow, At
  <2>4. ctl.op \in {"Failover", "Isolate"} /\ IsDown(ctl.verdict[n])
    BY <1>1, <2>3, ShadowStages DEF WorkAccounted
  <2>5. Accounted' /\ WorkAccounted'
    BY <1>1, <2>1, <2>2, <2>4 DEF Accounted, WorkAccounted, IsDown
  <2> QED BY <1>1, <2>2, <2>5 DEF ShadowInv
<1>3. ASSUME NEW s \in Slices, DeleteShadow(n, s) PROVE ShadowInv'
  <2>1. Shadowed' \subseteq Shadowed
    BY <1>3 DEF DeleteShadow, Shadowed, TypeOK
  <2>2. ctl' = ctl
    BY <1>3 DEF DeleteShadow
  <2> QED BY <1>1, <2>1, <2>2 DEF Accounted, WorkAccounted, ShadowInv
<1>4. ASSUME NEW p \in Pods, SetGate(n, p) PROVE ShadowInv'
  <2>1. Shadowed' = Shadowed
    BY <1>4 DEF SetGate, Shadowed
  <2>2. /\ ctl'.pc = "work" /\ ctl'.node = ctl.node /\ ctl'.op = ctl.op /\ ctl'.stages = ctl.stages
        /\ ctl'.failedOver = ctl.failedOver /\ ctl'.verdict = ctl.verdict
    BY <1>1, <1>4 DEF SetGate, TypeOK, Reconciles
  <2>3. Accounted' /\ WorkAccounted'
    BY <1>1, <2>1, <2>2 DEF Accounted, WorkAccounted, IsDown
  <2> QED BY <1>1, <2>2, <2>3 DEF ShadowInv
<1>5. CASE StageDone(n)
  <2>1. Shadowed' = Shadowed
    BY <1>5 DEF StageDone, clusterVars, Shadowed
  <2>2. /\ ctl'.pc = "work" /\ ctl'.node = ctl.node /\ ctl'.op = ctl.op /\ ctl'.stages = Tail(ctl.stages)
        /\ ctl'.failedOver = ctl.failedOver /\ ctl'.verdict = ctl.verdict
    BY <1>1, <1>5 DEF StageDone, TypeOK, Reconciles
  <2>3. Accounted'
    BY <1>1, <2>1, <2>2 DEF Accounted, IsDown
  <2>4. CASE ctl.op \in {"Failover", "Isolate"} /\ IsDown(ctl.verdict[n])
    <3>1. WorkAccounted'
      BY <1>1, <2>2, <2>4 DEF WorkAccounted, IsDown
    <3> QED BY <1>1, <2>2, <2>3, <3>1 DEF ShadowInv
  <2>5. CASE /\ ctl.op = "Failback"
             /\ ctl.stages \in {<<"gates", "unshadow">>, <<"unshadow">>, <<>>}
    <3>1. ctl.stages # <<>>
      BY <1>5 DEF StageDone, At
    <3>2. CASE ctl.stages = <<"gates", "unshadow">>
      <4>1. ctl'.stages = <<"unshadow">>
        BY <2>2, <3>2, ShadowStages
      <4>2. WorkAccounted'
        BY <1>1, <2>2, <2>5, <4>1, ShadowStages DEF WorkAccounted
      <4> QED BY <1>1, <2>2, <2>3, <4>2 DEF ShadowInv
    <3>3. CASE ctl.stages = <<"unshadow">>
      <4>1. \A s \in Slices : shadow[n][s] = {}
        BY <1>5, <3>3, ShadowStages DEF StageDone, At
      <4>2. n \notin Shadowed' /\ ctl'.stages = <<>>
        BY <2>1, <2>2, <3>3, <4>1, ShadowStages DEF Shadowed
      <4>3. WorkAccounted'
        BY <1>1, <2>2, <2>5, <4>2 DEF WorkAccounted
      <4> QED BY <1>1, <2>2, <2>3, <4>3 DEF ShadowInv
    <3> QED BY <2>5, <3>1, <3>2, <3>3
  <2> QED BY <1>1, <2>4, <2>5 DEF WorkAccounted
<1>6. CASE OperationDone(n)
  <2>1. Shadowed' = Shadowed
    BY <1>6 DEF OperationDone, clusterVars, Shadowed
  <2>2. /\ ctl'.pc \in {"taint", "untaint"} /\ ctl'.node = ctl.node
        /\ ctl'.failedOver \in {ctl.failedOver \cup {n}, ctl.failedOver \ {n}}
        /\ ctl'.verdict = ctl.verdict
    <3>1. ctl \in Reconciles
      BY DEF TypeOK
    <3>2. \/ ctl' = [ctl EXCEPT !.pc = "taint", !.failedOver = @ \cup {n},
                       !.path[n] = "backup", !.said[n] = {"on backup"}]
          \/ ctl' = [ctl EXCEPT !.pc = "taint", !.failedOver = @ \ {n}, !.path[n] = "none"]
          \/ ctl' = [ctl EXCEPT !.pc = "untaint", !.failedOver = @ \ {n}]
      BY <1>6 DEF OperationDone
    <3> QED BY <3>1, <3>2 DEF Reconciles
  <2>3. ctl.stages = <<>>
    BY <1>6 DEF OperationDone
  <2>4. IsDown(ctl.verdict[n]) \/ n \notin Shadowed
    BY <1>1, <2>3 DEF WorkAccounted
  <2>5. Accounted'
    BY <1>1, <2>1, <2>2, <2>4 DEF Accounted, IsDown
  <2> QED BY <1>1, <2>2, <2>5 DEF ShadowInv
<1>7. CASE OperationFails(n)
  <2>1. UNCHANGED shadow
    BY <1>7 DEF OperationFails, clusterVars
  <2>2. /\ ctl'.pc \in {"loop", "taint"} /\ ctl'.node = ctl.node
        /\ ctl'.failedOver = ctl.failedOver /\ ctl'.verdict = ctl.verdict
    BY <1>7 DEF OperationFails, TypeOK, Reconciles
  <2>3. ctl' \in Reconciles
    BY <1>7, WorkTypes DEF WorkTyped
  <2> QED BY <1>1, <2>1, <2>2, <2>3, ShadowElsewhere
<1> QED BY <1>2, <1>3, <1>4, <1>5, <1>6, <1>7

\* The steps around the taint leave shadows and verdicts alone.
LEMMA ShadowTaint ==
  ASSUME TypeOK, ShadowInv, NEW n \in Nodes, NEW fails \in BOOLEAN,
         TaintNode(n) \/ LeaveTaint(n) \/ TaintFails(n) \/ Untaint(n, fails)
  PROVE  ShadowInv'
<1>1. UNCHANGED shadow
  BY DEF TaintNode, LeaveTaint, TaintFails, Untaint, clusterVars
<1>2. /\ ctl.pc \notin {"idle", "cut short"} /\ ctl'.pc = "loop" /\ ctl'.node = ctl.node
      /\ ctl'.failedOver = ctl.failedOver /\ ctl'.verdict = ctl.verdict
  BY DEF TaintNode, LeaveTaint, TaintFails, Untaint, TypeOK, Reconciles
<1>3. ctl' \in Reconciles
  BY TaintTypes
<1> QED BY <1>1, <1>2, <1>3, ShadowElsewhere DEF ShadowInv

LEMMA ShadowStep ==
  ASSUME TypeOK, ShadowInv, [Next]_vars
  PROVE  ShadowInv'
<1>1. CASE UNCHANGED vars
  BY <1>1, ShadowElsewhere DEF vars, clusterVars
<1>2. CASE ReconcileFails \/ PatchStatus \/ OperatorRestarts
  BY <1>2, ShadowElsewhere DEF ReconcileFails, PatchStatus, OperatorRestarts, clusterVars
<1>3. ASSUME NEW n \in Nodes, NEW done \in BOOLEAN,
             Restart(n, done) \/ BackoffEnds(n) \/ VerdictChanges(n)
      PROVE  ShadowInv'
  BY <1>3, ShadowElsewhere DEF Restart, BackoffEnds, VerdictChanges, clusterVars
<1>4. ASSUME NEW p \in Pods, PodReplaced(p) PROVE ShadowInv'
  BY <1>4, ShadowElsewhere DEF PodReplaced
<1>5. CASE Round
  BY <1>2, <1>5, ShadowBegin, ShadowVisit, ShadowWork, ShadowTaint DEF Round, Controller
<1>6. CASE Trouble
  BY <1>2, <1>4, <1>6, ShadowWork, ShadowTaint DEF Trouble
<1> QED BY <1>1, <1>3, <1>5, <1>6 DEF Next

\* The phase Healthy is recorded only when no shadow is left on any node, however
\* many operations failed half way in this reconcile and the ones before it.
THEOREM HealthyMeansNoShadow == Spec => HealthyHasNoShadow
<1>1. ASSUME TypeOK, ShadowInv, PatchStatus, cr'.phase = "Healthy" PROVE Shadowed = {}
  <2>1. computePhase = "Healthy"
    BY <1>1 DEF PatchStatus
  <2>2. ctl.failedOver = {} /\ \A n \in Nodes : ctl.verdict[n] = "working"
    BY <2>1 DEF computePhase
  <2>3. Accounted
    BY <1>1 DEF PatchStatus, ShadowInv
  <2> QED BY <2>2, <2>3 DEF Accounted, Shadowed, IsDown
<1>2. TypeOK /\ ShadowInv /\ [Next]_vars => [PatchStatus /\ cr'.phase = "Healthy" => Shadowed = {}]_vars
  BY <1>1
<1>3. TypeOK /\ ShadowInv /\ [Next]_vars => ShadowInv'
  BY ShadowStep
<1> QED BY <1>2, <1>3, ShadowInit, FailoverTypes, PTL DEF Spec, HealthyHasNoShadow

-----------------------------------------------------------------------------
(* Failing back *)

\* A shadow holds pods of its node only, and a node that fails back drops its
\* shadows when every gate that was off has been seen to: a gate that is still off
\* is still to be written, in the stage before.
FailbackInv ==
  /\ \A n \in Nodes, s \in Slices : shadow[n][s] \subseteq PodsOn(n)
  /\ ctl.pc = "work" /\ ctl.op = "Failback" =>
       \A n \in ctl.node : \A p \in PodsOn(n) \cap Gated :
         gate[p] = "False" => ctl.stages = <<"gates", "unshadow">> /\ p \in ctl.pods

LEMMA FailbackInit == Init => FailbackInv
BY DEF Init, FailbackInv, Idle

\* Steps that set no gate to "False" and end the operation or leave it where it is.
LEMMA FailbackElsewhere ==
  ASSUME FailbackInv, UNCHANGED shadow,
         \/ UNCHANGED <<gate, ctl>>
         \/ ctl'.pc # "work"
  PROVE  FailbackInv'
BY DEF FailbackInv, PodsOn

LEMMA FailbackVisit ==
  ASSUME TypeOK, FailbackInv, NEW n \in Nodes, Visit(n)
  PROVE  FailbackInv'
<1>1. UNCHANGED <<gate, shadow>>
  BY DEF Visit, clusterVars
<1>2. ASSUME NEW op, Start(op, n) PROVE FailbackInv'
  <2>1. /\ ctl'.node = {n} /\ ctl'.op = op /\ ctl'.stages = Stages[op]
        /\ ctl'.pods = {p \in Targets(op, n) : gate[p] # GateValue(op)}
    BY <1>2 DEF Start, TypeOK, Reconciles
  <2>2. ASSUME op = "Failback", NEW p \in PodsOn(n) \cap Gated, gate[p] = "False"
        PROVE  ctl'.stages = <<"gates", "unshadow">> /\ p \in ctl'.pods
    BY <2>1, <2>2 DEF Stages, Targets, GateValue
  <2> QED BY <1>1, <2>1, <2>2 DEF FailbackInv, PodsOn
<1>3. ASSUME NEW pc \in {"loop", "taint"}, NEW path, NEW said, Record(pc, n, path, said)
      PROVE  FailbackInv'
  <2>1. ctl'.pc # "work"
    BY <1>3 DEF Record, TypeOK, Reconciles
  <2> QED BY <1>1, <2>1, FailbackElsewhere
<1>4. CASE IsDown(ctl.verdict[n]) /\ handlePrimaryDown(n)
  BY <1>2, <1>3, <1>4 DEF handlePrimaryDown
<1> QED BY <1>2, <1>3, <1>4 DEF Visit

LEMMA FailbackWork ==
  ASSUME TypeOK, ShadowInv, FailbackInv, NEW n \in Nodes,
         \/ \E s \in Slices : ApplyShadow(n, s) \/ DeleteShadow(n, s)
         \/ \E p \in Pods : SetGate(n, p)
         \/ StageDone(n) \/ OperationDone(n) \/ OperationFails(n)
  PROVE  FailbackInv'
<1>1. /\ ctl.pc = "work" /\ n \in ctl.node /\ \A m \in ctl.node : m = n
  BY DEF ShadowInv, ApplyShadow, DeleteShadow, SetGate, StageDone, OperationDone, OperationFails, At
<1>2. ASSUME NEW s \in Slices, ApplyShadow(n, s) PROVE FailbackInv'
  <2>1. ToShadow(n, s) \subseteq PodsOn(n)
    BY DEF ToShadow, Movable
  <2>2. \A m \in Nodes, z \in Slices :
          shadow'[m][z] = IF m = n /\ z = s THEN ToShadow(n, s) ELSE shadow[m][z]
    BY <1>2 DEF ApplyShadow, TypeOK
  <2>3. /\ ctl'.pc = ctl.pc /\ ctl'.op = ctl.op /\ ctl'.node = ctl.node
        /\ ctl'.stages = ctl.stages /\ ctl'.pods = ctl.pods /\ gate' = gate
    BY <1>2 DEF ApplyShadow, TypeOK, Reconciles
  <2>4. \A m \in Nodes, z \in Slices : shadow'[m][z] \subseteq PodsOn(m)
    BY <2>1, <2>2 DEF FailbackInv
  <2> QED BY <2>3, <2>4 DEF FailbackInv, PodsOn
<1>3. ASSUME NEW s \in Slices, DeleteShadow(n, s) PROVE FailbackInv'
  <2>1. \A m \in Nodes, z \in Slices : shadow'[m][z] \subseteq shadow[m][z]
    BY <1>3 DEF DeleteShadow, TypeOK
  <2>2. UNCHANGED <<ctl, gate>>
    BY <1>3 DEF DeleteShadow
  <2> QED BY <2>1, <2>2 DEF FailbackInv, PodsOn
<1>4. ASSUME NEW p \in Pods, SetGate(n, p) PROVE FailbackInv'
  <2>1. /\ ctl'.op = ctl.op /\ ctl'.node = ctl.node
        /\ ctl'.stages = ctl.stages /\ ctl'.pods = ctl.pods \ {p} /\ shadow' = shadow
    BY <1>4 DEF SetGate, TypeOK, Reconciles
  <2>2. \A q \in Pods : gate'[q] = IF q = p THEN GateValue(ctl.op) ELSE gate[q]
    BY <1>4 DEF SetGate, TypeOK
  <2>3. ASSUME ctl.op = "Failback", NEW q \in PodsOn(n) \cap Gated, gate'[q] = "False"
        PROVE  ctl'.stages = <<"gates", "unshadow">> /\ q \in ctl'.pods
    <3>1. q \in Pods /\ q # p /\ gate[q] = "False"
      BY <2>2, <2>3 DEF PodsOn, GateValue
    <3> QED BY <1>1, <2>1, <2>3, <3>1 DEF FailbackInv
  <2> QED BY <1>1, <2>1, <2>3 DEF FailbackInv, PodsOn
<1>5. CASE StageDone(n)
  <2>1. /\ ctl'.op = ctl.op /\ ctl'.node = ctl.node /\ shadow' = shadow /\ gate' = gate
    BY <1>5 DEF StageDone, clusterVars, TypeOK, Reconciles
  <2>2. ASSUME ctl.op = "Failback", NEW p \in PodsOn(n) \cap Gated, gate[p] = "False"
        PROVE  FALSE
    <3>1. ctl.stages = <<"gates", "unshadow">> /\ p \in ctl.pods
      BY <1>1, <2>2 DEF FailbackInv
    <3> QED BY <1>5, <3>1, ShadowStages DEF StageDone, At
  <2> QED BY <1>1, <2>1, <2>2 DEF FailbackInv, PodsOn
<1>6. CASE OperationDone(n) \/ OperationFails(n)
  <2>1. UNCHANGED shadow /\ ctl'.pc # "work"
    BY <1>6 DEF OperationDone, OperationFails, clusterVars, TypeOK, Reconciles
  <2> QED BY <2>1, FailbackElsewhere
<1> QED BY <1>2, <1>3, <1>4, <1>5, <1>6

LEMMA FailbackStep ==
  ASSUME TypeOK, ShadowInv, FailbackInv, [Next]_vars
  PROVE  FailbackInv'
<1>1. CASE UNCHANGED vars
  BY <1>1, FailbackElsewhere DEF vars, clusterVars
<1>2. CASE \/ Begin \/ ReadHealth \/ (\E p \in Pods : EnsureGate(p))
          \/ ReconcileFails \/ PatchStatus \/ OperatorRestarts
  <2>1. UNCHANGED shadow
    BY <1>2 DEF Begin, ReadHealth, EnsureGate, ReconcileFails, PatchStatus, OperatorRestarts, clusterVars
  <2>2. CASE Begin
    BY <2>1, <2>2, FailbackElsewhere DEF Begin, Idle
  <2>3. CASE ReadHealth \/ \E p \in Pods : EnsureGate(p)
    BY <2>1, <2>3, FailbackElsewhere DEF ReadHealth, EnsureGate, TypeOK, Reconciles
  <2>4. CASE ReconcileFails \/ PatchStatus \/ OperatorRestarts
    <3>1. Idle.pc = "idle" /\ CutShort.pc = "cut short"
      BY DEF Idle, CutShort
    <3> QED BY <2>1, <2>4, <3>1, FailbackElsewhere DEF ReconcileFails, PatchStatus, OperatorRestarts
  <2> QED BY <1>2, <2>2, <2>3, <2>4
<1>3. ASSUME NEW n \in Nodes, NEW done \in BOOLEAN,
             Restart(n, done) \/ BackoffEnds(n) \/ VerdictChanges(n)
      PROVE  FailbackInv'
  BY <1>3, FailbackElsewhere DEF Restart, BackoffEnds, VerdictChanges, clusterVars
<1>4. ASSUME NEW p \in Pods, PodReplaced(p) PROVE FailbackInv'
  <2>1. UNCHANGED <<shadow, ctl>>
    BY <1>4 DEF PodReplaced
  <2>2. \A q \in Pods : gate'[q] = "False" => gate[q] = "False"
    BY <1>4 DEF PodReplaced, TypeOK
  <2> QED BY <2>1, <2>2 DEF FailbackInv, PodsOn
<1>5. ASSUME NEW n \in Nodes, NEW fails \in BOOLEAN,
             TaintNode(n) \/ LeaveTaint(n) \/ TaintFails(n) \/ Untaint(n, fails)
      PROVE  FailbackInv'
  <2>1. UNCHANGED shadow /\ ctl'.pc # "work"
    BY <1>5 DEF TaintNode, LeaveTaint, TaintFails, Untaint, clusterVars, TypeOK, Reconciles
  <2> QED BY <2>1, FailbackElsewhere
<1>6. CASE Round
  BY <1>2, <1>5, <1>6, FailbackVisit, FailbackWork DEF Round, Controller
<1>7. CASE Trouble
  BY <1>2, <1>4, <1>5, <1>7, FailbackWork DEF Trouble
<1> QED BY <1>1, <1>3, <1>6, <1>7 DEF Next

\* Only applyShadow and the deletion of a shadow write one.
LEMMA ShadowWrites ==
  ASSUME TypeOK, [Next]_vars, NEW n \in Nodes, NEW s \in Slices, shadow'[n][s] # shadow[n][s]
  PROVE  ApplyShadow(n, s) \/ DeleteShadow(n, s)
<1>1. shadow' # shadow
  OBVIOUS
<1>2. \E m \in Nodes, z \in Slices : ApplyShadow(m, z) \/ DeleteShadow(m, z)
  <2>1. CASE Round
    <3>1. ~(Begin \/ ReadHealth \/ PatchStatus \/ \E p \in Pods : EnsureGate(p))
      BY <1>1 DEF Begin, ReadHealth, PatchStatus, EnsureGate, clusterVars
    <3>2. PICK m \in Nodes : Controller(m)
      BY <2>1, <3>1 DEF Round
    <3> QED BY <1>1, <3>2 DEF Controller, Visit, SetGate, StageDone, OperationDone,
                              TaintNode, LeaveTaint, Untaint, clusterVars
  <2>2. ~Trouble
    BY <1>1 DEF Trouble, ReconcileFails, OperatorRestarts, OperationFails, TaintFails, Untaint,
                PodReplaced, clusterVars
  <2>3. ASSUME NEW m \in Nodes, NEW done \in BOOLEAN
        PROVE  ~(VerdictChanges(m) \/ BackoffEnds(m) \/ Restart(m, done))
    BY <1>1 DEF VerdictChanges, BackoffEnds, Restart, clusterVars
  <2>4. ~UNCHANGED vars
    BY <1>1 DEF vars, clusterVars
  <2> QED BY <2>1, <2>2, <2>3, <2>4 DEF Next
<1>3. PICK m \in Nodes, z \in Slices : ApplyShadow(m, z) \/ DeleteShadow(m, z)
  BY <1>2
<1>4. \/ shadow' = [shadow EXCEPT ![m][z] = ToShadow(m, z)]
      \/ shadow' = [shadow EXCEPT ![m][z] = {}]
  BY <1>3 DEF ApplyShadow, DeleteShadow
<1>5. shadow \in [Nodes -> [Slices -> SUBSET Pods]]
  BY DEF TypeOK
<1>6. m = n /\ z = s
  BY <1>4, <1>5
<1> QED BY <1>3, <1>6

\* A node fails back without its pods being out of the Service in between: a shadow
\* is dropped only when no pod in it has its gate off, whatever failed before and
\* whichever pods were replaced meanwhile.
THEOREM PodsStayServed == Spec => FailbackKeepsPods
<1> DEFINE PodsKept == \A n \in Nodes, s \in Slices :
                      ctl.op = "Failback" /\ shadow'[n][s] # shadow[n][s] =>
                        \A p \in shadow[n][s] \cap Gated : gate[p] # "False"
<1>1. ASSUME TypeOK, ShadowInv, FailbackInv, [Next]_vars PROVE PodsKept
  <2> SUFFICES ASSUME NEW n \in Nodes, NEW s \in Slices,
                      ctl.op = "Failback", shadow'[n][s] # shadow[n][s],
                      NEW p \in shadow[n][s] \cap Gated, gate[p] = "False"
               PROVE  FALSE
    OBVIOUS
  <2>1. ApplyShadow(n, s) \/ DeleteShadow(n, s)
    BY <1>1, ShadowWrites
  <2>2. /\ ctl.pc = "work" /\ n \in ctl.node
        /\ Head(ctl.stages) \in {"shadows", "unshadow"}
    BY <2>1 DEF ApplyShadow, DeleteShadow, At
  <2>3. p \in PodsOn(n) \cap Gated
    BY <1>1 DEF FailbackInv
  <2>4. ctl.stages = <<"gates", "unshadow">>
    BY <1>1, <2>2, <2>3 DEF FailbackInv
  <2> QED BY <2>2, <2>4, ShadowStages
<1>2. TypeOK /\ ShadowInv /\ FailbackInv /\ [Next]_vars => [PodsKept]_vars
  BY <1>1
<1>3. TypeOK /\ ShadowInv /\ FailbackInv /\ [Next]_vars => (ShadowInv /\ FailbackInv)'
  BY ShadowStep, FailbackStep
<1>4. Spec => [][PodsKept]_vars
  BY <1>2, <1>3, ShadowInit, FailbackInit, FailoverTypes, PTL DEF Spec
<1> QED BY <1>4 DEF FailbackKeepsPods
=============================================================================
