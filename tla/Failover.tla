------------------------------ MODULE Failover ------------------------------
(***************************************************************************)
(* The CNI resilience controller (operator/internal/controller/            *)
(* cniresilience): what one reconcile does for every node, write by write, *)
(* with the operations of failover.go and the taint and restart of         *)
(* recovery.go.  Writes may fail and the operator may stop between any two *)
(* of them; shadows, gates, taints and the recorded status survive it, the *)
(* rest is lost.                                                           *)
(*                                                                         *)
(* What the health agents prove about a node changes at any time.  It is   *)
(* read once per reconcile.  Counters and times in the status are left out.*)
(***************************************************************************)
EXTENDS Integers, Sequences, FiniteSets

CONSTANTS
  Nodes, Pods,
  Slices,         \* the EndpointSlices of the Services
  HostOf,         \* HostOf[p]: the node pod p runs on
  SlicesOf,       \* SlicesOf[p]: the slices that list pod p
  Gated,          \* the pods that list the readiness gate
  WithBackup,     \* the pods that have a backup IP
  AutoFailover, AutoRecover

ASSUME PodsAssumption ==
  /\ HostOf \in [Pods -> Nodes]
  /\ SlicesOf \in [Pods -> SUBSET Slices]
  /\ Gated \subseteq Pods /\ WithBackup \subseteq Pods

ASSUME SwitchesAssumption == AutoFailover \in BOOLEAN /\ AutoRecover \in BOOLEAN

\* NodeHealthStatus, as far as the controller tells it apart: no probe touches
\* the node; a probe fails but the node is not blamed; the primary path is broken
\* and the backup path works; both are broken; every probe works.
Verdicts == {"unmeasured", "suspect", "down", "cut off", "working"}
IsDown(v) == v \in {"down", "cut off"}

VARIABLES
  verdict,   \* verdict[n]: what the reports prove about n
  gate,      \* gate[p]: the condition of the gate, "none" before it is first set
  shadow,    \* shadow[n][s]: the pods in the shadow of s for n, {} if there is none
  taint,     \* the nodes with the recovery taint
  cr,        \* the status of the CNIResilience object
  ctl,       \* the reconcile in progress
  cooling,   \* nodes whose last restart was claimed within recoveryBackoff
  pending,   \* recoveryPending
  recovery,  \* recovery[n]: goroutines that have not restarted the CNI agent yet
  restarts   \* restarts[n]: restarts since the taint was last put on n

clusterVars == <<gate, shadow, taint>>
recoveryVars == <<cooling, pending, recovery, restarts>>
vars == <<verdict, clusterVars, cr, ctl, recoveryVars>>

NoStatus == [phase |-> "", path |-> [n \in Nodes |-> "primary"], said |-> [n \in Nodes |-> {}]]

Paths == {"primary", "backup", "none"}
Messages == {"on backup", "restarted"}
StageLists ==
  {<<>>, <<"gates">>, <<"unshadow">>, <<"shadows", "gates">>, <<"gates", "unshadow">>}

\* stages are those the current operation has still to go through; pods and
\* slices those it has still to write in a stage.
Reconciles ==
  [pc : {"idle", "cut short", "ensure", "loop", "work", "taint", "untaint"},
   failedOver : SUBSET Nodes, verdict : [Nodes -> Verdicts],
   left : SUBSET Nodes, node : SUBSET Nodes,
   op : {"none", "Failover", "Isolate", "Failback"}, stages : StageLists,
   pods : SUBSET Pods, slices : SUBSET Slices,
   path : [Nodes -> Paths], said : [Nodes -> SUBSET Messages]]

Idle ==
  [pc |-> "idle", failedOver |-> {}, verdict |-> [n \in Nodes |-> "unmeasured"],
   left |-> {}, node |-> {}, op |-> "none", stages |-> <<>>, pods |-> {}, slices |-> {},
   path |-> NoStatus.path, said |-> NoStatus.said]

\* After a reconcile that failed or was interrupted; only Quiet tells it from Idle.
CutShort == [Idle EXCEPT !.pc = "cut short"]

Between == ctl.pc \in {"idle", "cut short"}

Init ==
  /\ verdict = [n \in Nodes |-> "unmeasured"]
  /\ gate = [p \in Pods |-> "none"]
  /\ shadow = [n \in Nodes |-> [s \in Slices |-> {}]]
  /\ taint = {}
  /\ cr = NoStatus
  /\ ctl = Idle
  /\ cooling = {} /\ pending = {}
  /\ recovery = [n \in Nodes |-> 0]
  /\ restarts = [n \in Nodes |-> 0]

-----------------------------------------------------------------------------
(* A reconcile begins: FailedOverNodes, EnsureGates, ReadNodeHealth *)

Shadowed == {n \in Nodes : \E s \in Slices : shadow[n][s] # {}}

Begin ==
  /\ Between
  /\ ctl' = [Idle EXCEPT !.pc = "ensure", !.failedOver = Shadowed,
               !.pods = {p \in Gated : HostOf[p] \notin Shadowed /\ gate[p] = "none"}]
  /\ UNCHANGED <<verdict, clusterVars, cr, recoveryVars>>

EnsureGate(p) ==
  /\ ctl.pc = "ensure" /\ p \in ctl.pods
  /\ gate' = [gate EXCEPT ![p] = "True"]
  /\ ctl' = [ctl EXCEPT !.pods = @ \ {p}]
  /\ UNCHANGED <<verdict, shadow, taint, cr, recoveryVars>>

\* An error before the loop over the nodes, or in the final patch, ends it.
ReconcileFails ==
  /\ ctl.pc \in {"ensure", "loop"} /\ ctl.left = {}
  /\ ctl' = CutShort
  /\ UNCHANGED <<verdict, clusterVars, cr, recoveryVars>>

ReadHealth ==
  /\ ctl.pc = "ensure" /\ ctl.pods = {}
  /\ ctl' = [ctl EXCEPT !.pc = "loop", !.verdict = verdict, !.left = Nodes]
  /\ UNCHANGED <<verdict, clusterVars, cr, recoveryVars>>

-----------------------------------------------------------------------------
(* One node *)

PodsOn(n) == {p \in Pods : HostOf[p] = n}
Movable(n) == PodsOn(n) \cap WithBackup
ToShadow(n, s) == {p \in Movable(n) : s \in SlicesOf[p]}

\* As Stages, but a node fails back by dropping the shadows first.
StagesReversed ==
  [Failover |-> <<"shadows", "gates">>,
   Isolate  |-> <<"gates", "unshadow">>,
   Failback |-> <<"unshadow", "gates">>]

\* FailoverNode, IsolateNode and FailbackNode.
Stages ==
  [Failover |-> <<"shadows", "gates">>,
   Isolate  |-> <<"gates", "unshadow">>,
   Failback |-> <<"gates", "unshadow">>]

GateValue(op) == IF op = "Failback" THEN "True" ELSE "False"

\* As Targets, but pods without a backup IP are left alone.
TargetsMovable(op, n) == Movable(n) \cap Gated

\* As Targets, but only pods with a backup IP are failed back.
TargetsMovableBack(op, n) == Gated \cap (IF op = "Isolate" THEN PodsOn(n) ELSE Movable(n))

\* The pods whose gate the operation sets.
Targets(op, n) == Gated \cap (IF op = "Failover" THEN Movable(n) ELSE PodsOn(n))

Start(op, n) ==
  ctl' = [ctl EXCEPT !.pc = "work", !.left = @ \ {n}, !.node = {n},
            !.op = op, !.stages = Stages[op],
            !.pods = {p \in Targets(op, n) : gate[p] # GateValue(op)},
            !.slices = {s \in Slices : ToShadow(n, s) # {}}]

\* n gets its path and its message; the reconcile goes on at pc.
Record(pc, n, path, said) ==
  ctl' = [ctl EXCEPT !.pc = pc, !.left = @ \ {n}, !.node = {n}, !.path[n] = path, !.said[n] = said]

Kept(n) == IF n \in ctl.failedOver THEN "backup" ELSE "primary"

\* FailoverNode moves nothing when no pod can be moved or no slice lists one.
NothingToMove(n) == \A s \in Slices : ToShadow(n, s) = {}

\* A node that is failed over stays so; a cut off one is isolated in every round.
handlePrimaryDown(n) ==
  LET v == ctl.verdict[n]
      kept == n \in ctl.failedOver /\ v = "down"
  IN \/ kept /\ Record("taint", n, "backup", {"on backup"})
     \/ ~kept /\ ~AutoFailover /\ Record("taint", n, Kept(n), {})
     \/ AutoFailover /\ v = "cut off" /\ Start("Isolate", n)
     \/ AutoFailover /\ ~kept /\ v = "down" /\ NothingToMove(n) /\ Record("taint", n, "primary", {})
     \/ AutoFailover /\ ~kept /\ v = "down" /\ ~NothingToMove(n) /\ Start("Failover", n)

\* The next node, in any order.  What is not proven broken nor working keeps
\* what is in place.
Visit(n) ==
  /\ ctl.pc = "loop" /\ n \in ctl.left
  /\ \/ IsDown(ctl.verdict[n]) /\ handlePrimaryDown(n)
     \/ ctl.verdict[n] = "working" /\ Start("Failback", n)
     \/ ctl.verdict[n] \in {"unmeasured", "suspect"} /\ Record("loop", n, Kept(n), {})
  /\ UNCHANGED <<verdict, clusterVars, cr, recoveryVars>>

At(stage, n) == ctl.pc = "work" /\ n \in ctl.node /\ ctl.stages # <<>> /\ Head(ctl.stages) = stage

\* applyShadow: the shadow of one slice is written anew.
ApplyShadow(n, s) ==
  /\ At("shadows", n) /\ s \in ctl.slices
  /\ shadow' = [shadow EXCEPT ![n][s] = ToShadow(n, s)]
  /\ ctl' = [ctl EXCEPT !.slices = @ \ {s}]
  /\ UNCHANGED <<verdict, gate, taint, cr, recoveryVars>>

SetGate(n, p) ==
  /\ At("gates", n) /\ p \in ctl.pods
  /\ gate' = [gate EXCEPT ![p] = GateValue(ctl.op)]
  /\ ctl' = [ctl EXCEPT !.pods = @ \ {p}]
  /\ UNCHANGED <<verdict, shadow, taint, cr, recoveryVars>>

DeleteShadow(n, s) ==
  /\ At("unshadow", n) /\ shadow[n][s] # {}
  /\ shadow' = [shadow EXCEPT ![n][s] = {}]
  /\ UNCHANGED <<verdict, gate, taint, cr, ctl, recoveryVars>>

StageDone(n) ==
  /\ \/ At("shadows", n) /\ ctl.slices = {}
     \/ At("gates", n) /\ ctl.pods = {}
     \/ At("unshadow", n) /\ \A s \in Slices : shadow[n][s] = {}
  /\ ctl' = [ctl EXCEPT !.stages = Tail(@)]
  /\ UNCHANGED <<verdict, clusterVars, cr, recoveryVars>>

OperationDone(n) ==
  /\ ctl.pc = "work" /\ n \in ctl.node /\ ctl.stages = <<>>
  /\ \/ /\ ctl.op = "Failover"
        /\ ctl' = [ctl EXCEPT !.pc = "taint", !.failedOver = @ \cup {n},
                     !.path[n] = "backup", !.said[n] = {"on backup"}]
     \/ /\ ctl.op = "Isolate"
        /\ ctl' = [ctl EXCEPT !.pc = "taint", !.failedOver = @ \ {n}, !.path[n] = "none"]
     \/ /\ ctl.op = "Failback"
        /\ ctl' = [ctl EXCEPT !.pc = "untaint", !.failedOver = @ \ {n}]
  /\ UNCHANGED <<verdict, clusterVars, cr, recoveryVars>>

\* A read or a write of the operation fails and the rest of it is left undone.
OperationFails(n) ==
  /\ ctl.pc = "work" /\ n \in ctl.node /\ ctl.stages # <<>>
  /\ ctl' = [ctl EXCEPT !.pc = IF ctl.op = "Failback" THEN "loop" ELSE "taint",
                        !.path[n] = IF ctl.op = "Failover" THEN "primary" ELSE Kept(n)]
  /\ UNCHANGED <<verdict, clusterVars, cr, recoveryVars>>

-----------------------------------------------------------------------------
(* Taint and restart *)

\* As MayClaim, but without the backoff.
MayClaimAlways(n) == TRUE

\* claimRecovery
MayClaim(n) == n \notin cooling

\* The round that adds the taint restarts the CNI agent, in the background.
TaintNode(n) ==
  /\ ctl.pc = "taint" /\ n \in ctl.node /\ AutoRecover /\ n \notin taint
  /\ taint' = taint \cup {n}
  /\ restarts' = [restarts EXCEPT ![n] = 0]
  /\ IF MayClaim(n)
     THEN /\ cooling' = cooling \cup {n}
          /\ pending' = pending \cup {n}
          /\ recovery' = [recovery EXCEPT ![n] = @ + 1]
     ELSE UNCHANGED <<cooling, pending, recovery>>
  /\ ctl' = [ctl EXCEPT !.pc = "loop"]
  /\ UNCHANGED <<verdict, gate, shadow, cr>>

\* The node is tainted already, or autoRecover is off.
LeaveTaint(n) ==
  /\ ctl.pc = "taint" /\ n \in ctl.node /\ (n \in taint \/ ~AutoRecover)
  /\ ctl' = [ctl EXCEPT !.pc = "loop",
               !.said[n] = IF AutoRecover THEN @ \cup {"restarted"} ELSE @]
  /\ UNCHANGED <<verdict, clusterVars, cr, recoveryVars>>

TaintFails(n) ==
  /\ ctl.pc = "taint" /\ n \in ctl.node /\ AutoRecover
  /\ ctl' = [ctl EXCEPT !.pc = "loop"]
  /\ UNCHANGED <<verdict, clusterVars, cr, recoveryVars>>

\* UntaintNode and finishRecovery; an error of the first is only logged, and
\* leaves a taint in place if there is one.
Untaint(n, fails) ==
  /\ ctl.pc = "untaint" /\ n \in ctl.node
  /\ fails => n \in taint
  /\ taint' = IF fails THEN taint ELSE taint \ {n}
  /\ pending' = pending \ {n}
  /\ ctl' = [ctl EXCEPT !.pc = "loop"]
  /\ UNCHANGED <<verdict, gate, shadow, cr, cooling, recovery, restarts>>

\* RecoverNode deletes the pod of the CNI agent, or does not find it.
Restart(n, done) ==
  /\ recovery[n] > 0
  /\ recovery' = [recovery EXCEPT ![n] = @ - 1]
  /\ restarts' = IF done THEN [restarts EXCEPT ![n] = @ + 1] ELSE restarts
  /\ UNCHANGED <<verdict, clusterVars, cr, ctl, cooling, pending>>

\* A goroutine is cancelled before recoveryBackoff has passed.
BackoffEnds(n) ==
  /\ n \in cooling /\ recovery[n] = 0
  /\ cooling' = cooling \ {n}
  /\ UNCHANGED <<verdict, clusterVars, cr, ctl, pending, recovery, restarts>>

-----------------------------------------------------------------------------
(* The end of a reconcile, and what happens around it *)

\* As computePhase, but nodes that are failed over do not count.
computePhaseOfHealth ==
  IF \E n \in Nodes : ctl.verdict[n] = "unmeasured" THEN "Unknown"
  ELSE IF \A n \in Nodes : ctl.verdict[n] = "working" THEN "Healthy"
  ELSE "Degraded"

\* A suspect node makes the phase Unknown where its failure is Ambiguous and Degraded
\* where it is not; here it is Degraded either way, since nothing tells the two apart.
computePhase ==
  IF ctl.failedOver # {} THEN "FailedOver"
  ELSE IF \E n \in Nodes : ctl.verdict[n] = "unmeasured" THEN "Unknown"
  ELSE IF \A n \in Nodes : ctl.verdict[n] = "working" THEN "Healthy"
  ELSE "Degraded"

PatchStatus ==
  /\ ctl.pc = "loop" /\ ctl.left = {}
  /\ cr' = [phase |-> computePhase, path |-> ctl.path, said |-> ctl.said]
  /\ ctl' = Idle
  /\ UNCHANGED <<verdict, clusterVars, recoveryVars>>

\* The operator stops and starts again: maps and goroutines are gone.
OperatorRestarts ==
  /\ ctl' = CutShort
  /\ cooling' = {} /\ pending' = {}
  /\ recovery' = [n \in Nodes |-> 0]
  /\ UNCHANGED <<verdict, clusterVars, cr, restarts>>

VerdictChanges(n) ==
  /\ verdict' \in {[verdict EXCEPT ![n] = v] : v \in Verdicts \ {verdict[n]}}
  /\ UNCHANGED <<clusterVars, cr, ctl, recoveryVars>>

\* A pod is replaced by a new one on the same node.  When a write to the old one
\* is pending, that write fails first.
PodReplaced(p) ==
  /\ gate[p] # "none" /\ p \notin ctl.pods
  /\ gate' = [gate EXCEPT ![p] = "none"]
  /\ UNCHANGED <<verdict, shadow, taint, cr, ctl, recoveryVars>>

Controller(n) ==
  \/ Visit(n)
  \/ \E s \in Slices : ApplyShadow(n, s) \/ DeleteShadow(n, s)
  \/ \E p \in Pods : SetGate(n, p)
  \/ StageDone(n) \/ OperationDone(n)
  \/ TaintNode(n) \/ LeaveTaint(n) \/ Untaint(n, FALSE)

Round ==
  \/ Begin \/ ReadHealth \/ PatchStatus
  \/ \E p \in Pods : EnsureGate(p)
  \/ \E n \in Nodes : Controller(n)

Trouble ==
  \/ ReconcileFails \/ OperatorRestarts
  \/ \E n \in Nodes : OperationFails(n) \/ TaintFails(n) \/ Untaint(n, TRUE)
  \/ \E p \in Pods : PodReplaced(p)

Next ==
  \/ Round
  \/ Trouble
  \/ \E n \in Nodes : VerdictChanges(n) \/ BackoffEnds(n)
  \/ \E n \in Nodes, done \in BOOLEAN : Restart(n, done)

Spec == Init /\ [][Next]_vars

\* The controller is requeued after every reconcile, so it never stops.
FairSpec == Spec /\ WF_vars(Round)

-----------------------------------------------------------------------------
(* Properties *)

\* Every variable keeps its type; at most one goroutine has a restart before it.
TypeOK ==
  /\ verdict \in [Nodes -> Verdicts]
  /\ gate \in [Pods -> {"none", "True", "False"}]
  /\ shadow \in [Nodes -> [Slices -> SUBSET Pods]]
  /\ taint \subseteq Nodes
  /\ cr \in [phase : {"", "FailedOver", "Unknown", "Healthy", "Degraded"},
             path : [Nodes -> Paths], said : [Nodes -> SUBSET Messages]]
  /\ ctl \in Reconciles
  /\ cooling \subseteq Nodes /\ pending \subseteq Nodes
  /\ recovery \in [Nodes -> 0..1]
  /\ restarts \in [Nodes -> Nat]

\* The CNI agent is restarted at most once while the taint marks one fault
\* episode, however the node flaps, late a goroutine is, and often the operator
\* restarts.
AtMostOneRestart == \A n \in Nodes : restarts[n] <= 1

\* A node fails back without its pods ever being out of the Service: a shadow is
\* removed only when no pod in it has its gate off.
FailbackKeepsPods ==
  [][\A n \in Nodes, s \in Slices :
       ctl.op = "Failback" /\ shadow'[n][s] # shadow[n][s] =>
         \A p \in shadow[n][s] \cap Gated : gate[p] # "False"]_vars

\* The phase Healthy is recorded only when no shadow is left on any node.
HealthyHasNoShadow ==
  [][PatchStatus /\ cr'.phase = "Healthy" => Shadowed = {}]_vars

\* From some point on nothing fails, restarts or is replaced.
Quiet == <>[][~Trouble]_vars

\* A node that works for good gets its pods back: gates on, shadows gone, taint
\* gone, whatever was left half done before.
WorkingIsRestored ==
  Quiet => \A n \in Nodes :
    <>[](verdict[n] = "working") =>
      <>[](/\ \A p \in PodsOn(n) \cap Gated : gate[p] = "True"
           /\ \A s \in Slices : shadow[n][s] = {}
           /\ n \notin taint)

\* A node that neither path reaches for good loses all its traffic: every gated
\* pod is out of the Service and no shadow sends traffic to a dead address.
CutOffIsIsolated ==
  Quiet /\ AutoFailover => \A n \in Nodes :
    <>[](verdict[n] = "cut off") =>
      <>[](/\ \A p \in PodsOn(n) \cap Gated : gate[p] = "False"
           /\ \A s \in Slices : shadow[n][s] = {})

\* What the status message "traffic on backup path" says: the pods that were
\* moved are out of the Service under their primary IP.
BackupPathIsUsed ==
  [][PatchStatus => \A n \in Nodes : "on backup" \in cr'.said[n] =>
       \A p \in Movable(n) \cap Gated : SlicesOf[p] # {} => gate[p] # "True"]_vars
=============================================================================
