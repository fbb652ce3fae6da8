------------------------ MODULE BlockLifecycleProofs ------------------------
(***************************************************************************)
(* Proofs about BlockLifecycle, for every set of nodes.                    *)
(*                                                                         *)
(* The four safety invariants are proved together from LifecycleInv:       *)
(* everything that a pass, a reconcile or a sandbox has read is either     *)
(* still true of the block, or noted in `before` and so awaited by the     *)
(* timer of the phase, or goes back to a drain that landed in the middle   *)
(* of a pass and is noted in `raced` and `late`.                           *)
(***************************************************************************)
EXTENDS BlockLifecycle, TLAPS

Running(n) == pass[n].pc # "idle"

\* A block that does not exist has no owner, and nothing written on it; one that
\* is Pending cannot be drained; a timer that has run out waited for everything.
BlockIsWhole ==
  /\ nb.phase = "Absent" => nb = NoBlock
  /\ nb.phase # "Absent" => nb.owner \in Nodes
  /\ nb.phase = "Pending" => ~nb.drain
  /\ nb.aged => before = {}

\* Nothing runs on a machine that is gone.
GoneIsEmpty ==
  \A n \in Nodes : nodes[n] = "Gone" => ~Running(n) /\ ~conf[n] /\ ~sandbox[n] /\ ~leased[n]

\* What the reconcile has read can only have changed by what agents do.
ViewIsRecent ==
  ctl.pc = "act" =>
    /\ ctl.view.phase = "Absent" <=> nb.phase = "Absent"
    /\ ctl.view.owner = nb.owner
    /\ ctl.view.drain = nb.drain
    /\ ctl.view.phase = "Quarantined" => nb.phase = "Quarantined" /\ (ctl.view.aged => nb.aged)
    /\ ctl.view.phase = "Active" /\ ~ctl.view.drain =>
         nb.phase = "Active" /\ (ctl.view.aged => nb.aged)
    /\ \A n \in Nodes \ ctl.live : nodes[n] = "Gone"

\* Only the owner's machine knows the block, and not while it is in quarantine;
\* what is left of a drain race elsewhere is noted.
OnlyOwnerHolds ==
  \A n \in Nodes : conf[n] \/ ((sandbox[n] \/ leased[n]) /\ n \notin late) =>
    nb.owner = n /\ nb.phase \in {"Pending", "Active", "Draining"}

\* What a pass will write into the CNI config is still right, but for a drain that
\* landed in it.
PlanIsValid ==
  \A n \in Nodes : Running(n) =>
    /\ pass[n].keep =>
         /\ nb.owner = n /\ nb.phase \in {"Active", "Draining"}
         /\ nb.drain => nb.phase = "Active" /\ raced
    /\ pass[n].promote => nb.owner = n /\ nb.phase = "Pending" /\ ~nb.drain
    /\ pass[n].pc = "status" =>
         pass[n].owner = n /\ (conf[n] <=> (pass[n].keep \/ pass[n].promote))

\* A draining block is out of the config unless its drain was in a race, the
\* sandboxes that read an old config are awaited or late, and once those that are
\* awaited have ended an empty count stays true but for late leases.
DrainIsSettling ==
  nb.phase = "Draining" /\ nb.drain =>
    /\ conf[nb.owner] => raced
    /\ sandbox[nb.owner] => <<nb.owner, "sandbox">> \in before \/ nb.owner \in late
    /\ pass[nb.owner].pc = "status" /\ ~pass[nb.owner].used /\ nb.aged /\ leased[nb.owner] =>
         nb.owner \in late

\* A pass that took the block for its node's own outlives the block only as a
\* pass that the new block's timer awaits.
StalePassIsAwaited ==
  \A n \in Nodes : Running(n) /\ pass[n].owner = n /\ nb.owner \notin {n, NoNode} =>
    <<n, "pass">> \in before /\ ~nb.drain /\ nb.phase \in {"Pending", "Active", "Quarantined"}

\* A pass that found the block routable still has its owner right, and the
\* quarantine awaits it.
RouteIsValid ==
  \A n \in Nodes : Running(n) =>
    /\ pass[n].routable =>
         /\ nb.phase # "Absent" /\ pass[n].owner = nb.owner
         /\ nb.phase = "Quarantined" => <<n, "pass">> \in before
    /\ pass[n].pc = "routes" /\ pass[n].owner # NoNode /\ ~pass[n].gateway =>
         nodes[pass[n].owner] = "Gone"
    /\ pass[n].pc = "ack" /\ Foreign(n) => routes[n] = pass[n].owner

\* An acknowledgement stays true.
AckIsValid ==
  \A m \in nb.acked :
    /\ m # nb.owner
    /\ pass[m].pc = "routes" => pass[m].routable \/ nb.phase = "Quarantined"
    /\ nodes[m] # "Gone" /\ nb.phase # "Quarantined" /\ nodes[nb.owner] # "Gone" =>
         routes[m] = nb.owner

LifecycleInv ==
  /\ TypeOK /\ BlockIsWhole /\ GoneIsEmpty /\ ViewIsRecent /\ OnlyOwnerHolds /\ PlanIsValid
  /\ DrainIsSettling /\ StalePassIsAwaited /\ RouteIsValid /\ AckIsValid

-----------------------------------------------------------------------------
(* Types *)

\* The objects that steps start afresh have their types.
LEMMA NewObjects ==
  /\ NoBlock \in BlockObjects
  /\ NoReconcile \in Reconciles
  /\ Idle \in Passes
  /\ \A n \in Nodes : NewBlock(n) \in BlockObjects
  <1>1. NoBlock \in BlockObjects
    BY DEF NoBlock, BlockObjects, Phases
  <1>2. NoReconcile \in Reconciles
    BY <1>1 DEF NoReconcile, Reconciles
  <1>3. Idle \in Passes
    BY DEF Idle, Passes
  <1>4. \A n \in Nodes : NewBlock(n) \in BlockObjects
    BY <1>1 DEF NewBlock, BlockObjects, Phases
  <1> QED
    BY <1>1, <1>2, <1>3, <1>4

\* What is in flight is a set of sandboxes and passes.
LEMMA InFlightType ==
  ASSUME NEW self
  PROVE  InFlight(self) \subseteq Nodes \X {"sandbox", "pass"}
  BY DEF InFlight

\* The phase after the current one is a phase.
LEMMA NextPhaseType ==
  ASSUME nb \in BlockObjects, NEW promoting \in BOOLEAN, NEW used \in BOOLEAN
  PROVE  nextPhase(promoting, used) \in Phases
  BY DEF nextPhase, Phases, BlockObjects

\* A transition and the end of a pass keep the types of what they change.
LEMMA TransitionType ==
  ASSUME nb \in BlockObjects, NEW self, NEW ph \in Phases, Transition(ph, self)
  PROVE  /\ nb' \in BlockObjects /\ before' \subseteq Nodes \X {"sandbox", "pass"}
         /\ late' \subseteq late
  <1>1. nb' \in BlockObjects
    BY DEF Transition, BlockObjects
  <1> QED
    BY <1>1, InFlightType DEF Transition

\* A pass that ends leaves its place typed.
LEMMA EndPassType ==
  ASSUME TypeOK, NEW n \in Nodes, EndPass(n)
  PROVE  pass' \in [Nodes -> Passes] /\ before' \subseteq Nodes \X {"sandbox", "pass"}
  BY NewObjects DEF EndPass, TypeOK

\* The changes that a step makes to a pass that goes on.
LEMMA PassUpdates ==
  ASSUME NEW p \in Passes, NEW u \in BOOLEAN
  PROVE  /\ LET done == [p EXCEPT !.pc = "own", !.routable = FALSE, !.gateway = FALSE]
            IN done \in Passes /\ [done EXCEPT !.promote = FALSE] \in Passes
         /\ [p EXCEPT !.pc = "status", !.used = u] \in Passes
  BY DEF Passes

\* The next three lemmas show that each kind of step keeps the types.
LEMMA AgentTypes ==
  ASSUME TypeOK, NEW n \in Nodes, AgentStep(n) \/ AgentFault(n)
  PROVE  TypeOK'
  <1>1. CASE AgentList(n)
    <2>1. pass'[n] \in Passes
      BY <1>1 DEF AgentList, Listed, TypeOK, Passes, BlockObjects, routable, inConfig
    <2> QED
      BY <1>1, <2>1 DEF AgentList, Listed, TypeOK, apiVars, nodeVars, history
  <1>2. CASE AgentRoutesOK(n)
    <2>1. [pass[n] EXCEPT !.pc = "ack"] \in Passes
      BY DEF TypeOK, Passes
    <2>2. DesiredRoute(n) \in Nodes \cup {NoNode}
      BY DEF DesiredRoute, TypeOK, Passes
    <2> QED
      BY <1>2, <2>1, <2>2 DEF AgentRoutesOK, TypeOK, apiVars, history
  <1>3. CASE AgentRoutesIncomplete(n) \/ AgentRoutesFail(n)
    <2>1. [RoutesDone(n) EXCEPT !.promote = FALSE] \in Passes
      BY PassUpdates DEF TypeOK, RoutesDone
    <2>2. DesiredRoute(n) \in Nodes \cup {NoNode}
      BY DEF DesiredRoute, TypeOK, Passes
    <2>3. pass' = [pass EXCEPT ![n] = [RoutesDone(n) EXCEPT !.promote = FALSE]]
      BY <1>3 DEF AgentRoutesIncomplete, AgentRoutesFail, RoutesNotOK, TypeOK
    <2> QED
      BY <1>3, <2>1, <2>2, <2>3
      DEF AgentRoutesIncomplete, AgentRoutesFail, RoutesNotOK, TypeOK, apiVars, history
  <1>4. CASE AgentAck(n)
    <2>1. RoutesDone(n) \in Passes
      BY PassUpdates DEF TypeOK, RoutesDone
    <2>2. nb' \in BlockObjects
      BY <1>4 DEF AgentAck, TypeOK, BlockObjects
    <2> QED
      BY <1>4, <2>1, <2>2 DEF AgentAck, TypeOK, nodeVars, history
  <1>5. CASE AgentAckFail(n)
    <2>1. RoutesDone(n) \in Passes
      BY PassUpdates DEF TypeOK, RoutesDone
    <2> QED
      BY <1>5, <2>1 DEF AgentAckFail, TypeOK, apiVars, nodeVars, history
  <1>6. CASE AgentOwn(n)
    <2>1. conf' \in [Nodes -> BOOLEAN]
      BY <1>6 DEF AgentOwn, WriteConfig, TypeOK, Passes
    <2>2. [pass[n] EXCEPT !.pc = "status", !.used = leased[n]] \in Passes
      BY PassUpdates DEF TypeOK
    <2>3. pass' \in [Nodes -> Passes] /\ before' \subseteq Nodes \X {"sandbox", "pass"}
      <3>1. CASE pass[n].owner = n
        <4>1. pass' = [pass EXCEPT ![n] = [pass[n] EXCEPT !.pc = "status", !.used = leased[n]]]
          BY <1>6, <3>1 DEF AgentOwn, TypeOK
        <4> QED
          BY <1>6, <3>1, <4>1, <2>2 DEF AgentOwn, TypeOK
      <3>2. CASE pass[n].owner # n
        BY <1>6, <3>2, EndPassType DEF AgentOwn
      <3> QED
        BY <3>1, <3>2
    <2> QED
      BY <1>6, <2>1, <2>3 DEF AgentOwn, WriteConfig, TypeOK, apiVars, history
  <1>7. CASE AgentStops(n)
    <2>1. conf' \in [Nodes -> BOOLEAN]
      BY <1>7 DEF AgentStops, WriteConfig, TypeOK, Passes
    <2>2. pass' \in [Nodes -> Passes] /\ before' \subseteq Nodes \X {"sandbox", "pass"}
      BY <1>7, EndPassType DEF AgentStops
    <2> QED
      BY <1>7, <2>1, <2>2 DEF AgentStops, WriteConfig, TypeOK, apiVars, history
  <1>8. CASE AgentStatus(n)
    <2> DEFINE next == nextPhase(pass[n].promote, pass[n].used)
    <2>1. pass[n] \in Passes /\ nb \in BlockObjects
      BY DEF TypeOK
    <2>2. next \in Phases
      BY <2>1, NextPhaseType DEF Passes
    <2>3. /\ nb' \in BlockObjects /\ before' \subseteq Nodes \X {"sandbox", "pass"}
          /\ pass' \in [Nodes -> Passes] /\ late' \subseteq late
      <3>1. CASE nb.phase # "Absent" /\ next # nb.phase
        <4>1. Transition(next, n) /\ pass' = [pass EXCEPT ![n] = Idle]
          BY <1>8, <3>1 DEF AgentStatus
        <4> HIDE DEF next
        <4> QED
          BY <4>1, <2>1, <2>2, TransitionType, NewObjects DEF TypeOK
      <3>2. CASE ~(nb.phase # "Absent" /\ next # nb.phase)
        <4>1. EndPass(n) /\ nb' = nb /\ late' = late
          BY <1>8, <3>2 DEF AgentStatus
        <4> QED
          BY <4>1, <2>1, EndPassType
      <3> QED
        BY <3>1, <3>2
    <2> QED
      BY <1>8, <2>3 DEF AgentStatus, TypeOK, nodeVars, history
  <1> QED
    BY <1>1, <1>2, <1>3, <1>4, <1>5, <1>6, <1>7, <1>8 DEF AgentStep, AgentFault

LEMMA ControllerTypes ==
  ASSUME TypeOK, ControllerList \/ ControllerActs \/ DoNothing
  PROVE  TypeOK'
  <1>1. CASE ControllerList
    <2>1. [nb EXCEPT !.acked = {}] \in BlockObjects
      BY DEF TypeOK, BlockObjects
    <2>2. ctl' \in Reconciles
      BY <1>1, <2>1 DEF ControllerList, Reconciles, TypeOK
    <2> QED
      BY <1>1, <2>2 DEF ControllerList, TypeOK, apiVars, nodeVars, history
  <1>2. ASSUME Acts, nb' \in BlockObjects, before' \subseteq Nodes \X {"sandbox", "pass"},
               raced' \in BOOLEAN, late' \subseteq late
        PROVE  TypeOK'
    BY <1>2, NewObjects DEF Acts, TypeOK, nodeVars, history
  <1>3. ASSUME NEW n \in Nodes, CreateBlock(n)
        PROVE  TypeOK'
    <2>1. nb' \in BlockObjects /\ before' \subseteq Nodes \X {"sandbox", "pass"}
      BY <1>3, NewObjects, InFlightType DEF CreateBlock, TypeOK
    <2> QED
      BY <1>2, <1>3, <2>1 DEF CreateBlock, TypeOK, history
  <1>4. CASE DrainBlock \/ UndrainBlock
    <2>1. nb' \in BlockObjects
      BY <1>4 DEF DrainBlock, UndrainBlock, TypeOK, BlockObjects
    <2>2. before' \subseteq Nodes \X {"sandbox", "pass"}
      BY <1>4 DEF DrainBlock, UndrainBlock, TypeOK
    <2> QED
      BY <1>2, <1>4, <2>1, <2>2 DEF DrainBlock, UndrainBlock, TypeOK
  <1>5. CASE QuarantineOrphan
    <2>1. /\ nb' \in BlockObjects /\ before' \subseteq Nodes \X {"sandbox", "pass"}
          /\ late' \subseteq late
      BY <1>5, TransitionType DEF QuarantineOrphan, TypeOK, Phases
    <2> QED
      BY <1>2, <1>5, <2>1 DEF QuarantineOrphan, TypeOK
  <1>6. CASE DeleteBlock
    BY <1>2, <1>6, NewObjects DEF DeleteBlock, BlockIsGone
  <1>7. CASE DoNothing
    BY <1>2, <1>7 DEF DoNothing, TypeOK, history
  <1> QED
    BY <1>1, <1>3, <1>4, <1>5, <1>6, <1>7 DEF ControllerActs

LEMMA MachineTypes ==
  ASSUME TypeOK,
         \/ \E n \in Nodes : \/ SandboxStart(n) \/ SandboxEnd(n) \/ PodsEnd(n)
                             \/ NodeGone(n)
         \/ TimerRunsOut
  PROVE  TypeOK'
  <1>1. ASSUME NEW n \in Nodes, SandboxStart(n) \/ SandboxEnd(n) \/ PodsEnd(n)
        PROVE  TypeOK'
    BY <1>1 DEF SandboxStart, SandboxEnd, PodsEnd, Settle, TypeOK, apiVars, history
  <1>3. ASSUME NEW n \in Nodes, NodeGone(n)
        PROVE  TypeOK'
    BY <1>3, NewObjects DEF NodeGone, Settle, TypeOK
  <1>4. CASE TimerRunsOut
    <2>1. nb' \in BlockObjects
      BY <1>4 DEF TimerRunsOut, TypeOK, BlockObjects
    <2> QED
      BY <1>4, <2>1 DEF TimerRunsOut, TypeOK, nodeVars, history
  <1> QED
    BY <1>1, <1>3, <1>4

\* No step leaves the types.
LEMMA TypesInductive ==
  TypeOK /\ [Next]_vars => TypeOK'
  <1>1. CASE UNCHANGED vars
    BY <1>1 DEF TypeOK, vars, history
  <1> QED
    BY <1>1, AgentTypes, ControllerTypes, MachineTypes DEF Next

\* The types hold at the start.
LEMMA TypesInit == Init => TypeOK
  BY NewObjects DEF Init, TypeOK

\* Every variable keeps its type, whatever the agents, the controller and the
\* machines do, and also when a drain lands in the middle of a pass.
THEOREM LifecycleTypes == Spec => []TypeOK
  BY TypesInit, TypesInductive, PTL DEF Spec

\* A phase change that no agent makes finds every running pass in flight, and one
\* that an agent makes finds every other.
LEMMA InFlightHas ==
  /\ \A n \in Nodes : Running(n) => <<n, "pass">> \in InFlight(NoNode)
  /\ \A k \in Nodes : \A n \in Nodes \ {k} : Running(n) => <<n, "pass">> \in InFlight(k)
  /\ \A k \in Nodes \cup {NoNode} : \A n \in Nodes : sandbox[n] => <<n, "sandbox">> \in InFlight(k)
  BY LifecycleAssumption DEF InFlight, Running

\* A status update changes the phase only of the block of the node that makes it,
\* in one of the four ways that the phases follow each other.
LEMMA StatusEffect ==
  ASSUME LifecycleInv, NEW k \in Nodes, AgentStatus(k)
  PROVE  \/ EndPass(k) /\ nb' = nb /\ late' = late
         \/ /\ nb.owner = k
            /\ \/ nb.phase = "Pending" /\ ~nb.drain /\ nb'.phase = "Active"
               \/ nb.phase = "Active" /\ nb.drain /\ (conf[k] => raced) /\ nb'.phase = "Draining"
               \/ nb.phase = "Draining" /\ ~nb.drain /\ nb'.phase = "Active"
               \/ /\ nb.phase = "Draining" /\ nb.drain /\ nb.aged
                  /\ ~pass[k].used /\ ~conf[k] /\ nb'.phase = "Quarantined"
            /\ nb'.owner = nb.owner /\ nb'.drain = nb.drain /\ nb'.acked = nb.acked
            /\ ~nb'.aged
            /\ before' = InFlight(k)
            /\ late' = late \ (IF nb'.phase = "Active" THEN {nb.owner} ELSE {})
            /\ pass' = [pass EXCEPT ![k] = Idle]
  <1> DEFINE next == nextPhase(pass[k].promote, pass[k].used)
  <1>1. CASE ~(nb.phase # "Absent" /\ next # nb.phase)
    BY <1>1 DEF AgentStatus
  <1>2. CASE nb.phase # "Absent" /\ next # nb.phase
    <2>1. Transition(next, k) /\ pass' = [pass EXCEPT ![k] = Idle]
      BY <1>2 DEF AgentStatus
    <2>2. /\ nb'.phase = next /\ ~nb'.aged
          /\ nb'.owner = nb.owner /\ nb'.drain = nb.drain /\ nb'.acked = nb.acked
      <3> HIDE DEF next
      <3> QED
        BY <2>1 DEF Transition, LifecycleInv, TypeOK
    <2>3. pass[k].owner = k /\ (conf[k] <=> (pass[k].keep \/ pass[k].promote))
      BY DEF LifecycleInv, PlanIsValid, AgentStatus, Running
    <2>4. nb.phase \in Phases /\ nb.drain \in BOOLEAN
      BY DEF LifecycleInv, TypeOK, BlockObjects
    <2>5. nb.owner = k
      <3>1. SUFFICES ASSUME nb.owner # k
                     PROVE  FALSE
        OBVIOUS
      <3>2. nb.owner # NoNode
        BY <1>2, LifecycleAssumption DEF LifecycleInv, BlockIsWhole
      <3>3. ~nb.drain /\ nb.phase \in {"Pending", "Active", "Quarantined"}
        BY <2>3, <3>1, <3>2 DEF LifecycleInv, StalePassIsAwaited, AgentStatus, Running
      <3>4. ~pass[k].promote
        BY <3>1 DEF LifecycleInv, PlanIsValid, AgentStatus, Running
      <3> QED
        BY <1>2, <3>3, <3>4 DEF nextPhase
    <2>6. nb.phase = "Pending" => ~nb.drain
      BY DEF LifecycleInv, BlockIsWhole
    <2>7. /\ nb.phase = "Active" /\ nb.drain /\ conf[k] => raced
          /\ nb.phase = "Draining" /\ nb.drain => ~conf[k]
      BY <2>3 DEF LifecycleInv, PlanIsValid, AgentStatus, Running
    <2>8. late' = late \ (IF nb'.phase = "Active" THEN {nb.owner} ELSE {})
      <3> HIDE DEF next
      <3> QED
        BY <2>1, <2>2 DEF Transition
    <2> QED
      BY <1>2, <2>1, <2>2, <2>5, <2>6, <2>7, <2>8 DEF nextPhase, Phases, Transition
  <1> QED
    BY <1>1, <1>2

\* A block is created only when there is none.
LEMMA CreateEffect ==
  ASSUME LifecycleInv, NEW k \in Nodes, CreateBlock(k)
  PROVE  /\ nb = NoBlock
         /\ nb'.owner = k /\ nb'.phase = "Pending"
         /\ nb'.drain = FALSE /\ nb'.acked = {} /\ nb'.aged = FALSE
         /\ before' = InFlight(NoNode) /\ late' = late
  <1>1. nb.phase = "Absent"
    BY DEF CreateBlock, Acts, LifecycleInv, ViewIsRecent
  <1>2. nb = NoBlock
    BY <1>1 DEF LifecycleInv, BlockIsWhole
  <1>3. nb' = NewBlock(k) /\ before' = InFlight(NoNode)
    BY <1>1 DEF CreateBlock
  <1>4. /\ nb'.owner = k /\ nb'.phase = "Pending"
        /\ nb'.drain = FALSE /\ nb'.acked = {} /\ nb'.aged = FALSE
    BY <1>3 DEF NewBlock, NoBlock
  <1> QED
    BY <1>2, <1>3, <1>4 DEF CreateBlock, history

\* A block is quarantined as an orphan only while it exists and its owner is gone.
LEMMA OrphanEffect ==
  ASSUME LifecycleInv, QuarantineOrphan
  PROVE  /\ nb.owner \in Nodes /\ nb.phase # "Absent" /\ nodes[nb.owner] = "Gone"
         /\ nb'.owner = nb.owner /\ nb'.phase = "Quarantined"
         /\ nb'.drain = nb.drain /\ nb'.acked = nb.acked /\ nb'.aged = FALSE
         /\ before' = InFlight(NoNode) /\ late' = late
  <1>1. nb.phase # "Absent" /\ nb.owner \in Nodes
    BY DEF QuarantineOrphan, Acts, routable, LifecycleInv, ViewIsRecent, BlockIsWhole
  <1>2. nodes[nb.owner] = "Gone"
    BY <1>1 DEF QuarantineOrphan, Acts, LifecycleInv, ViewIsRecent
  <1>3. Transition("Quarantined", NoNode)
    BY <1>1 DEF QuarantineOrphan
  <1>4. /\ nb'.owner = nb.owner /\ nb'.phase = "Quarantined"
        /\ nb'.drain = nb.drain /\ nb'.acked = nb.acked /\ nb'.aged = FALSE
    BY <1>3 DEF Transition, LifecycleInv, TypeOK
  <1> QED
    BY <1>1, <1>2, <1>3 DEF Transition

\* A drain is asked for only of an Active block, and one in the owner's pass is noted.
LEMMA DrainEffect ==
  ASSUME LifecycleInv, DrainBlock
  PROVE  /\ nb.phase = "Active" /\ nb.owner \in Nodes /\ raced' = Running(nb.owner)
         /\ before = {}
         /\ nb'.drain = TRUE /\ nb'.phase = nb.phase /\ nb'.owner = nb.owner
         /\ nb'.acked = nb.acked /\ nb'.aged = nb.aged
  <1>1. nb.phase = "Active" /\ nb.owner = ctl.view.owner
    BY DEF DrainBlock, Acts, LifecycleInv, ViewIsRecent
  <1>2. nb' = [nb EXCEPT !.drain = TRUE]
    BY <1>1 DEF DrainBlock
  <1>3. before = {}
    BY DEF DrainBlock, Acts, LifecycleInv, ViewIsRecent, BlockIsWhole
  <1> QED
    BY <1>1, <1>3 DEF DrainBlock, LifecycleInv, BlockIsWhole, TypeOK, Running

\* A drain is withdrawn only from a block that exists.
LEMMA UndrainEffect ==
  ASSUME LifecycleInv, UndrainBlock
  PROVE  /\ nb.phase # "Absent" /\ nb.owner \in Nodes
         /\ nb'.drain = FALSE /\ nb'.phase = nb.phase /\ nb'.owner = nb.owner
         /\ nb'.acked = nb.acked /\ nb'.aged = nb.aged
  <1>1. nb.phase # "Absent"
    BY DEF UndrainBlock, Acts, LifecycleInv, ViewIsRecent
  <1>2. nb' = [nb EXCEPT !.drain = FALSE]
    BY <1>1 DEF UndrainBlock
  <1> QED
    BY <1>1, <1>2 DEF LifecycleInv, BlockIsWhole, TypeOK

\* A block is deleted when its quarantine is over: nobody holds it, and no pass
\* that found it routable is still running.
LEMMA DeleteEffect ==
  ASSUME LifecycleInv, DeleteBlock
  PROVE  /\ nb' = NoBlock /\ before' = {} /\ late' = late
         /\ \A n \in Nodes : ~conf[n] /\ (sandbox[n] \/ leased[n] => n \in late)
         /\ \A n \in Nodes : Running(n) => ~pass[n].keep /\ ~pass[n].promote /\ ~pass[n].routable
  <1>1. nb.phase = "Quarantined" /\ nb.aged
    BY DEF DeleteBlock, Acts, LifecycleInv, ViewIsRecent
  <1>2. before = {}
    BY <1>1 DEF LifecycleInv, BlockIsWhole
  <1>3. \A n \in Nodes : ~conf[n] /\ (sandbox[n] \/ leased[n] => n \in late)
    BY <1>1 DEF LifecycleInv, OnlyOwnerHolds
  <1>4. \A n \in Nodes : Running(n) => ~pass[n].keep /\ ~pass[n].promote /\ ~pass[n].routable
    BY <1>1, <1>2 DEF LifecycleInv, PlanIsValid, RouteIsValid
  <1> QED
    BY <1>3, <1>4 DEF DeleteBlock, BlockIsGone

\* The lists an agent reads are true when it reads them.
LEMMA AgentListKeeps ==
  ASSUME LifecycleInv, TypeOK', NEW k \in Nodes, AgentList(k)
  PROVE  LifecycleInv'
  <1>0. /\ nb' = nb /\ nodes' = nodes /\ routes' = routes /\ before' = before
        /\ raced' = raced /\ late' = late
        /\ pass'[k].pc = "routes"
        /\ pass'[k].owner = nb.owner
        /\ pass'[k].routable = routable(nb.phase)
        /\ pass'[k].gateway = (nb.owner # NoNode /\ nodes[nb.owner] # "Gone")
        /\ \A m \in Nodes \ {k} : pass'[m] = pass[m]
    BY DEF AgentList, Listed, LifecycleInv, TypeOK, apiVars, nodeVars, history
  <1>1. BlockIsWhole' /\ ViewIsRecent' /\ OnlyOwnerHolds'
    BY DEF LifecycleInv, AgentList, Listed, TypeOK, apiVars, nodeVars, history, BlockIsWhole, ViewIsRecent,
           OnlyOwnerHolds
  <1>2. GoneIsEmpty'
    BY DEF LifecycleInv, AgentList, Listed, TypeOK, apiVars, nodeVars, history, GoneIsEmpty, Running
  <1>3. PlanIsValid'
    <2>1. /\ pass'[k].keep => nb.owner = k /\ nb.phase \in {"Active", "Draining"} /\ ~nb.drain
          /\ pass'[k].promote => nb.owner = k /\ nb.phase = "Pending" /\ ~nb.drain
      <3>1. PICK ready : pass' = [pass EXCEPT ![k] = Listed(k, ready)]
        BY DEF AgentList
      <3>2. nb.drain \in BOOLEAN
        BY DEF LifecycleInv, TypeOK, BlockObjects
      <3> QED
        BY <3>1, <3>2 DEF Listed, inConfig, LifecycleInv, TypeOK
    <2>2. conf' = conf /\ PlanIsValid
      BY DEF LifecycleInv, AgentList, Listed, nodeVars, history
    <2> QED BY <1>0, <2>1, <2>2 DEF PlanIsValid, Running
  <1>4. DrainIsSettling'
    BY DEF LifecycleInv, AgentList, Listed, TypeOK, apiVars, nodeVars, history, DrainIsSettling
  <1>5. StalePassIsAwaited'
    BY DEF LifecycleInv, AgentList, Listed, TypeOK, apiVars, nodeVars, history, StalePassIsAwaited, Running,
           LifecycleAssumption
  <1>6. RouteIsValid'
    <2>1. SUFFICES ASSUME NEW n \in Nodes, Running(n)'
                   PROVE  /\ pass'[n].routable =>
                               /\ nb'.phase # "Absent" /\ pass'[n].owner = nb'.owner
                               /\ nb'.phase = "Quarantined" => <<n, "pass">> \in before'
                          /\ pass'[n].pc = "routes" /\ pass'[n].owner # NoNode /\ ~pass'[n].gateway
                               => nodes'[pass'[n].owner] = "Gone"
                          /\ pass'[n].pc = "ack" /\ Foreign(n)' => routes'[n] = pass'[n].owner
      BY DEF RouteIsValid
    <2>2. CASE n = k
      BY <1>0, <2>2 DEF routable
    <2>3. CASE n # k
      BY <1>0, <2>1, <2>3 DEF LifecycleInv, RouteIsValid, Running, Foreign
    <2> QED
      BY <2>2, <2>3
  <1>7. AckIsValid'
    <2>1. SUFFICES ASSUME NEW m \in nb'.acked
                   PROVE  /\ m # nb'.owner
                          /\ pass'[m].pc = "routes" =>
                               pass'[m].routable \/ nb'.phase = "Quarantined"
                          /\ /\ nodes'[m] # "Gone" /\ nb'.phase # "Quarantined"
                             /\ nodes'[nb'.owner] # "Gone"
                             => routes'[m] = nb'.owner
      BY DEF AckIsValid
    <2>2. m \in Nodes
      BY DEF TypeOK, BlockObjects
    <2>3. CASE m = k
      <3>1. /\ m # nb.owner
            /\ /\ nodes[m] # "Gone" /\ nb.phase # "Quarantined" /\ nodes[nb.owner] # "Gone"
               => routes[m] = nb.owner
        BY <1>0 DEF LifecycleInv, AckIsValid
      <3>2. nb.phase \in Phases \ {"Absent"}
        BY <1>0 DEF LifecycleInv, TypeOK, BlockObjects, BlockIsWhole, NoBlock
      <3> QED
        BY <1>0, <2>3, <3>1, <3>2 DEF routable, Phases
    <2>4. CASE m # k
      BY <1>0, <2>2, <2>4 DEF LifecycleInv, AckIsValid
    <2> QED
      BY <2>3, <2>4
  <1> QED
    BY <1>1, <1>2, <1>3, <1>4, <1>5, <1>6, <1>7 DEF LifecycleInv

\* The three ways to leave syncRoutes: the pass goes on, perhaps without promoting,
\* and acknowledges only a route that it has installed.
LEMMA RoutesEffect ==
  ASSUME LifecycleInv, NEW k \in Nodes,
         AgentRoutesOK(k) \/ AgentRoutesIncomplete(k) \/ AgentRoutesFail(k)
  PROVE  /\ UNCHANGED <<nb, nodes, ctl, conf, sandbox, leased, before, raced, late>>
         /\ pass[k].pc = "routes"
         /\ pass'[k].pc \in {"ack", "own"}
         /\ pass'[k].owner = pass[k].owner /\ pass'[k].keep = pass[k].keep
         /\ pass'[k].routable => pass[k].routable
         /\ pass'[k].promote => pass[k].promote
         /\ \/ routes'[k] \in {routes[k], DesiredRoute(k)}
            \/ routes[k] # DesiredRoute(k)
         /\ pass'[k].pc = "ack" /\ Foreign(k) => routes'[k] = pass[k].owner
         /\ \A m \in Nodes \ {k} : pass'[m] = pass[m] /\ routes'[m] = routes[m]
  <1>1. pass \in [Nodes -> Passes] /\ routes \in [Nodes -> Nodes \cup {NoNode}]
    BY DEF LifecycleInv, TypeOK
  <1>2. CASE AgentRoutesOK(k)
    BY <1>1, <1>2 DEF AgentRoutesOK, apiVars, history, DesiredRoute, Passes
  <1>3. CASE AgentRoutesIncomplete(k) \/ AgentRoutesFail(k)
    <2>1. /\ RoutesNotOK(k)
          /\ \/ routes' \in {routes, [routes EXCEPT ![k] = DesiredRoute(k)]}
             \/ routes[k] # DesiredRoute(k) /\ routes' = [routes EXCEPT ![k] = NoNode]
      BY <1>3 DEF AgentRoutesIncomplete, AgentRoutesFail
    <2> QED
      BY <1>1, <2>1 DEF RoutesNotOK, RoutesDone, apiVars, history, Passes, Foreign
  <1> QED
    BY <1>2, <1>3

\* The routes an agent installs or leaves out.
LEMMA AgentRoutesKeeps ==
  ASSUME LifecycleInv, TypeOK', NEW k \in Nodes, AgentRoutesOK(k) \/ AgentRoutesIncomplete(k) \/ AgentRoutesFail(k)
  PROVE  LifecycleInv'
  <1>1. BlockIsWhole' /\ GoneIsEmpty' /\ ViewIsRecent' /\ OnlyOwnerHolds'
    BY RoutesEffect
    DEF LifecycleInv, BlockIsWhole, GoneIsEmpty, Running, ViewIsRecent, OnlyOwnerHolds
  <1>2. PlanIsValid'
    BY RoutesEffect DEF LifecycleInv, PlanIsValid, Running
  <1>3. DrainIsSettling'
    BY RoutesEffect DEF LifecycleInv, DrainIsSettling, BlockIsWhole
  <1>4. StalePassIsAwaited'
    BY RoutesEffect DEF LifecycleInv, StalePassIsAwaited, Running
  <1>5. RouteIsValid'
    <2>1. Foreign(k)' => Foreign(k)
      BY RoutesEffect DEF Foreign
    <2>2. Running(k)
      BY RoutesEffect DEF Running
    <2> QED
      BY RoutesEffect DEF LifecycleInv, RouteIsValid, Running, Foreign
  <1>6. AckIsValid'
    <2>1. SUFFICES ASSUME NEW m \in nb'.acked
                   PROVE  /\ m # nb'.owner
                          /\ pass'[m].pc = "routes" =>
                               pass'[m].routable \/ nb'.phase = "Quarantined"
                          /\ /\ nodes'[m] # "Gone" /\ nb'.phase # "Quarantined"
                             /\ nodes'[nb'.owner] # "Gone"
                             => routes'[m] = nb'.owner
      BY DEF AckIsValid
    <2>2. m \in Nodes
      BY DEF TypeOK, BlockObjects
    <2>3. CASE m = k
      <3>1. /\ k # nb.owner /\ (pass[k].routable \/ nb.phase = "Quarantined")
            /\ /\ nodes[k] # "Gone" /\ nb.phase # "Quarantined" /\ nodes[nb.owner] # "Gone"
               => routes[k] = nb.owner
        BY <2>3, RoutesEffect DEF LifecycleInv, AckIsValid
      <3>2. pass[k].routable => pass[k].owner = nb.owner /\ nb.owner # NoNode
        BY RoutesEffect, LifecycleAssumption
        DEF LifecycleInv, RouteIsValid, Running, BlockIsWhole
      <3>3. Foreign(k) /\ ~pass[k].gateway => nodes[pass[k].owner] = "Gone"
        BY RoutesEffect DEF LifecycleInv, RouteIsValid, Running, Foreign
      <3> QED
        BY <2>3, <3>1, <3>2, <3>3, RoutesEffect DEF DesiredRoute, Foreign
    <2>4. CASE m # k
      BY <2>2, <2>4, RoutesEffect DEF LifecycleInv, AckIsValid
    <2> QED
      BY <2>3, <2>4
  <1> QED
    BY <1>1, <1>2, <1>3, <1>4, <1>5, <1>6 DEF LifecycleInv

\* An acknowledgement adds the node to a block that its pass found foreign, or
\* changes nothing.
LEMMA AckEffect ==
  ASSUME LifecycleInv, NEW k \in Nodes, AgentAck(k) \/ AgentAckFail(k)
  PROVE  /\ UNCHANGED <<nodes, ctl, conf, sandbox, leased, routes, before, raced, late>>
         /\ nb'.owner = nb.owner /\ nb'.phase = nb.phase
         /\ nb'.drain = nb.drain /\ nb'.aged = nb.aged
         /\ \/ nb' = nb
            \/ nb'.acked = nb.acked \cup {k} /\ Foreign(k) /\ nb.phase # "Absent"
         /\ pass[k].pc = "ack"
         /\ pass'[k].pc = "own"
         /\ pass'[k].owner = pass[k].owner /\ ~pass'[k].routable
         /\ pass'[k].keep = pass[k].keep /\ pass'[k].promote = pass[k].promote
         /\ \A m \in Nodes \ {k} : pass'[m] = pass[m]
  <1>1. pass' = [pass EXCEPT ![k] = RoutesDone(k)]
    BY DEF AgentAck, AgentAckFail, LifecycleInv, TypeOK
  <1> QED
    BY <1>1 DEF RoutesDone, AgentAck, AgentAckFail, LifecycleInv, TypeOK, Passes, BlockObjects, apiVars,
           nodeVars, history

\* The acknowledgement, or a failure to make it.
LEMMA AgentAckKeeps ==
  ASSUME LifecycleInv, TypeOK', NEW k \in Nodes, AgentAck(k) \/ AgentAckFail(k)
  PROVE  LifecycleInv'
  <1>1. BlockIsWhole' /\ ViewIsRecent' /\ OnlyOwnerHolds'
    BY AckEffect DEF LifecycleInv, BlockIsWhole, ViewIsRecent, OnlyOwnerHolds
  <1>2. GoneIsEmpty'
    BY AckEffect DEF LifecycleInv, GoneIsEmpty, Running
  <1>3. PlanIsValid'
    BY AckEffect DEF LifecycleInv, PlanIsValid, Running
  <1>4. DrainIsSettling'
    <2>1. nb.phase = "Draining" => nb.owner \in Nodes
      BY DEF LifecycleInv, BlockIsWhole
    <2>0. /\ nb'.phase = nb.phase /\ nb'.drain = nb.drain /\ nb'.owner = nb.owner
          /\ nb'.aged = nb.aged
          /\ conf' = conf /\ sandbox' = sandbox /\ leased' = leased /\ before' = before
          /\ raced' = raced /\ late' = late
      BY AckEffect
    <2>2. SUFFICES ASSUME nb.phase = "Draining", nb.drain
                   PROVE  /\ conf[nb.owner] => raced
                          /\ sandbox[nb.owner] =>
                               <<nb.owner, "sandbox">> \in before \/ nb.owner \in late
                          /\ /\ pass'[nb.owner].pc = "status" /\ ~pass'[nb.owner].used
                             /\ nb.aged /\ leased[nb.owner]
                             => nb.owner \in late
      BY <2>0 DEF DrainIsSettling
    <2>3. pass'[nb.owner].pc = "status" => pass'[nb.owner] = pass[nb.owner]
      BY <2>1, <2>2, AckEffect
    <2> QED
      BY <2>2, <2>3 DEF LifecycleInv, DrainIsSettling
  <1>5. StalePassIsAwaited'
    BY AckEffect DEF LifecycleInv, StalePassIsAwaited, Running
  <1>6. RouteIsValid'
    BY AckEffect DEF LifecycleInv, RouteIsValid, Running, Foreign
  <1>7. AckIsValid'
    <2>1. SUFFICES ASSUME NEW m \in nb'.acked
                   PROVE  /\ m # nb'.owner
                          /\ pass'[m].pc = "routes" =>
                               pass'[m].routable \/ nb'.phase = "Quarantined"
                          /\ /\ nodes'[m] # "Gone" /\ nb'.phase # "Quarantined"
                             /\ nodes'[nb'.owner] # "Gone"
                             => routes'[m] = nb'.owner
      BY DEF AckIsValid
    <2>2. m \in Nodes
      BY DEF TypeOK, BlockObjects
    <2>3. CASE m \in nb.acked
      BY <2>2, <2>3, AckEffect DEF LifecycleInv, AckIsValid
    <2>4. CASE m \notin nb.acked
      <3>1. m = k /\ Foreign(k)
        BY <2>4, AckEffect
      <3>2. pass[k].owner = nb.owner /\ routes[k] = pass[k].owner
        BY <3>1, AckEffect DEF LifecycleInv, RouteIsValid, Running, Foreign
      <3> QED
        BY <3>1, <3>2, AckEffect DEF Foreign
    <2> QED
      BY <2>3, <2>4
  <1> QED
    BY <1>1, <1>2, <1>3, <1>4, <1>5, <1>6, <1>7 DEF LifecycleInv

\* The CNI config is written from what the pass decided, and the leases are counted.
LEMMA AgentOwnKeeps ==
  ASSUME LifecycleInv, TypeOK', NEW k \in Nodes, AgentOwn(k)
  PROVE  LifecycleInv'
  <1>1. BlockIsWhole'
    BY DEF LifecycleInv, AgentOwn, WriteConfig, EndPass, TypeOK, Passes, Idle, apiVars, history,
           BlockIsWhole
  <1>2. GoneIsEmpty'
    BY DEF LifecycleInv, AgentOwn, WriteConfig, EndPass, TypeOK, Passes, Idle, apiVars, history,
           GoneIsEmpty, Running
  <1>3. ViewIsRecent'
    BY DEF LifecycleInv, AgentOwn, WriteConfig, EndPass, TypeOK, Passes, Idle, apiVars, history,
           ViewIsRecent
  <1>4. OnlyOwnerHolds'
    BY DEF LifecycleInv, AgentOwn, WriteConfig, EndPass, TypeOK, Passes, Idle, apiVars, history,
           OnlyOwnerHolds, PlanIsValid, Running
  <1>5. PlanIsValid'
    BY DEF LifecycleInv, AgentOwn, WriteConfig, EndPass, TypeOK, Passes, Idle, apiVars, history,
           PlanIsValid, Running
  <1>6. DrainIsSettling'
    BY DEF LifecycleInv, AgentOwn, WriteConfig, EndPass, TypeOK, Passes, Idle, apiVars, history,
           DrainIsSettling, PlanIsValid, Running, BlockIsWhole
  <1>7. StalePassIsAwaited'
    BY DEF LifecycleInv, AgentOwn, WriteConfig, EndPass, TypeOK, Passes, Idle, apiVars, history,
           StalePassIsAwaited, Running
  <1>8. RouteIsValid'
    BY DEF LifecycleInv, AgentOwn, WriteConfig, EndPass, TypeOK, Passes, Idle, apiVars, history,
           RouteIsValid, Running, Foreign
  <1>9. AckIsValid'
    BY DEF LifecycleInv, AgentOwn, WriteConfig, EndPass, TypeOK, Passes, Idle, apiVars, history,
           AckIsValid, BlockObjects
  <1> QED
    BY <1>1, <1>2, <1>3, <1>4, <1>5, <1>6, <1>7, <1>8, <1>9 DEF LifecycleInv

\* A pass that ends early may leave its config behind, but no plan.
LEMMA AgentStopsKeeps ==
  ASSUME LifecycleInv, TypeOK', NEW k \in Nodes, AgentStops(k)
  PROVE  LifecycleInv'
  <1>1. BlockIsWhole'
    BY DEF LifecycleInv, AgentStops, WriteConfig, EndPass, TypeOK, Idle, apiVars, history,
           BlockIsWhole
  <1>2. GoneIsEmpty'
    BY DEF LifecycleInv, AgentStops, WriteConfig, EndPass, TypeOK, Idle, apiVars, history,
           GoneIsEmpty, Running
  <1>3. ViewIsRecent'
    BY DEF LifecycleInv, AgentStops, WriteConfig, EndPass, TypeOK, Idle, apiVars, history,
           ViewIsRecent
  <1>4. OnlyOwnerHolds'
    BY DEF LifecycleInv, AgentStops, WriteConfig, EndPass, TypeOK, Idle, apiVars, history,
           OnlyOwnerHolds, PlanIsValid, Running
  <1>5. PlanIsValid'
    BY DEF LifecycleInv, AgentStops, WriteConfig, EndPass, TypeOK, Idle, apiVars, history,
           PlanIsValid, Running
  <1>6. DrainIsSettling'
    BY DEF LifecycleInv, AgentStops, WriteConfig, EndPass, TypeOK, Idle, apiVars, history,
           DrainIsSettling, PlanIsValid, Running, BlockIsWhole
  <1>7. StalePassIsAwaited'
    BY DEF LifecycleInv, AgentStops, WriteConfig, EndPass, TypeOK, Idle, apiVars, history,
           StalePassIsAwaited, Running
  <1>8. RouteIsValid'
    BY DEF LifecycleInv, AgentStops, WriteConfig, EndPass, TypeOK, Idle, apiVars, history,
           RouteIsValid, Running, Foreign
  <1>9. AckIsValid'
    BY DEF LifecycleInv, AgentStops, WriteConfig, EndPass, TypeOK, Idle, apiVars, history, AckIsValid
  <1> QED
    BY <1>1, <1>2, <1>3, <1>4, <1>5, <1>6, <1>7, <1>8, <1>9 DEF LifecycleInv

\* The phase changes, and what is in flight is noted.
LEMMA AgentStatusKeeps ==
  ASSUME LifecycleInv, TypeOK', NEW k \in Nodes, AgentStatus(k)
  PROVE  LifecycleInv'
  <1>1. BlockIsWhole'
    BY StatusEffect DEF LifecycleInv, EndPass, TypeOK, Idle, nodeVars, history, BlockIsWhole
  <1>2. GoneIsEmpty'
    BY StatusEffect
    DEF LifecycleInv, AgentStatus, EndPass, TypeOK, Idle, nodeVars, history, GoneIsEmpty, Running
  <1>3. ViewIsRecent'
    BY StatusEffect
    DEF LifecycleInv, AgentStatus, EndPass, TypeOK, Idle, nodeVars, history, ViewIsRecent
  <1>4. OnlyOwnerHolds'
    BY StatusEffect
    DEF LifecycleInv, AgentStatus, EndPass, TypeOK, Idle, nodeVars, history, OnlyOwnerHolds,
        DrainIsSettling, BlockIsWhole
  <1>5. PlanIsValid'
    BY StatusEffect
    DEF LifecycleInv, AgentStatus, EndPass, TypeOK, Idle, nodeVars, history, PlanIsValid, Running
  <1>6. DrainIsSettling'
    <2>1. CASE EndPass(k) /\ nb' = nb /\ late' = late
      BY <2>1
      DEF LifecycleInv, TypeOK, DrainIsSettling, AgentStatus, EndPass, Idle, nodeVars, history
    <2>2. CASE ~(EndPass(k) /\ nb' = nb /\ late' = late)
      <3>1. SUFFICES ASSUME nb'.phase = "Draining", nb'.drain
                     PROVE  /\ conf'[nb'.owner] => raced'
                            /\ sandbox'[nb'.owner] => <<nb'.owner, "sandbox">> \in before'
                            /\ ~nb'.aged
        BY DEF DrainIsSettling
      <3>2. nb'.owner = k /\ (conf[k] => raced) /\ ~nb'.aged /\ before' = InFlight(k)
        BY <2>2, <3>1, StatusEffect
      <3> QED
        BY <3>2, InFlightHas DEF AgentStatus, nodeVars, history
    <2> QED
      BY <2>1, <2>2
  <1>7. StalePassIsAwaited'
    BY StatusEffect, InFlightHas
    DEF LifecycleInv, EndPass, TypeOK, Idle, nodeVars, history, StalePassIsAwaited, Running
  <1>8. RouteIsValid'
    BY StatusEffect, InFlightHas
    DEF LifecycleInv, AgentStatus, EndPass, TypeOK, Idle, nodeVars, history, RouteIsValid, Running,
        Foreign
  <1>9. AckIsValid'
    <2>1. nb'.acked = nb.acked /\ nb'.owner = nb.owner
      BY StatusEffect
    <2>2. nb.acked \subseteq Nodes
      BY DEF LifecycleInv, TypeOK, BlockObjects
    <2> QED
      BY <2>2, StatusEffect
      DEF LifecycleInv, AgentStatus, EndPass, TypeOK, Idle, nodeVars, history, AckIsValid
  <1> QED
    BY <1>1, <1>2, <1>3, <1>4, <1>5, <1>6, <1>7, <1>8, <1>9 DEF LifecycleInv

\* What the controller reads is true when it reads it.
LEMMA ControllerReadsKeeps ==
  ASSUME LifecycleInv, TypeOK', ControllerList \/ DoNothing
  PROVE  LifecycleInv'
  <1>1. ViewIsRecent'
    <2>1. CASE ControllerList
      <3>1. nb \in BlockObjects /\ nb' = nb /\ nodes' = nodes
        BY <2>1 DEF LifecycleInv, TypeOK, ControllerList, apiVars
      <3>2. /\ ctl'.view = [nb EXCEPT !.acked = {}]
            /\ ctl'.live = {n \in Nodes : nodes[n] # "Gone"}
        BY <2>1 DEF ControllerList
      <3>3. /\ ctl'.view.owner = nb.owner /\ ctl'.view.phase = nb.phase
            /\ ctl'.view.drain = nb.drain /\ ctl'.view.aged = nb.aged
        BY <3>1, <3>2 DEF BlockObjects
      <3> QED
        BY <3>1, <3>2, <3>3 DEF ViewIsRecent
    <2>2. CASE DoNothing
      BY <2>2 DEF DoNothing, Acts, NoReconcile, ViewIsRecent
    <2> QED
      BY <2>1, <2>2
  <1>2. /\ BlockIsWhole' /\ GoneIsEmpty' /\ OnlyOwnerHolds' /\ PlanIsValid' /\ DrainIsSettling'
        /\ StalePassIsAwaited' /\ RouteIsValid' /\ AckIsValid'
    BY DEF LifecycleInv, ControllerList, DoNothing, Acts, NoReconcile, apiVars, nodeVars, history,
           BlockIsWhole, GoneIsEmpty, Running, OnlyOwnerHolds, PlanIsValid, DrainIsSettling,
           StalePassIsAwaited, RouteIsValid, Foreign, AckIsValid
  <1> QED
    BY <1>1, <1>2 DEF LifecycleInv

\* A new block awaits the passes that saw an earlier one.
LEMMA CreateBlockKeeps ==
  ASSUME LifecycleInv, TypeOK', NEW k \in Nodes, CreateBlock(k)
  PROVE  LifecycleInv'
  <1>1. BlockIsWhole'
    BY CreateEffect DEF LifecycleInv, nodeVars, history, NoBlock, BlockIsWhole
  <1>2. GoneIsEmpty'
    BY DEF LifecycleInv, CreateBlock, Acts, nodeVars, history, NoBlock, GoneIsEmpty, Running
  <1>3. ViewIsRecent'
    BY DEF LifecycleInv, CreateBlock, Acts, nodeVars, history, NoBlock, ViewIsRecent, NoReconcile
  <1>4. OnlyOwnerHolds'
    BY DEF LifecycleInv, CreateBlock, Acts, nodeVars, history, NoBlock, OnlyOwnerHolds
  <1>5. PlanIsValid'
    BY DEF LifecycleInv, CreateBlock, Acts, nodeVars, history, NoBlock, PlanIsValid, Running
  <1>6. DrainIsSettling'
    BY CreateEffect DEF LifecycleInv, nodeVars, history, NoBlock, DrainIsSettling
  <1>7. StalePassIsAwaited'
    BY CreateEffect, InFlightHas
    DEF LifecycleInv, CreateBlock, Acts, nodeVars, history, NoBlock, StalePassIsAwaited, Running
  <1>8. RouteIsValid'
    BY DEF LifecycleInv, CreateBlock, Acts, nodeVars, history, NoBlock, RouteIsValid, Running,
           Foreign
  <1>9. AckIsValid'
    BY CreateEffect DEF AckIsValid
  <1> QED
    BY <1>1, <1>2, <1>3, <1>4, <1>5, <1>6, <1>7, <1>8, <1>9 DEF LifecycleInv

\* A drain finds the owner's agent anywhere.
LEMMA DrainBlockKeeps ==
  ASSUME LifecycleInv, TypeOK', DrainBlock
  PROVE  LifecycleInv'
  <1>1. BlockIsWhole'
    BY DrainEffect DEF LifecycleInv, DrainBlock, nodeVars, history, BlockIsWhole
  <1>2. GoneIsEmpty'
    BY DEF LifecycleInv, DrainBlock, Acts, nodeVars, history, GoneIsEmpty, Running
  <1>3. ViewIsRecent'
    BY DEF LifecycleInv, DrainBlock, Acts, nodeVars, history, ViewIsRecent, NoReconcile
  <1>4. OnlyOwnerHolds'
    BY DEF LifecycleInv, DrainBlock, Acts, nodeVars, history, OnlyOwnerHolds
  <1>5. PlanIsValid'
    BY DrainEffect DEF LifecycleInv, DrainBlock, Acts, nodeVars, history, PlanIsValid, Running
  <1>6. DrainIsSettling'
    BY DrainEffect DEF LifecycleInv, nodeVars, history, DrainIsSettling
  <1>7. StalePassIsAwaited'
    BY DrainEffect DEF LifecycleInv, DrainBlock, Acts, nodeVars, history, StalePassIsAwaited, Running
  <1>8. RouteIsValid'
    BY DEF LifecycleInv, DrainBlock, Acts, nodeVars, history, RouteIsValid, Running, Foreign
  <1>9. AckIsValid'
    BY DEF LifecycleInv, DrainBlock, Acts, nodeVars, history, AckIsValid
  <1> QED
    BY <1>1, <1>2, <1>3, <1>4, <1>5, <1>6, <1>7, <1>8, <1>9 DEF LifecycleInv

\* A drain is withdrawn.
LEMMA UndrainBlockKeeps ==
  ASSUME LifecycleInv, TypeOK', UndrainBlock
  PROVE  LifecycleInv'
  <1>1. BlockIsWhole'
    BY UndrainEffect DEF LifecycleInv, UndrainBlock, nodeVars, history, BlockIsWhole
  <1>2. GoneIsEmpty'
    BY UndrainEffect DEF LifecycleInv, UndrainBlock, Acts, nodeVars, history, GoneIsEmpty, Running
  <1>3. ViewIsRecent'
    BY UndrainEffect
    DEF LifecycleInv, UndrainBlock, Acts, nodeVars, history, ViewIsRecent, NoReconcile
  <1>4. OnlyOwnerHolds'
    BY UndrainEffect DEF LifecycleInv, UndrainBlock, Acts, nodeVars, history, OnlyOwnerHolds
  <1>5. PlanIsValid'
    BY UndrainEffect DEF LifecycleInv, UndrainBlock, Acts, nodeVars, history, PlanIsValid, Running
  <1>6. DrainIsSettling'
    BY UndrainEffect DEF LifecycleInv, UndrainBlock, nodeVars, history, DrainIsSettling
  <1>7. StalePassIsAwaited'
    BY UndrainEffect
    DEF LifecycleInv, UndrainBlock, Acts, nodeVars, history, StalePassIsAwaited, Running
  <1>8. RouteIsValid'
    BY UndrainEffect
    DEF LifecycleInv, UndrainBlock, Acts, nodeVars, history, RouteIsValid, Running, Foreign
  <1>9. AckIsValid'
    BY UndrainEffect DEF LifecycleInv, UndrainBlock, Acts, nodeVars, history, AckIsValid
  <1> QED
    BY <1>1, <1>2, <1>3, <1>4, <1>5, <1>6, <1>7, <1>8, <1>9 DEF LifecycleInv

\* The block of a node that is gone is empty.
LEMMA QuarantineOrphanKeeps ==
  ASSUME LifecycleInv, TypeOK', QuarantineOrphan
  PROVE  LifecycleInv'
  <1>1. BlockIsWhole'
    BY OrphanEffect DEF LifecycleInv, QuarantineOrphan, nodeVars, history, BlockIsWhole
  <1>2. GoneIsEmpty'
    BY OrphanEffect DEF LifecycleInv, QuarantineOrphan, Acts, nodeVars, history, GoneIsEmpty, Running
  <1>3. ViewIsRecent'
    BY OrphanEffect
    DEF LifecycleInv, QuarantineOrphan, Acts, nodeVars, history, ViewIsRecent, NoReconcile
  <1>4. OnlyOwnerHolds'
    BY OrphanEffect
    DEF LifecycleInv, QuarantineOrphan, Acts, nodeVars, history, OnlyOwnerHolds, GoneIsEmpty
  <1>5. PlanIsValid'
    BY OrphanEffect
    DEF LifecycleInv, QuarantineOrphan, Acts, nodeVars, history, PlanIsValid, Running, GoneIsEmpty
  <1>6. DrainIsSettling'
    BY OrphanEffect DEF LifecycleInv, QuarantineOrphan, nodeVars, history, DrainIsSettling
  <1>7. StalePassIsAwaited'
    BY OrphanEffect, InFlightHas
    DEF LifecycleInv, QuarantineOrphan, Acts, nodeVars, history, StalePassIsAwaited, Running
  <1>8. RouteIsValid'
    BY OrphanEffect, InFlightHas
    DEF LifecycleInv, QuarantineOrphan, Acts, nodeVars, history, RouteIsValid, Running, Foreign
  <1>9. AckIsValid'
    BY OrphanEffect DEF LifecycleInv, AckIsValid, QuarantineOrphan
  <1> QED
    BY <1>1, <1>2, <1>3, <1>4, <1>5, <1>6, <1>7, <1>8, <1>9 DEF LifecycleInv

\* A block is deleted after its quarantine, when nothing refers to it.
LEMMA DeleteBlockKeeps ==
  ASSUME LifecycleInv, TypeOK', DeleteBlock
  PROVE  LifecycleInv'
  <1>1. BlockIsWhole'
    BY DeleteEffect DEF LifecycleInv, nodeVars, history, NoBlock, BlockIsWhole
  <1>2. GoneIsEmpty'
    BY DEF LifecycleInv, DeleteBlock, Acts, nodeVars, history, NoBlock, GoneIsEmpty, Running
  <1>3. ViewIsRecent'
    BY DEF LifecycleInv, DeleteBlock, Acts, nodeVars, history, NoBlock, ViewIsRecent, NoReconcile
  <1>4. OnlyOwnerHolds'
    BY DeleteEffect DEF LifecycleInv, DeleteBlock, Acts, nodeVars, history, NoBlock, OnlyOwnerHolds
  <1>5. PlanIsValid'
    BY DeleteEffect
    DEF LifecycleInv, DeleteBlock, Acts, nodeVars, history, NoBlock, PlanIsValid, Running
  <1>6. DrainIsSettling'
    BY DeleteEffect DEF LifecycleInv, nodeVars, history, NoBlock, DrainIsSettling
  <1>7. StalePassIsAwaited'
    BY DeleteEffect DEF LifecycleInv, nodeVars, history, NoBlock, StalePassIsAwaited, Running
  <1>8. RouteIsValid'
    BY DeleteEffect
    DEF LifecycleInv, DeleteBlock, Acts, nodeVars, history, NoBlock, RouteIsValid, Running, Foreign
  <1>9. AckIsValid'
    BY DeleteEffect DEF LifecycleInv, nodeVars, history, NoBlock, AckIsValid
  <1> QED
    BY <1>1, <1>2, <1>3, <1>4, <1>5, <1>6, <1>7, <1>8, <1>9 DEF LifecycleInv

\* A sandbox reads the config of the owner.
LEMMA SandboxStartKeeps ==
  ASSUME LifecycleInv, TypeOK', NEW k \in Nodes, SandboxStart(k)
  PROVE  LifecycleInv'
  <1>1. /\ BlockIsWhole' /\ ViewIsRecent' /\ PlanIsValid' /\ StalePassIsAwaited'
        /\ RouteIsValid' /\ AckIsValid'
    BY DEF LifecycleInv, SandboxStart, TypeOK, apiVars, history, BlockIsWhole, ViewIsRecent,
           PlanIsValid, Running, StalePassIsAwaited, RouteIsValid, Foreign, AckIsValid
  <1>2. GoneIsEmpty'
    BY DEF LifecycleInv, SandboxStart, TypeOK, apiVars, history, GoneIsEmpty, Running
  <1>3. OnlyOwnerHolds'
    BY DEF LifecycleInv, SandboxStart, TypeOK, apiVars, history, OnlyOwnerHolds
  <1>4. DrainIsSettling'
    BY DEF LifecycleInv, SandboxStart, TypeOK, apiVars, history, DrainIsSettling
  <1> QED
    BY <1>1, <1>2, <1>3, <1>4 DEF LifecycleInv

\* A sandbox that ends is no longer awaited, and may leave a lease.
LEMMA SandboxEndKeeps ==
  ASSUME LifecycleInv, TypeOK', NEW k \in Nodes, SandboxEnd(k)
  PROVE  LifecycleInv'
  <1>1. BlockIsWhole'
    BY DEF LifecycleInv, SandboxEnd, Settle, TypeOK, apiVars, history, BlockIsWhole
  <1>2. GoneIsEmpty'
    BY DEF LifecycleInv, SandboxEnd, Settle, TypeOK, apiVars, history, GoneIsEmpty, Running
  <1>3. ViewIsRecent'
    BY DEF LifecycleInv, SandboxEnd, Settle, TypeOK, apiVars, history, ViewIsRecent
  <1>4. OnlyOwnerHolds'
    BY DEF LifecycleInv, SandboxEnd, Settle, TypeOK, apiVars, history, OnlyOwnerHolds
  <1>5. PlanIsValid'
    BY DEF LifecycleInv, SandboxEnd, Settle, TypeOK, apiVars, history, PlanIsValid, Running
  <1>6. DrainIsSettling'
    BY DEF LifecycleInv, SandboxEnd, Settle, TypeOK, apiVars, history, DrainIsSettling, BlockIsWhole
  <1>7. StalePassIsAwaited'
    BY DEF LifecycleInv, SandboxEnd, Settle, TypeOK, apiVars, history, StalePassIsAwaited, Running
  <1>8. RouteIsValid'
    BY DEF LifecycleInv, SandboxEnd, Settle, TypeOK, apiVars, history, RouteIsValid, Running, Foreign
  <1>9. AckIsValid'
    BY DEF LifecycleInv, SandboxEnd, Settle, TypeOK, apiVars, history, AckIsValid
  <1> QED
    BY <1>1, <1>2, <1>3, <1>4, <1>5, <1>6, <1>7, <1>8, <1>9 DEF LifecycleInv

\* A lease ends.
LEMMA PodsEndKeeps ==
  ASSUME LifecycleInv, TypeOK', NEW k \in Nodes, PodsEnd(k)
  PROVE  LifecycleInv'
  <1>1. /\ BlockIsWhole' /\ ViewIsRecent' /\ PlanIsValid' /\ StalePassIsAwaited'
        /\ RouteIsValid' /\ AckIsValid'
    BY DEF LifecycleInv, PodsEnd, Settle, TypeOK, apiVars, history, BlockIsWhole, ViewIsRecent, PlanIsValid,
           Running, StalePassIsAwaited, RouteIsValid, Foreign, AckIsValid
  <1>2. GoneIsEmpty'
    BY DEF LifecycleInv, PodsEnd, Settle, TypeOK, apiVars, history, GoneIsEmpty, Running
  <1>3. OnlyOwnerHolds'
    BY DEF LifecycleInv, PodsEnd, Settle, TypeOK, apiVars, history, OnlyOwnerHolds
  <1>4. DrainIsSettling'
    BY DEF LifecycleInv, PodsEnd, Settle, TypeOK, apiVars, history, DrainIsSettling
  <1> QED
    BY <1>1, <1>2, <1>3, <1>4 DEF LifecycleInv

\* A machine takes all that it holds with it.
LEMMA NodeGoneKeeps ==
  ASSUME LifecycleInv, TypeOK', NEW k \in Nodes, NodeGone(k)
  PROVE  LifecycleInv'
  <1>1. BlockIsWhole'
    BY DEF LifecycleInv, NodeGone, Settle, TypeOK, Idle, BlockIsWhole
  <1>2. GoneIsEmpty'
    BY DEF LifecycleInv, NodeGone, Settle, TypeOK, Idle, GoneIsEmpty, Running
  <1>3. ViewIsRecent'
    BY DEF LifecycleInv, NodeGone, Settle, TypeOK, Idle, ViewIsRecent
  <1>4. OnlyOwnerHolds'
    BY DEF LifecycleInv, NodeGone, Settle, TypeOK, Idle, OnlyOwnerHolds
  <1>5. PlanIsValid'
    BY DEF LifecycleInv, NodeGone, Settle, TypeOK, Idle, PlanIsValid, Running
  <1>6. DrainIsSettling'
    BY DEF LifecycleInv, NodeGone, Settle, TypeOK, Idle, DrainIsSettling
  <1>7. StalePassIsAwaited'
    BY DEF LifecycleInv, NodeGone, Settle, TypeOK, Idle, StalePassIsAwaited, Running
  <1>8. RouteIsValid'
    BY DEF LifecycleInv, NodeGone, Settle, TypeOK, Idle, RouteIsValid, Running, Foreign
  <1>9. AckIsValid'
    BY DEF LifecycleInv, NodeGone, Settle, TypeOK, Idle, AckIsValid
  <1> QED
    BY <1>1, <1>2, <1>3, <1>4, <1>5, <1>6, <1>7, <1>8, <1>9 DEF LifecycleInv

\* A timer runs out when everything it awaited is over.
LEMMA TimerRunsOutKeeps ==
  ASSUME LifecycleInv, TypeOK', TimerRunsOut
  PROVE  LifecycleInv'
  <1>1. BlockIsWhole'
    BY DEF LifecycleInv, TimerRunsOut, TypeOK, nodeVars, history, BlockIsWhole
  <1>2. GoneIsEmpty'
    BY DEF LifecycleInv, TimerRunsOut, TypeOK, nodeVars, history, GoneIsEmpty, Running
  <1>3. ViewIsRecent'
    BY DEF LifecycleInv, TimerRunsOut, TypeOK, nodeVars, history, ViewIsRecent
  <1>4. OnlyOwnerHolds'
    BY DEF LifecycleInv, TimerRunsOut, TypeOK, nodeVars, history, OnlyOwnerHolds
  <1>5. PlanIsValid'
    BY DEF LifecycleInv, TimerRunsOut, TypeOK, nodeVars, history, PlanIsValid, Running
  <1>6. DrainIsSettling'
    BY DEF LifecycleInv, TimerRunsOut, TypeOK, nodeVars, history, DrainIsSettling
  <1>7. StalePassIsAwaited'
    BY DEF LifecycleInv, TimerRunsOut, TypeOK, nodeVars, history, StalePassIsAwaited, Running
  <1>8. RouteIsValid'
    BY DEF LifecycleInv, TimerRunsOut, TypeOK, nodeVars, history, RouteIsValid, Running, Foreign
  <1>9. AckIsValid'
    BY DEF LifecycleInv, TimerRunsOut, TypeOK, nodeVars, history, AckIsValid
  <1> QED
    BY <1>1, <1>2, <1>3, <1>4, <1>5, <1>6, <1>7, <1>8, <1>9 DEF LifecycleInv

\* At the start there is no block and nothing is in flight.
LEMMA LifecycleInit == Init => LifecycleInv
  <1> SUFFICES ASSUME Init
               PROVE  LifecycleInv
    OBVIOUS
  <1>1. TypeOK
    BY TypesInit
  <1>2. /\ nb = NoBlock /\ before = {} /\ ctl.pc = "idle"
        /\ \A n \in Nodes : ~Running(n) /\ ~conf[n] /\ ~sandbox[n] /\ ~leased[n]
    BY DEF Init, NoReconcile, Running, Idle
  <1> QED
    BY <1>1, <1>2
    DEF LifecycleInv, BlockIsWhole, GoneIsEmpty, ViewIsRecent, OnlyOwnerHolds, PlanIsValid,
        DrainIsSettling, StalePassIsAwaited, RouteIsValid, AckIsValid, NoBlock

\* Every step keeps the invariant.
LEMMA LifecycleInductive ==
  LifecycleInv /\ [Next]_vars => LifecycleInv'
  <1> SUFFICES ASSUME LifecycleInv, [Next]_vars
               PROVE  LifecycleInv'
    OBVIOUS
  <1>1. TypeOK'
    BY TypesInductive DEF LifecycleInv
  <1>2. CASE UNCHANGED vars
    BY <1>1, <1>2
    DEF vars, history, LifecycleInv, BlockIsWhole, GoneIsEmpty, ViewIsRecent, OnlyOwnerHolds,
        PlanIsValid, DrainIsSettling, StalePassIsAwaited, RouteIsValid, AckIsValid, Running,
        Foreign
  <1>3. ASSUME NEW n \in Nodes, AgentStep(n) \/ AgentFault(n)
        PROVE  LifecycleInv'
    BY <1>1, <1>3, AgentListKeeps, AgentRoutesKeeps, AgentAckKeeps, AgentOwnKeeps,
       AgentStopsKeeps, AgentStatusKeeps
    DEF AgentStep, AgentFault
  <1>4. ASSUME NEW n \in Nodes,
               \/ SandboxStart(n) \/ SandboxEnd(n) \/ PodsEnd(n)
               \/ NodeGone(n)
        PROVE  LifecycleInv'
    BY <1>1, <1>4, SandboxStartKeeps, SandboxEndKeeps, PodsEndKeeps, NodeGoneKeeps
  <1>5. CASE ControllerList \/ ControllerActs \/ DoNothing
    BY <1>1, <1>5, ControllerReadsKeeps, CreateBlockKeeps, DrainBlockKeeps,
       UndrainBlockKeeps, QuarantineOrphanKeeps, DeleteBlockKeeps
    DEF ControllerActs
  <1>6. CASE TimerRunsOut
    BY <1>1, <1>6, TimerRunsOutKeeps
  <1> QED
    BY <1>2, <1>3, <1>4, <1>5, <1>6 DEF Next

\* The invariant implies what the theorems below state.
LEMMA LifecycleSafety ==
  Spec => []LifecycleInv
  BY LifecycleInit, LifecycleInductive, PTL DEF Spec

-----------------------------------------------------------------------------
(* The promises *)

\* A block is never in use on two nodes, through any number of drains, quarantines,
\* deletions and new owners: only its owner holds leases in it or sets up sandboxes
\* from it, but for the pods that a drain in the middle of a pass let in.
THEOREM NoBlockOnTwoNodes ==
  Spec => []OneNodeServes
  <1>1. LifecycleInv => OneNodeServes
    BY DEF LifecycleInv, OnlyOwnerHolds, OneNodeServes
  <1> QED
    BY <1>1, LifecycleSafety, PTL

\* A block whose routes are withdrawn has no config entry on any node, and no lease
\* or sandbox that the settle time could have awaited.
THEOREM QuarantineIsSafe ==
  Spec => []QuarantinedIsEmpty
  <1>1. LifecycleInv => QuarantinedIsEmpty
    BY DEF LifecycleInv, OnlyOwnerHolds, QuarantinedIsEmpty
  <1> QED
    BY <1>1, LifecycleSafety, PTL

\* The CNI config of a draining block's owner lists it only when the drain landed in
\* the middle of a pass, and only until the next config is written.
THEOREM OnlyRaceListsDraining ==
  Spec => []OnlyRacedDrainIsListed
  <1>1. LifecycleInv => OnlyRacedDrainIsListed
    BY DEF LifecycleInv, DrainIsSettling, OnlyRacedDrainIsListed
  <1> QED
    BY <1>1, LifecycleSafety, PTL

\* A node that has acknowledged the block routes it to its owner for as long as
\* pods can have its addresses, whoever owned the block before.
THEOREM AcknowledgedRoutesStay ==
  Spec => []AckedIsRouted
  <1>1. ASSUME LifecycleInv
        PROVE  AckedIsRouted
    <2>1. SUFFICES ASSUME NEW n \in Nodes, conf[n] \/ leased[n], nb.owner = n,
                          nb.phase = "Quarantined" => n \notin late,
                          NEW m \in nb.acked \ {n}, nodes[m] # "Gone"
                   PROVE  routes[m] = n
      BY DEF AckedIsRouted
    <2>2. nodes[n] # "Gone" /\ nb.phase # "Quarantined"
      BY <1>1, <2>1 DEF LifecycleInv, GoneIsEmpty, OnlyOwnerHolds
    <2> QED
      BY <1>1, <2>1, <2>2 DEF LifecycleInv, AckIsValid
  <1> QED
    BY <1>1, LifecycleSafety, PTL
=============================================================================
