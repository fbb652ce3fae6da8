--------------------------- MODULE BlockLifecycle ---------------------------
(***************************************************************************)
(* One NodeBlock from its creation to its return to the pool: the IPAM     *)
(* controller (ipam_controller.go, plan.go), the agent of every node       *)
(* (ipam/agent/agent.go, state.go), the API server that holds the object,  *)
(* and on each node the CNI configuration, the pod sandboxes that are      *)
(* being set up and the host-local leases.                                 *)
(*                                                                         *)
(* The block is one a node grew by: the node's starting block lies         *)
(* elsewhere and is always in its CNI config, so the config is written in  *)
(* every pass.  Demand is not modelled: whenever the planner's structural  *)
(* conditions hold it may or may not decide to grow, drain or undrain.     *)
(*                                                                         *)
(* A pass of an agent and a reconcile of the controller read the objects   *)
(* once and act on what they read, while everyone else goes on.  Status    *)
(* updates of the agent read the object again and retry on conflict, so    *)
(* each is one step on the current object; spec updates of the controller  *)
(* are refused when the object has changed, so each is one step too.       *)
(***************************************************************************)
EXTENDS Integers, FiniteSets

CONSTANTS
  Nodes,   \* node names
  NoNode   \* no node

ASSUME LifecycleAssumption == NoNode \notin Nodes /\ IsFiniteSet(Nodes)

VARIABLES
  nb,        \* the NodeBlock in the API server
  nodes,     \* nodes[n]: the Node object, "Present" or "Gone"
  ctl,       \* the controller's reconcile: what it has read
  pass,      \* pass[n]: where the agent's pass is and what it has read
  conf,      \* conf[n]: the CNI config of n hands out addresses of the block
  sandbox,   \* sandbox[n]: a sandbox that read such a config is being set up
  leased,    \* leased[n]: host-local on n holds leases in the block
  routes,    \* routes[n]: the node that n routes the block to, or NoNode
  before,    \* what was in flight when the block last changed its phase
  \* History, which no guard reads: the two places where the drain race shows.
  raced,     \* the drain landed in a pass of the owner, whose config may still list the block
  late       \* nodes with sandboxes or leases from such a config of a draining block

apiVars == <<nb, nodes>>
nodeVars == <<conf, sandbox, leased, routes>>
history == <<raced, late>>
vars == <<nb, nodes, ctl, pass, conf, sandbox, leased, routes, before, history>>

Phases == {"Absent", "Pending", "Active", "Draining", "Quarantined"}

\* aged: the timer of the phase has run out since LastTransitionTime, which is
\* PromoteTimeout, the shrink cooldown, DrainSettle or the quarantine.
BlockObjects ==
  [owner : Nodes \cup {NoNode}, phase : Phases, drain : BOOLEAN,
   acked : SUBSET Nodes, aged : BOOLEAN]

NoBlock ==
  [owner |-> NoNode, phase |-> "Absent", drain |-> FALSE, acked |-> {}, aged |-> FALSE]

NewBlock(n) == [NoBlock EXCEPT !.owner = n, !.phase = "Pending"]

Passes ==
  [pc : {"idle", "routes", "ack", "own", "status"}, owner : Nodes \cup {NoNode},
   routable : BOOLEAN, gateway : BOOLEAN, keep : BOOLEAN, promote : BOOLEAN,
   used : BOOLEAN]

Idle ==
  [pc |-> "idle", owner |-> NoNode, routable |-> FALSE, gateway |-> FALSE,
   keep |-> FALSE, promote |-> FALSE, used |-> FALSE]

Reconciles == [pc : {"idle", "act"}, view : BlockObjects, live : SUBSET Nodes]

NoReconcile == [pc |-> "idle", view |-> NoBlock, live |-> {}]

Init ==
  /\ nb = NoBlock
  /\ nodes = [n \in Nodes |-> "Present"]
  /\ ctl = NoReconcile
  /\ pass = [n \in Nodes |-> Idle]
  /\ conf = [n \in Nodes |-> FALSE]
  /\ sandbox = [n \in Nodes |-> FALSE]
  /\ leased = [n \in Nodes |-> FALSE]
  /\ routes = [n \in Nodes |-> NoNode]
  /\ before = {}
  /\ raced = FALSE
  /\ late = {}

\* A phase change restarts the timer of the block; everything that is in flight
\* on some node other than the pass of `self` that makes the change is older.
\* What an active block holds on its owner is no longer late.
InFlight(self) ==
  {<<n, "sandbox">> : n \in {m \in Nodes : sandbox[m]}}
    \cup {<<n, "pass">> : n \in {m \in Nodes \ {self} : pass[m].pc # "idle"}}

Transition(ph, self) ==
  /\ nb' = [nb EXCEPT !.phase = ph, !.aged = FALSE]
  /\ before' = InFlight(self)
  /\ late' = late \ (IF ph = "Active" THEN {nb.owner} ELSE {})

EndPass(n) ==
  /\ pass' = [pass EXCEPT ![n] = Idle]
  /\ before' = before \ {<<n, "pass">>}

-----------------------------------------------------------------------------
(* The agent's pass (Sync) *)

routable(phase) == phase \in {"Pending", "Active", "Draining"}

\* As ReadyToPromote, but without the timeout.
ReadyWhenAllAcked(n, ready) == ready \ {n} \subseteq nb.acked

\* Every other node that is Ready has acknowledged the route, or the promote
\* timeout has passed.
ReadyToPromote(n, ready) == ready \ {n} \subseteq nb.acked \/ nb.aged

\* As inConfig, but a drained block is dropped only when it is Draining.
inConfigUntilDraining(n) == nb.owner = n /\ nb.phase = "Active"

\* Blocks that stay in the CNI config of n.
inConfig(n) == nb.owner = n /\ nb.phase \in {"Active", "Draining"} /\ ~nb.drain

\* What a pass decides from the node and block lists.
Listed(n, ready) ==
  [pc       |-> "routes",
   owner    |-> nb.owner,
   routable |-> routable(nb.phase),
   gateway  |-> nb.owner # NoNode /\ nodes[nb.owner] # "Gone",
   keep     |-> inConfig(n),
   promote  |-> nb.owner = n /\ nb.phase = "Pending" /\ ~nb.drain /\ ReadyToPromote(n, ready),
   used     |-> FALSE]

\* The lists are read.  Any of the nodes may be Ready then.
AgentList(n) ==
  /\ pass[n].pc = "idle" /\ nodes[n] # "Gone"
  /\ \E ready \in SUBSET {m \in Nodes : nodes[m] # "Gone"} :
       pass' = [pass EXCEPT ![n] = Listed(n, ready)]
  /\ UNCHANGED <<apiVars, nodeVars, ctl, before, history>>

Foreign(n) == pass[n].owner \notin {n, NoNode} /\ pass[n].routable

\* DesiredRoutes: a block whose owner has no InternalIP is left out.
DesiredRoute(n) == IF Foreign(n) /\ pass[n].gateway THEN pass[n].owner ELSE NoNode

\* The pass goes on to its own blocks; what it read of the others has been used.
RoutesDone(n) == [pass[n] EXCEPT !.pc = "own", !.routable = FALSE, !.gateway = FALSE]

\* syncRoutes: new routes go in, stale ones come out.
AgentRoutesOK(n) ==
  /\ pass[n].pc = "routes"
  /\ Foreign(n) => pass[n].gateway
  /\ routes' = [routes EXCEPT ![n] = DesiredRoute(n)]
  /\ pass' = [pass EXCEPT ![n].pc = "ack"]
  /\ UNCHANGED <<apiVars, ctl, conf, sandbox, leased, before, history>>

\* As RoutesNotOK, but the routes are acknowledged all the same.
RoutesNotOKButAcked(n) ==
  /\ pass[n].pc = "routes"
  /\ pass' = [pass EXCEPT ![n].pc = "ack", ![n].promote = FALSE]
  /\ UNCHANGED <<apiVars, ctl, conf, sandbox, leased, before, history>>

\* The routes were not all installed: nothing is acknowledged or promoted in
\* this pass.
RoutesNotOK(n) ==
  /\ pass[n].pc = "routes"
  /\ pass' = [pass EXCEPT ![n] = [RoutesDone(n) EXCEPT !.promote = FALSE]]
  /\ UNCHANGED <<apiVars, ctl, conf, sandbox, leased, before, history>>

\* The gateway is missing.
AgentRoutesIncomplete(n) ==
  /\ Foreign(n) /\ ~pass[n].gateway
  /\ routes' = [routes EXCEPT ![n] = DesiredRoute(n)]
  /\ RoutesNotOK(n)

\* Some change failed, of this block's route or of another's: the route is as it
\* was, or as it should be, or the new one failed and the old one is out.
AgentRoutesFail(n) ==
  /\ \/ routes' = routes
     \/ routes' = [routes EXCEPT ![n] = DesiredRoute(n)]
     \/ routes[n] # DesiredRoute(n) /\ routes' = [routes EXCEPT ![n] = NoNode]
  /\ RoutesNotOK(n)

\* ack: the block is found again by its name.
AgentAck(n) ==
  /\ pass[n].pc = "ack"
  /\ nb' = IF Foreign(n) /\ nb.phase # "Absent" THEN [nb EXCEPT !.acked = @ \cup {n}] ELSE nb
  /\ pass' = [pass EXCEPT ![n] = RoutesDone(n)]
  /\ UNCHANGED <<nodes, nodeVars, ctl, before, history>>

\* The acknowledgement fails; the pass goes on.
AgentAckFail(n) ==
  /\ pass[n].pc = "ack"
  /\ pass' = [pass EXCEPT ![n] = RoutesDone(n)]
  /\ UNCHANGED <<apiVars, nodeVars, ctl, before, history>>

WriteConfig(n) ==
  /\ conf' = [conf EXCEPT ![n] = pass[n].keep \/ pass[n].promote]
  /\ raced' = (raced /\ (nb.owner = n => conf'[n]))

\* syncOwn up to the lease count: the CNI config, then the count.
AgentOwn(n) ==
  /\ pass[n].pc = "own"
  /\ WriteConfig(n)
  /\ IF pass[n].owner = n
     THEN /\ pass' = [pass EXCEPT ![n].pc = "status", ![n].used = leased[n]]
          /\ before' = before
     ELSE EndPass(n)
  /\ UNCHANGED <<apiVars, ctl, sandbox, leased, routes, late>>

\* The pass ends early: the config cannot be written, the leases cannot be
\* counted, the status update fails, or the agent restarts.
AgentStops(n) ==
  /\ pass[n].pc # "idle"
  /\ \/ UNCHANGED <<conf, raced>>
     \/ pass[n].pc = "own" /\ WriteConfig(n)
  /\ EndPass(n)
  /\ UNCHANGED <<apiVars, ctl, sandbox, leased, routes, late>>

\* As nextPhase, but "no change" is taken for a phase.
nextPhaseEmpty(promoting, used) ==
  IF promoting /\ nb.phase = "Pending" THEN "Active" ELSE ""

\* As nextPhase, but an empty block does not wait for the settle time.
nextPhaseUnsettled(promoting, used) ==
  CASE promoting /\ nb.phase = "Pending"            -> "Active"
    [] nb.phase = "Active" /\ nb.drain              -> "Draining"
    [] nb.phase = "Draining" /\ ~nb.drain           -> "Active"
    [] nb.phase = "Draining" /\ nb.drain /\ ~used   -> "Quarantined"
    [] OTHER                                        -> nb.phase

\* nextPhase, on the block as it is now and with what the pass found out.
nextPhase(promoting, used) ==
  CASE promoting /\ nb.phase = "Pending"                      -> "Active"
    [] nb.phase = "Active" /\ nb.drain                        -> "Draining"
    [] nb.phase = "Draining" /\ ~nb.drain                     -> "Active"
    [] /\ nb.phase = "Draining" \/ (nb.phase = "Pending" /\ ~promoting)
       /\ nb.drain /\ ~used /\ nb.aged                         -> "Quarantined"
    [] OTHER                                                  -> nb.phase

AgentStatus(n) ==
  /\ pass[n].pc = "status"
  /\ LET next == nextPhase(pass[n].promote, pass[n].used)
     IN IF nb.phase # "Absent" /\ next # nb.phase
        THEN /\ Transition(next, n)
             /\ pass' = [pass EXCEPT ![n] = Idle]
        ELSE EndPass(n) /\ UNCHANGED <<nb, late>>
  /\ UNCHANGED <<nodes, nodeVars, ctl, raced>>

-----------------------------------------------------------------------------
(* The controller's reconcile *)

ControllerList ==
  /\ ctl.pc = "idle"
  /\ ctl' = [pc |-> "act", view |-> [nb EXCEPT !.acked = {}],
            live |-> {n \in Nodes : nodes[n] # "Gone"}]
  /\ UNCHANGED <<apiVars, nodeVars, pass, before, history>>

Acts == ctl.pc = "act" /\ ctl' = NoReconcile /\ UNCHANGED <<nodes, nodeVars, pass>>

\* createBlock: the name is taken when the block exists.
CreateBlock(n) ==
  /\ Acts
  /\ ctl.view.phase = "Absent" /\ n \in ctl.live
  /\ IF nb.phase = "Absent" THEN nb' = NewBlock(n) /\ before' = InFlight(NoNode)
     ELSE UNCHANGED <<nb, before>>
  /\ UNCHANGED history

\* setDrain(true) for a block shrinkCandidate picked: Active for the cooldown.
\* The owner's pass may be anywhere.
DrainBlock ==
  /\ Acts
  /\ ctl.view.phase = "Active" /\ ~ctl.view.drain /\ ctl.view.aged
  /\ ctl.view.owner \in ctl.live
  /\ nb' = IF nb.phase = "Absent" THEN nb ELSE [nb EXCEPT !.drain = TRUE]
  /\ raced' = (pass[ctl.view.owner].pc # "idle")
  /\ UNCHANGED <<before, late>>

\* setDrain(false): the node needs the space after all.
UndrainBlock ==
  /\ Acts
  /\ ctl.view.phase \in {"Active", "Draining"} /\ ctl.view.drain
  /\ ctl.view.owner \in ctl.live
  /\ nb' = IF nb.phase = "Absent" THEN nb ELSE [nb EXCEPT !.drain = FALSE]
  /\ raced' = FALSE
  /\ UNCHANGED <<before, late>>

\* The owner's Node object is gone.
QuarantineOrphan ==
  /\ Acts
  /\ routable(ctl.view.phase) /\ ctl.view.owner \notin ctl.live
  /\ IF nb.phase = "Absent" THEN UNCHANGED <<nb, before, late>>
     ELSE Transition("Quarantined", NoNode)
  /\ UNCHANGED raced

BlockIsGone == nb' = NoBlock /\ before' = {} /\ raced' = FALSE /\ UNCHANGED late

\* As DeleteBlock, but the quarantine is skipped.
DeleteDraining ==
  /\ Acts
  /\ ctl.view.phase \in {"Draining", "Quarantined"} /\ ctl.view.aged
  /\ BlockIsGone

\* As DeleteBlock, but the blocks of deleted nodes are forgotten.
DeleteOfLiveNode ==
  /\ Acts
  /\ ctl.view.phase = "Quarantined" /\ ctl.view.aged /\ ctl.view.owner \in ctl.live
  /\ BlockIsGone

\* The quarantine is over.
DeleteBlock ==
  /\ Acts
  /\ ctl.view.phase = "Quarantined" /\ ctl.view.aged
  /\ BlockIsGone

\* The plan has nothing for this block, or the reconcile fails or the controller
\* restarts before it acts.
DoNothing == Acts /\ UNCHANGED <<nb, before, history>>

-----------------------------------------------------------------------------
(* Kubelet, nodes and time *)

\* A node whose last sandbox and lease are gone has nothing late any more.
Settle(n, holds) == late' = IF holds THEN late ELSE late \ {n}

SandboxStart(n) ==
  /\ conf[n] /\ ~sandbox[n] /\ nodes[n] # "Gone"
  /\ sandbox' = [sandbox EXCEPT ![n] = TRUE]
  /\ late' = late \cup (IF raced /\ nb.phase = "Draining" THEN {n} ELSE {})
  /\ UNCHANGED <<apiVars, ctl, pass, conf, leased, routes, before, raced>>

SandboxEnd(n) ==
  /\ sandbox[n]
  /\ sandbox' = [sandbox EXCEPT ![n] = FALSE]
  /\ before' = before \ {<<n, "sandbox">>}
  /\ \/ leased' = [leased EXCEPT ![n] = TRUE]
     \/ leased' = leased
  /\ Settle(n, leased'[n])
  /\ UNCHANGED <<apiVars, ctl, pass, conf, routes, raced>>

\* The last pod with an address of the block ends.
PodsEnd(n) ==
  /\ leased[n]
  /\ leased' = [leased EXCEPT ![n] = FALSE]
  /\ Settle(n, sandbox[n])
  /\ UNCHANGED <<apiVars, ctl, pass, conf, sandbox, routes, before, raced>>

\* The machine and its pods are gone and its Node object is deleted.
NodeGone(n) ==
  /\ nodes[n] # "Gone"
  /\ nodes' = [nodes EXCEPT ![n] = "Gone"]
  /\ pass' = [pass EXCEPT ![n] = Idle]
  /\ conf' = [conf EXCEPT ![n] = FALSE]
  /\ sandbox' = [sandbox EXCEPT ![n] = FALSE]
  /\ leased' = [leased EXCEPT ![n] = FALSE]
  /\ routes' = [routes EXCEPT ![n] = NoNode]
  /\ before' = {f \in before : f[1] # n}
  /\ Settle(n, FALSE)
  /\ UNCHANGED <<nb, ctl, raced>>

\* The timer of the current phase runs out.  The timers are seconds to minutes:
\* each outlasts the sandboxes and passes that were in flight when it started,
\* and a pass does not take so long that the timer runs out between its lease
\* count and its status update.
TimerRunsOut ==
  /\ nb.phase # "Absent" /\ ~nb.aged
  /\ before = {}
  /\ pass[nb.owner].pc # "status"
  /\ nb' = [nb EXCEPT !.aged = TRUE]
  /\ UNCHANGED <<nodes, nodeVars, ctl, pass, before, history>>

AgentStep(n) ==
  \/ AgentList(n)
  \/ AgentRoutesOK(n) \/ AgentRoutesIncomplete(n) \/ AgentAck(n)
  \/ AgentOwn(n) \/ AgentStatus(n)

AgentFault(n) == AgentRoutesFail(n) \/ AgentAckFail(n) \/ AgentStops(n)

ControllerActs ==
  \/ \E n \in Nodes : CreateBlock(n)
  \/ DrainBlock \/ UndrainBlock \/ QuarantineOrphan \/ DeleteBlock

Next ==
  \/ \E n \in Nodes :
       \/ AgentStep(n) \/ AgentFault(n)
       \/ SandboxStart(n) \/ SandboxEnd(n) \/ PodsEnd(n)
       \/ NodeGone(n)
  \/ ControllerList \/ ControllerActs \/ DoNothing
  \/ TimerRunsOut

Spec == Init /\ [][Next]_vars

\* The owner's agent polls, while any other agent may be down for ever and only
\* finishes the pass it is in.  The controller is requeued until it succeeds, sandboxes and pods
\* end, and timers run out.  A plan that finds an orphan or an ended quarantine
\* always acts on it, so only failures can keep these two from happening.
Fairness ==
  /\ \A n \in Nodes : /\ WF_vars((nb.owner = n \/ pass[n].pc # "idle") /\ AgentStep(n))
                      /\ WF_vars(SandboxEnd(n))
                      /\ WF_vars(PodsEnd(n))
  /\ WF_vars(ControllerList)
  /\ WF_vars(DoNothing)
  /\ SF_vars(QuarantineOrphan)
  /\ SF_vars(DeleteBlock)
  /\ SF_vars(TimerRunsOut)

FairSpec == Spec /\ Fairness

-----------------------------------------------------------------------------
(* Properties *)

\* Every variable keeps its type.
TypeOK ==
  /\ nb \in BlockObjects
  /\ nodes \in [Nodes -> {"Present", "Gone"}]
  /\ ctl \in Reconciles
  /\ pass \in [Nodes -> Passes]
  /\ conf \in [Nodes -> BOOLEAN]
  /\ sandbox \in [Nodes -> BOOLEAN]
  /\ leased \in [Nodes -> BOOLEAN]
  /\ routes \in [Nodes -> Nodes \cup {NoNode}]
  /\ before \subseteq Nodes \X {"sandbox", "pass"}
  /\ raced \in BOOLEAN
  /\ late \subseteq Nodes

\* A block that is withdrawn and later handed to another node has pods of its
\* owner only, through every order of drains, passes and sandboxes but one: pods
\* that were set up from a draining block because its drain landed in the middle
\* of the owner's pass may outlive the block.
OneNodeServes ==
  \A n \in Nodes \ late : leased[n] \/ sandbox[n] => nb.owner = n

\* A block is Quarantined, and its routes are withdrawn, only when no CNI config
\* lists it and only pods of the drain race are left in it (nextPhase).
QuarantinedIsEmpty ==
  nb.phase = "Quarantined" =>
    \A n \in Nodes : ~conf[n] /\ (leased[n] \/ sandbox[n] => n \in late)

\* A block is marked Draining, which starts its settle time, only once the CNI
\* config no longer lists it (the comment in nextPhase).
DrainingIsOutOfConfig ==
  nb.phase = "Draining" /\ nb.drain => ~conf[nb.owner]

\* What the order of Sync does ensure of that: the config of a draining block's
\* owner lists it only when the drain landed in the middle of a pass, only until
\* the next config is written, and no pass ever brings it back.
OnlyRacedDrainIsListed ==
  nb.phase = "Draining" /\ nb.drain /\ conf[nb.owner] => raced

\* Sync's order (routes, then CNI config, then Active): a node that acknowledged
\* the block routes it to its owner for as long as pods can have its addresses,
\* late pods of a quarantined block excepted.
AckedIsRouted ==
  \A n \in Nodes :
    /\ nb.owner = n /\ (conf[n] \/ leased[n])
    /\ nb.phase = "Quarantined" => n \notin late
    => \A m \in nb.acked \ {n} : nodes[m] # "Gone" => routes[m] = n

\* Passes fail only finitely often.  (A failure that changes nothing a success
\* would not change, such as an acknowledgement that was already there, does no
\* harm however often it happens.)
FaultsStop == \A n \in Nodes : <>[][AgentFault(n) => AgentStep(n)]_vars

\* A drain that is not withdrawn ends with the block back in the pool, whatever
\* its owner and the sandboxes on it were doing when it was asked for: the block
\* cannot be stuck in Draining or in Quarantined.
DrainCompletes ==
  FaultsStop =>
    ((nb.phase \in {"Active", "Draining"} /\ nb.drain)
       ~> (nb.phase = "Absent" \/ ~nb.drain))

\* A new block does not stay Pending: the other nodes acknowledge it, the promote
\* timeout lets it pass, or its owner disappears and the block is withdrawn.
PendingIsLeft == FaultsStop => (nb.phase = "Pending" ~> nb.phase # "Pending")
=============================================================================
