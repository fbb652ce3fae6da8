------------------------------ MODULE BlockSplit ------------------------------
(***************************************************************************)
(* How a node gives back one half of a block it grew by: the controller    *)
(* asks for the half (Spec.Release), the owner's agent takes it out of the *)
(* CNI config and, when it has been out of it for the settle time and      *)
(* holds no lease, reports it ready (Status.ReleaseReady), and the         *)
(* controller then splits the block.  The half becomes a block of its own, *)
(* rests in quarantine, and goes back to the pool, where another node may  *)
(* get it.                                                                 *)
(*                                                                         *)
(* The block is Active, is not drained, and its other half is in use, so   *)
(* that it is always the same half that is given back.  Demand is not      *)
(* modelled: whenever the planner's structural conditions hold it may      *)
(* decide to release or to keep the half.  A reconcile that decides        *)
(* nothing changes nothing.                                                *)
(*                                                                         *)
(* The controller and the agent read the object once in a pass and act on  *)
(* what they read.  Their updates read it again and are refused, or        *)
(* retried, when it has changed in between, so each of them is one step.   *)
(***************************************************************************)
EXTENDS Integers, FiniteSets

CONSTANTS
  Sandboxes,   \* pod sandboxes of the owner, by the name of their pod
  Failures,    \* bound: passes of the agent that end early
  Crashes      \* bound: how often the controller or the agent stops

ASSUME SplitAssumption == Failures \in Nat /\ Crashes \in Nat

VARIABLES
  block,     \* the NodeBlock in the API server
  rest,      \* the NodeBlock of the released half
  conf,      \* the owner's CNI config hands out addresses of the half
  sandbox,   \* sandbox[s]: has read such a config, or holds a lease in the half
  ctl,       \* the controller's reconcile: the step it is at
  pass,      \* the agent's pass: where it is and what it has read
  mark,      \* releasing: how long the agent has seen the half out of the config
  left,      \* failures and crashes that may still happen
  stale      \* history: what goes back to a request that was withdrawn since

vars == <<block, rest, conf, sandbox, ctl, pass, mark, left, stale>>

\* CIDR, Release and ReleaseReady, and whether HalfUsage says the half is empty.
NodeBlocks ==
  [cidr : {"whole", "kept"}, release : BOOLEAN, ready : BOOLEAN, empty : BOOLEAN]

Rests == {"none", "pending", "quarantined", "other"}

Passes ==
  [pc : {"idle", "listed", "written", "counted"}, cidr : {"whole", "kept"},
   release : BOOLEAN, rest : BOOLEAN, used : BOOLEAN, ready : BOOLEAN]

IdlePass ==
  [pc |-> "idle", cidr |-> "whole", release |-> FALSE, rest |-> FALSE,
   used |-> FALSE, ready |-> FALSE]

Steps == {"idle", "release", "unrelease", "split", "narrowed", "cleared", "created"}

Init ==
  /\ block = [cidr |-> "whole", release |-> FALSE, ready |-> FALSE, empty |-> FALSE]
  /\ rest = "none"
  /\ conf = TRUE
  /\ sandbox = [s \in Sandboxes |-> "none"]
  /\ ctl = "idle"
  /\ pass = IdlePass
  /\ mark = "none"
  /\ left = [failures |-> Failures, crashes |-> Crashes]
  /\ stale = {}

\* The mark, what the pass is about to report, the report on the block, and the
\* split that was made on the strength of it.  No guard reads what is stale.
Kinds == {"mark", "pass", "report", "split"}

\* stale' says of `kind` whether it is stale, and the same as before of the others.
Judge(kind, isStale) ==
  stale' = IF isStale THEN stale \cup {kind} ELSE stale \ {kind}

-----------------------------------------------------------------------------
(* The controller *)

\* completeSplits: the half that is asked for is reported ready.
ToSplit == block.release /\ block.ready

\* What planPool may decide.  A node is only judged when nothing is to be split.
Decisions ==
  IF ToSplit THEN {"split"}
  ELSE IF block.release THEN {"unrelease"}
  ELSE IF block.cidr = "whole" /\ block.empty THEN {"release"}
  ELSE {}

Decide ==
  /\ ctl = "idle"
  /\ ctl' \in Decisions
  /\ UNCHANGED <<block, rest, conf, sandbox, pass, mark, left, stale>>

\* setRelease, which changes nothing when the request is there already.
SetRelease(step, release) ==
  /\ ctl = step /\ ctl' = "idle"
  /\ block' = [block EXCEPT !.release = release]
  /\ Judge("report", block.ready /\ (release => "report" \in stale))
  /\ UNCHANGED <<rest, conf, sandbox, pass, mark, left>>

ReleaseHalf == SetRelease("release", TRUE)
KeepHalf == SetRelease("unrelease", FALSE)

\* splitBlock: one update of the spec shrinks the block.
Narrow ==
  /\ ctl = "split"
  /\ IF ToSplit
     THEN /\ ctl' = "narrowed"
          /\ block' = [block EXCEPT !.cidr = "kept", !.release = FALSE]
          /\ Judge("split", "report" \in stale)
     ELSE ctl' = "idle" /\ UNCHANGED <<block, stale>>
  /\ UNCHANGED <<rest, conf, sandbox, pass, mark, left>>

\* Then the status; a conflict with the agent's own update is passed over.
ClearHalfStatus ==
  /\ ctl = "narrowed" /\ ctl' = "cleared"
  /\ \/ block' = [block EXCEPT !.ready = FALSE, !.empty = FALSE] /\ Judge("report", FALSE)
     \/ UNCHANGED <<block, stale>>
  /\ UNCHANGED <<rest, conf, sandbox, pass, mark, left>>

CreateRest ==
  /\ ctl = "cleared" /\ ctl' = "created"
  /\ rest' = "pending"
  /\ UNCHANGED <<block, conf, sandbox, pass, mark, left, stale>>

\* Refused when the agent has already done so.
QuarantineRest ==
  /\ ctl = "created" /\ ctl' = "idle"
  /\ rest' = "quarantined"
  /\ UNCHANGED <<block, conf, sandbox, pass, mark, left, stale>>

\* The controller stops, or a call fails and ends its reconcile.  What has been
\* written stays, and the next reconcile plans from that.
ControllerStops ==
  /\ ctl # "idle" /\ left.crashes > 0
  /\ ctl' = "idle" /\ left' = [left EXCEPT !.crashes = @ - 1]
  /\ UNCHANGED <<block, rest, conf, sandbox, pass, mark, stale>>

\* The quarantine has passed: the block is deleted.
DeleteRest ==
  /\ ctl = "idle" /\ rest = "quarantined"
  /\ rest' = "none"
  /\ UNCHANGED <<block, conf, sandbox, ctl, pass, mark, left, stale>>

\* The half is free, and the planner gives it to another node.
GiveHalf ==
  /\ ctl = "idle" /\ block.cidr = "kept" /\ rest = "none"
  /\ rest' = "other"
  /\ UNCHANGED <<block, conf, sandbox, ctl, pass, mark, left, stale>>

-----------------------------------------------------------------------------
(* The agent's pass (syncOwn) *)

AgentList ==
  /\ pass.pc = "idle"
  /\ pass' = [IdlePass EXCEPT !.pc = "listed", !.cidr = block.cidr,
                              !.release = block.release, !.rest = (rest = "pending")]
  /\ UNCHANGED <<block, rest, conf, sandbox, ctl, mark, left, stale>>

\* ServedCIDR: the config leaves out a half that is being released.
WriteConfig ==
  /\ pass.pc = "listed"
  /\ conf' = (pass.cidr = "whole" /\ ~pass.release)
  /\ pass' = [pass EXCEPT !.pc = "written"]
  /\ Judge("mark", mark # "none" /\ (conf' \/ "mark" \in stale))
  /\ UNCHANGED <<block, rest, sandbox, ctl, mark, left>>

Leased == \E s \in Sandboxes : sandbox[s] = "leased"

\* releaseReady: the mark of an earlier pass has run out and no lease is left.
ReportsReady == pass.release /\ mark = "settled" /\ ~Leased

\* As Marked, but a mark starts anew in every pass.
MarkedAnew == IF ~pass.release THEN "none" ELSE "running"

\* The mark is set, kept, or dropped when the half is not asked for.
Marked == IF ~pass.release THEN "none" ELSE IF mark = "none" THEN "running" ELSE mark

\* The leases of the half are counted, and the half is found ready or not.
CountLeases ==
  /\ pass.pc = "written"
  /\ mark' = Marked
  /\ pass' = [pass EXCEPT !.pc = "counted", !.used = Leased, !.ready = ReportsReady]
  /\ stale' = IF ~pass.release THEN stale \ {"mark"}
              ELSE IF "mark" \in stale /\ ReportsReady THEN stale \cup {"pass"}
              ELSE stale
  /\ UNCHANGED <<block, rest, conf, sandbox, ctl, left>>

\* The config cannot be written, or the leases cannot be counted: the pass ends
\* and leaves the mark as it was.
PassFails ==
  /\ pass.pc \in {"listed", "written"} /\ left.failures > 0
  /\ pass' = IdlePass /\ left' = [left EXCEPT !.failures = @ - 1]
  /\ UNCHANGED <<block, rest, conf, sandbox, ctl, mark, stale>>

\* As HalfStatus, but for whatever block and request are there now.
HalfStatusUnchecked == [block EXCEPT !.empty = ~pass.used, !.ready = pass.ready]

\* setHalfStatus: the numbers only hold for the CIDR and the request that were read.
HalfStatus ==
  IF block.cidr # pass.cidr THEN block
  ELSE [block EXCEPT !.empty = ~pass.used,
                     !.ready = pass.ready /\ block.release = pass.release]

\* As RestSettles, but a Pending block only ever becomes Active.
RestNeverSettles == FALSE

\* nextPhase: a Pending block that is to be given back and holds no lease is
\* Quarantined once the settle time has passed.
RestSettles == pass.rest /\ rest = "pending" /\ ~pass.used

\* The report on both blocks.
Report ==
  /\ pass.pc = "counted" /\ pass' = IdlePass
  /\ block' = HalfStatus
  /\ stale' = (IF block.cidr # pass.cidr THEN stale
               ELSE IF "pass" \in stale /\ block'.ready THEN stale \cup {"report"}
               ELSE stale \ {"report"}) \ {"pass"}
  /\ UNCHANGED <<conf, sandbox, ctl, mark, left>>

ReportStatus == Report /\ UNCHANGED rest

ReportRestSettled == RestSettles /\ Report /\ rest' = "quarantined"

AgentStops ==
  /\ left.crashes > 0 /\ left' = [left EXCEPT !.crashes = @ - 1]
  /\ pass' = IdlePass /\ mark' = "none" /\ stale' = stale \ {"mark", "pass"}
  /\ UNCHANGED <<block, rest, conf, sandbox, ctl>>

\* The settle time covers every sandbox that read the config when it began.
SettleTimePasses ==
  /\ mark = "running" /\ \A s \in Sandboxes : sandbox[s] # "reading"
  /\ mark' = "settled"
  /\ UNCHANGED <<block, rest, conf, sandbox, ctl, pass, left, stale>>

-----------------------------------------------------------------------------
(* Pods on the owner *)

Sandbox(s, from, to) ==
  /\ sandbox[s] = from /\ sandbox' = [sandbox EXCEPT ![s] = to]
  /\ UNCHANGED <<block, rest, conf, ctl, pass, mark, left, stale>>

ReadConfig(s) == conf /\ Sandbox(s, "none", "reading")
TakeLease(s) == Sandbox(s, "reading", "leased")
GiveUp(s) == Sandbox(s, "reading", "none")
PodEnds(s) == Sandbox(s, "leased", "none")

-----------------------------------------------------------------------------

Controller ==
  \/ ReleaseHalf \/ KeepHalf
  \/ Narrow \/ ClearHalfStatus \/ CreateRest \/ QuarantineRest

Agent == AgentList \/ WriteConfig \/ CountLeases \/ ReportStatus \/ ReportRestSettled

Next ==
  \/ Decide \/ Controller \/ ControllerStops \/ DeleteRest \/ GiveHalf
  \/ Agent \/ PassFails \/ AgentStops \/ SettleTimePasses
  \/ \E s \in Sandboxes : ReadConfig(s) \/ TakeLease(s) \/ GiveUp(s) \/ PodEnds(s)

Spec == Init /\ [][Next]_vars

\* Reconciles and passes go on, and a plan that finds a half to split or a
\* quarantine at its end acts on it.  Timers run out, a sandbox is set up or given
\* up, and pods end.  Nothing says that the planner ever asks for the half.
Fairness ==
  /\ WF_vars(Controller) /\ WF_vars(ToSplit /\ Decide) /\ SF_vars(DeleteRest)
  /\ WF_vars(Agent) /\ SF_vars(ReportRestSettled) /\ WF_vars(SettleTimePasses)
  /\ \A s \in Sandboxes : WF_vars(TakeLease(s) \/ GiveUp(s)) /\ WF_vars(PodEnds(s))

FairSpec == Spec /\ Fairness

-----------------------------------------------------------------------------
(* Properties *)

TypeOK ==
  /\ block \in NodeBlocks /\ rest \in Rests /\ conf \in BOOLEAN
  /\ sandbox \in [Sandboxes -> {"none", "reading", "leased"}]
  /\ ctl \in Steps /\ pass \in Passes
  /\ mark \in {"none", "running", "settled"}
  /\ left \in [failures : 0..Failures, crashes : 0..Crashes]
  /\ stale \subseteq Kinds

Unused == ~conf /\ \A s \in Sandboxes : sandbox[s] = "none"

\* splitBlock, "the owner's CNI config already left the half out and the agent saw
\* it empty for the settle time": from the moment the block has shrunk, whatever
\* fails or stops in between, the half is in no config, no pod has an address of
\* it, no sandbox still sets one up, and it is not owned as part of the block.
SplitHalfIsUnused ==
  /\ block.cidr = "kept" => Unused
  /\ block.cidr = "whole" => rest = "none"

\* What the order of the writes does ensure: nothing misleads splitBlock but a
\* report that outlived the withdrawal of its request, or one that rests on a mark
\* which did.  A crash, a failed call, a pass that ran meanwhile or a sandbox that
\* was late does not.
OnlyStaleReportsMislead ==
  /\ block.cidr = "kept" => Unused \/ "split" \in stale
  /\ block.cidr = "whole" => rest = "none"

\* Whatever stops in between, a half that is asked for is split off or left to its
\* node again: it does not stay out of the config of a block that owns it.
ReleaseResolves == block.release ~> ~block.release

\* A half that rests comes back to the pool, also when the controller stopped
\* before it could quarantine the new block (nextPhase, "Created to be given back").
RestComesBack == rest \in {"pending", "quarantined"} ~> rest \in {"none", "other"}
=============================================================================
