--------------------------- MODULE BlockSplitProofs ---------------------------
(* Theorems about BlockSplit, for every set of sandboxes and every number of   *)
(* failures and stops.                                                         *)
EXTENDS BlockSplit, TLAPS

-----------------------------------------------------------------------------
(* The invariant *)

\* A pass that has written the config has written what it read.
WrittenInv == pass.pc = "written" => conf = (pass.cidr = "whole" /\ ~pass.release)

\* The half is out of the config while a mark of the request stands, and when it
\* has run out, no sandbox is left that read an older config.
MarkInv ==
  /\ mark # "none" /\ "mark" \notin stale => ~conf
  /\ mark = "settled" /\ "mark" \notin stale => \A s \in Sandboxes : sandbox[s] # "reading"

\* What the agent reports ready from such a mark is unused.
PassInv ==
  pass.ready =>
    /\ pass.release /\ pass.pc = "counted"
    /\ "pass" \notin stale => Unused

\* What is reported ready for the request in force is unused, and no pass is under
\* way that has read something else.
ReadyInv ==
  block.cidr = "whole" /\ block.ready /\ "report" \notin stale =>
    Unused /\ block.release /\ (pass.pc # "idle" => pass.release)

\* After such a split no pass puts the half back into the config.
SplitInv ==
  block.cidr = "kept" /\ "split" \notin stale =>
    Unused /\ (pass.pc # "idle" => pass.cidr = "kept" \/ pass.release)

ControllerInv ==
  /\ block.cidr = "kept" => ~block.release
  /\ ctl = "release" => block.cidr = "whole"
  /\ ctl \in {"narrowed", "cleared", "created"} => block.cidr = "kept"
  /\ rest # "none" => block.cidr = "kept"
  /\ block.cidr = "whole" => "split" \notin stale /\ pass.cidr = "whole"

HalfInv ==
  /\ TypeOK
  /\ WrittenInv /\ MarkInv /\ PassInv /\ ReadyInv /\ SplitInv /\ ControllerInv

-----------------------------------------------------------------------------
(* It holds at first, and every step keeps it *)

LEMMA HalfInvInit == Init => HalfInv
BY SplitAssumption
   DEF Init, HalfInv, TypeOK, WrittenInv, MarkInv, PassInv, ReadyInv, SplitInv,
       ControllerInv, NodeBlocks, Rests, Passes, IdlePass, Steps, Unused

LEMMA TypeStep == TypeOK /\ [Next]_vars => TypeOK'
<1> SUFFICES ASSUME TypeOK, [Next]_vars PROVE TypeOK'
  OBVIOUS
<1> USE DEF TypeOK, NodeBlocks, Rests, Passes, Steps, IdlePass, Kinds, Judge
<1>1. CASE Decide
  BY <1>1 DEF Decide, Decisions
<1>2. CASE Controller
  <2>1. CASE ReleaseHalf \/ KeepHalf
    BY <2>1 DEF ReleaseHalf, KeepHalf, SetRelease
  <2>2. CASE Narrow
    <3>1. block' = block \/ block' = [block EXCEPT !.cidr = "kept", !.release = FALSE]
      BY <2>2 DEF Narrow
    <3>2. block' \in NodeBlocks
      BY <3>1
    <3> QED BY <2>2, <3>2 DEF Narrow
  <2>3. CASE ClearHalfStatus \/ CreateRest \/ QuarantineRest
    BY <2>3 DEF ClearHalfStatus, CreateRest, QuarantineRest
  <2> QED BY <1>2, <2>1, <2>2, <2>3 DEF Controller
<1>3. CASE ControllerStops
  <2>1. left' \in [failures : 0..Failures, crashes : 0..Crashes]
    BY <1>3, SplitAssumption DEF ControllerStops
  <2> QED BY <1>3, <2>1 DEF ControllerStops
<1>4. CASE DeleteRest \/ GiveHalf
  BY <1>4 DEF DeleteRest, GiveHalf
<1>5. CASE AgentList \/ WriteConfig
  <2>1. CASE AgentList
    <3>1. pass' = [pc |-> "listed", cidr |-> block.cidr, release |-> block.release,
                   rest |-> (rest = "pending"), used |-> FALSE, ready |-> FALSE]
      BY <2>1 DEF AgentList
    <3>2. pass' \in Passes
      BY <3>1
    <3> QED BY <2>1, <3>2 DEF AgentList
  <2>2. CASE WriteConfig
    BY <2>2 DEF WriteConfig
  <2> QED BY <1>5, <2>1, <2>2
<1>6. CASE CountLeases
  <2>1. Leased \in BOOLEAN /\ ReportsReady \in BOOLEAN
    BY DEF Leased, ReportsReady
  <2>2. pass' = [pass EXCEPT !.pc = "counted", !.used = Leased, !.ready = ReportsReady]
    BY <1>6 DEF CountLeases
  <2>3. pass' \in Passes
    BY <2>1, <2>2
  <2>4. mark' \in {"none", "running", "settled"}
    BY <1>6 DEF CountLeases, Marked
  <2> QED BY <1>6, <2>3, <2>4 DEF CountLeases
<1>7. CASE ReportStatus \/ ReportRestSettled
  <2>1. HalfStatus \in NodeBlocks
    BY DEF HalfStatus
  <2>2. block' \in NodeBlocks
    BY <1>7, <2>1 DEF ReportStatus, ReportRestSettled, Report
  <2>3. rest' \in Rests
    BY <1>7 DEF ReportStatus, ReportRestSettled
  <2>4. pass' = IdlePass /\ UNCHANGED <<conf, sandbox, ctl, mark, left>> /\ stale' \subseteq Kinds
    BY <1>7 DEF ReportStatus, ReportRestSettled, Report
  <2>5. pass' \in Passes
    BY <2>4
  <2> QED BY <2>2, <2>3, <2>4, <2>5
<1>8. CASE PassFails \/ AgentStops \/ SettleTimePasses
  <2>1. left' \in [failures : 0..Failures, crashes : 0..Crashes]
    BY <1>8, SplitAssumption DEF PassFails, AgentStops, SettleTimePasses
  <2>2. pass' = IdlePass \/ pass' = pass
    BY <1>8 DEF PassFails, AgentStops, SettleTimePasses
  <2>3. pass' \in Passes
    <3>1. IdlePass \in Passes /\ pass \in Passes
      OBVIOUS
    <3> QED BY <2>2, <3>1
  <2>4. /\ mark' \in {"none", "running", "settled"}
        /\ UNCHANGED <<block, rest, conf, sandbox, ctl>> /\ stale' \subseteq stale
    BY <1>8 DEF PassFails, AgentStops, SettleTimePasses
  <2> QED BY <2>1, <2>3, <2>4
<1>9. CASE \E s \in Sandboxes : ReadConfig(s) \/ TakeLease(s) \/ GiveUp(s) \/ PodEnds(s)
  BY <1>9 DEF ReadConfig, TakeLease, GiveUp, PodEnds, Sandbox
<1>10. CASE UNCHANGED vars
  BY <1>10 DEF vars
<1> QED BY <1>1, <1>2, <1>3, <1>4, <1>5, <1>6, <1>7, <1>8, <1>9, <1>10 DEF Next, Agent

LEMMA HalfInvStep ==
  ASSUME HalfInv, [Next]_vars
  PROVE  HalfInv'
<1>0. TypeOK'
  BY TypeStep DEF HalfInv
<1> SUFFICES (WrittenInv /\ MarkInv /\ PassInv /\ ReadyInv /\ SplitInv /\ ControllerInv)'
  BY <1>0 DEF HalfInv
<1> USE DEF HalfInv, WrittenInv, MarkInv, PassInv, ReadyInv, SplitInv, ControllerInv,
            Unused, Judge, TypeOK, NodeBlocks, Passes, IdlePass
<1>1. CASE Decide
  BY <1>1 DEF Decide, Decisions, ToSplit
<1>2. CASE ReleaseHalf \/ KeepHalf
  BY <1>2 DEF ReleaseHalf, KeepHalf, SetRelease
<1>3. CASE Narrow
  <2>1. CASE ~ToSplit
    BY <1>3, <2>1 DEF Narrow
  <2>2. CASE ToSplit
    <3>1. /\ block.release /\ block.ready
          /\ ctl' = "narrowed"
          /\ block' = [block EXCEPT !.cidr = "kept", !.release = FALSE]
          /\ UNCHANGED <<rest, conf, sandbox, pass, mark, left>>
          /\ "split" \in stale' <=> "report" \in stale
          /\ \A k \in {"mark", "pass", "report"} : k \in stale' <=> k \in stale
      BY <1>3, <2>2 DEF Narrow, ToSplit
    <3>2. block'.cidr = "kept" /\ ~block'.release
      BY <3>1
    <3> QED BY <3>1, <3>2
  <2> QED BY <2>1, <2>2
<1>4. CASE ClearHalfStatus \/ CreateRest \/ QuarantineRest
  <2>1. /\ block'.cidr = block.cidr /\ block'.release = block.release
        /\ block'.ready => block.ready /\ stale' = stale
        /\ stale' \ {"report"} = stale \ {"report"}
    BY <1>4 DEF ClearHalfStatus, CreateRest, QuarantineRest
  <2> QED BY <1>4, <2>1 DEF ClearHalfStatus, CreateRest, QuarantineRest
<1>5. CASE ControllerStops \/ DeleteRest \/ GiveHalf
  BY <1>5 DEF ControllerStops, DeleteRest, GiveHalf
<1>6. CASE AgentList
  BY <1>6 DEF AgentList
<1>7. CASE WriteConfig
  BY <1>7 DEF WriteConfig
<1>8. CASE CountLeases
  BY <1>8 DEF CountLeases, Marked, ReportsReady, Leased
<1>9. CASE ReportStatus \/ ReportRestSettled
  <2>1. /\ block' = HalfStatus /\ pass.pc = "counted"
        /\ pass'.pc = "idle" /\ ~pass'.ready /\ pass'.cidr = "whole"
    BY <1>9 DEF ReportStatus, ReportRestSettled, Report
  <2>2. block'.cidr = block.cidr /\ block'.release = block.release
    BY <2>1 DEF HalfStatus
  <2>3. block'.ready => \/ block.cidr # pass.cidr /\ block.ready
                        \/ pass.ready /\ block.release
    BY <2>1 DEF HalfStatus
  <2>4. UNCHANGED <<conf, sandbox, ctl, mark>>
    BY <1>9 DEF ReportStatus, ReportRestSettled, Report
  <2>5. rest' # "none" => rest # "none"
    BY <1>9 DEF ReportStatus, ReportRestSettled, RestSettles
  <2>6. /\ "mark" \in stale' <=> "mark" \in stale
        /\ "split" \in stale' <=> "split" \in stale
        /\ block.cidr = pass.cidr /\ "report" \notin stale' /\ block'.ready => "pass" \notin stale
    BY <1>9 DEF ReportStatus, ReportRestSettled, Report
  <2>7. block.cidr = "whole" => block.cidr = pass.cidr
    OBVIOUS
  <2>8. ReadyInv' /\ SplitInv'
    BY <2>1, <2>2, <2>3, <2>4, <2>6, <2>7
  <2>9. (WrittenInv /\ MarkInv /\ PassInv /\ ControllerInv)'
    BY <2>1, <2>2, <2>4, <2>5, <2>6
  <2> QED BY <2>8, <2>9
<1>10. CASE PassFails
  BY <1>10 DEF PassFails
<1>11. CASE AgentStops \/ SettleTimePasses
  BY <1>11 DEF AgentStops, SettleTimePasses
<1>12. CASE \E s \in Sandboxes : ReadConfig(s) \/ TakeLease(s) \/ GiveUp(s) \/ PodEnds(s)
  BY <1>12 DEF ReadConfig, TakeLease, GiveUp, PodEnds, Sandbox
<1>13. CASE UNCHANGED vars
  BY <1>13 DEF vars
<1> QED
  BY <1>1, <1>2, <1>3, <1>4, <1>5, <1>6, <1>7, <1>8, <1>9, <1>10, <1>11, <1>12, <1>13
     DEF Next, Controller, Agent

-----------------------------------------------------------------------------

\* Every variable keeps its type.
THEOREM SplitTypes == Spec => []TypeOK
<1>1. Init => TypeOK
  BY HalfInvInit DEF HalfInv
<1> QED BY <1>1, TypeStep, PTL DEF Spec

\* Wherever the controller or the agent stops and whatever a pass reports late,
\* splitBlock gives away a half that nothing uses, unless what it took for the
\* owner's report goes back to a request that had been withdrawn.
THEOREM SplitIsSafe == Spec => []OnlyStaleReportsMislead
<1>1. HalfInv /\ [Next]_vars => HalfInv'
  BY HalfInvStep
<1>2. HalfInv => OnlyStaleReportsMislead
  BY DEF HalfInv, TypeOK, NodeBlocks, SplitInv, ControllerInv, OnlyStaleReportsMislead
<1> QED BY HalfInvInit, <1>1, <1>2, PTL DEF Spec
===============================================================================
