------------------------------ MODULE BuddyCalls ------------------------------
(***************************************************************************)
(* What the callers of an allocator and those of a pool have in common:    *)
(* the numbers of addresses and the quarantines they pass, and the clock   *)
(* function (SetClock) that an allocator and its pool read.                *)
(***************************************************************************)
EXTENDS BuddyTree

CONSTANTS
  Requests,     \* the numbers of addresses callers ask for
  Quarantines,  \* the durations SetQuarantine is called with
  MaxNow        \* bound on the clock

ASSUME RequestsAssumption == Requests \subseteq Nat
ASSUME TimeAssumption == Quarantines \subseteq Nat /\ MaxNow \in Nat

VARIABLE now    \* what the clock function returns

ClockAdvances ==
  /\ now < MaxNow
  /\ now' = now + 1
=============================================================================
