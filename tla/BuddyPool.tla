------------------------------ MODULE BuddyPool ------------------------------
(***************************************************************************)
(* The Pool of operator/internal/controller/ipam/buddy/pool.go: one buddy  *)
(* tree per CIDR, tried in the order in which the CIDRs were added.  The   *)
(* planner builds a pool, uses it and drops it within one call, so its     *)
(* methods do not interleave and each is one action.                       *)
(*                                                                         *)
(* A method threads the list of allocators through its calls: an operator  *)
(* that models one returns a record [as, got, ok] with the allocators      *)
(* afterwards, the blocks it returned and whether its error was nil.       *)
(* Recursion and loops are functions of the number of steps.  The methods  *)
(* have the prefix Pool where an allocator has one of the same name.       *)
(***************************************************************************)
EXTENDS BuddyCalls, FiniteSetsExt

CONSTANT CIDRs      \* the ranges AddCIDR is called with

ASSUME CIDRsAssumption == CIDRs \subseteq Blocks

VARIABLES
  allocators,       \* sequence of [root, tree, quarantine], in AddCIDR order
  poolQuarantine    \* Pool.quarantine

poolVars == <<allocators, poolQuarantine, now>>

PoolInit ==
  /\ allocators = <<>>
  /\ poolQuarantine = 0
  /\ now = 0

PoolSetQuarantine(d) ==
  /\ poolQuarantine' = d
  /\ allocators' = [i \in DOMAIN allocators |-> [allocators[i] EXCEPT !.quarantine = d]]
  /\ UNCHANGED now

overlaps(x, y) == x \in Subtree[y] \/ y \in Subtree[x]

\* As AddCIDR, but without the overlap check.
AddCIDRUnchecked(r) ==
  /\ Len(r) <= MinLevel
  /\ allocators' = Append(allocators, [root |-> r, tree |-> NewTree(r), quarantine |-> poolQuarantine])
  /\ UNCHANGED <<poolQuarantine, now>>

\* As AddCIDR, but the new allocator does not get the quarantine.
AddCIDRUnquarantined(r) ==
  /\ Len(r) <= MinLevel
  /\ \A i \in DOMAIN allocators : ~overlaps(allocators[i].root, r)
  /\ allocators' = Append(allocators, [root |-> r, tree |-> NewTree(r), quarantine |-> 0])
  /\ UNCHANGED <<poolQuarantine, now>>

\* NewBuddyAllocator refuses a CIDR smaller than the minimum block.
AddCIDR(r) ==
  /\ Len(r) <= MinLevel
  /\ \A i \in DOMAIN allocators : ~overlaps(allocators[i].root, r)
  /\ allocators' = Append(allocators, [root |-> r, tree |-> NewTree(r), quarantine |-> poolQuarantine])
  /\ UNCHANGED <<poolQuarantine, now>>

\* A call on the allocator a begins with a sweep of its tree.
SweptTree(a) == Sweep(a.tree, now)

\* The call on allocator i, which picked c for n.
CallOn(as, i, c, n) == [as EXCEPT ![i].tree = Grant(SweptTree(as[i]), c, n)]

\* The call on each CIDR in turn until one succeeds; choices[i] is what
\* allocator i picks.  Those before it were swept, those after it are not called.
FirstOf(as, choices, n) ==
  LET able  == {i \in DOMAIN as : choices[i] # {}}
      last  == IF able = {} THEN Len(as) ELSE Min(able)
      taken == UNION {choices[i] : i \in 1..last}
  IN [as  |-> [i \in DOMAIN as |-> IF i > last THEN as[i]
                                   ELSE [as[i] EXCEPT !.tree = Grant(SweptTree(as[i]), choices[i], n)]],
      got |-> {g.take : g \in taken},
      ok  |-> able # {}]

AllocateResult(as, req, n) ==
  FirstOf(as, [i \in DOMAIN as |-> AllocateChoice(as[i].root, SweptTree(as[i]), req)], n)

\* AllocateSpread falls back to Allocate within a CIDR.
SpreadOrAllocate(r, t, req) ==
  LET spread == SpreadChoice(r, t, req)
  IN IF spread # {} THEN spread ELSE AllocateChoice(r, t, req)

SpreadResult(as, req, n) ==
  FirstOf(as, [i \in DOMAIN as |-> SpreadOrAllocate(as[i].root, SweptTree(as[i]), req)], n)

PrefixResult(as, l, n) ==
  FirstOf(as, [i \in DOMAIN as |-> PrefixChoice(as[i].root, SweptTree(as[i]), l)], n)

-----------------------------------------------------------------------------
(* Demand *)

\* The minimum blocks that hold req addresses.
Units(req) ==
  LET unit == 2^(Depth - MinLevel)
      u    == (req + unit - 1) \div unit
  IN IF u < 1 THEN 1 ELSE u

\* The largest blocks first, then the binary digits of the rest.
LargestThenDigits(req, digits) ==
  [i \in 1..(Units(req) \div 2^(MinLevel - MaxLevel)) |-> MaxLevel] \o digits

\* As SplitDemand, but a digit that was taken is not subtracted.
SplitDemandTwice(req) ==
  LET rest == Units(req) % 2^(MinLevel - MaxLevel)
      digits[k \in 0..(MinLevel - MaxLevel)] ==
        IF k = 0 THEN <<>>
        ELSE IF rest >= 2^(k - 1) THEN <<MinLevel - (k - 1)>> \o digits[k - 1]
        ELSE digits[k - 1]
  IN LargestThenDigits(req, digits[MinLevel - MaxLevel])

\* SplitDemand: as many largest blocks as fit, then the binary digits of the
\* rest from the highest down; digits[k] are those of the last k bits.
SplitDemand(req) ==
  LET rest == Units(req) % 2^(MinLevel - MaxLevel)
      digits[k \in 0..(MinLevel - MaxLevel)] ==
        IF k = 0 THEN <<>>
        ELSE IF (rest \div 2^(k - 1)) % 2 = 1 THEN <<MinLevel - (k - 1)>> \o digits[k - 1]
        ELSE digits[k - 1]
  IN LargestThenDigits(req, digits[MinLevel - MaxLevel])

\* The lists of allocators a pool can have.
Pools == Seq([root : Blocks, tree : Trees, quarantine : Nat])

\* A block of level l or two from half(as), which looks for one of level l + 1.
\* When the first half fails its blocks are not returned to the caller.
OneOrTwo(as, l, n, half) ==
  LET one    == PrefixResult(as, l, n)
      first  == half[one.as]
      second == half[first.as]
  IN IF one.ok THEN one
     ELSE IF ~first.ok THEN [first EXCEPT !.got = {}]
     ELSE [second EXCEPT !.got = @ \cup first.got]

\* As allocatePrefixOrSplit, but without the fallback to smaller blocks.
allocatePrefixOnly(as, l, n) == PrefixResult(as, l, n)

\* allocatePrefixOrSplit; atOrBelow[k] is the call for level MinLevel - k.
allocatePrefixOrSplit(as, l, n) ==
  LET atOrBelow[k \in 0..MinLevel] ==
        IF k = 0 THEN [xs \in Pools |-> PrefixResult(xs, MinLevel, n)]
        ELSE [xs \in Pools |-> OneOrTwo(xs, MinLevel - k, n, atOrBelow[k - 1])]
  IN atOrBelow[MinLevel - l][as]

Owner(as, b) == {i \in DOMAIN as : b \in Subtree[as[i].root]}

\* freeNowLocked on every block of bs.
FreeAllNow(as, bs) ==
  [i \in DOMAIN as |->
     [as[i] EXCEPT !.tree = Release(@, {b \in bs : i \in Owner(as, b)})]]

\* One round of AllocateDemand's loop: a block of level l is added to what is done,
\* or everything that was returned is freed.
DemandRound(done, l, n) ==
  LET r   == allocatePrefixOrSplit(done.as, l, n)
      got == done.got \cup r.got
  IN IF r.ok THEN [r EXCEPT !.got = got]
     ELSE [as |-> FreeAllNow(r.as, got), got |-> {}, ok |-> FALSE]

\* after[k] is the state after k rounds; an error ends the loop.
DemandResult(as, req, n) ==
  LET levels == SplitDemand(req)
      after[k \in 0..Len(levels)] ==
        IF k = 0 THEN [as |-> as, got |-> {}, ok |-> as # <<>>]
        ELSE IF after[k - 1].ok THEN DemandRound(after[k - 1], levels[k], n)
        ELSE after[k - 1]
  IN after[Len(levels)]

-----------------------------------------------------------------------------
(* The pool's methods *)

PoolAllocate(req, n) ==
  /\ allocators' = AllocateResult(allocators, req, n).as
  /\ UNCHANGED <<poolQuarantine, now>>

PoolAllocateSpread(req, n) ==
  /\ allocators' = SpreadResult(allocators, req, n).as
  /\ UNCHANGED <<poolQuarantine, now>>

\* Pool.AllocatePrefix hands its block to the empty node name.
PoolAllocatePrefix(l) ==
  /\ allocators' = PrefixResult(allocators, l, NoNode).as
  /\ UNCHANGED <<poolQuarantine, now>>

PoolAllocateDemand(req, n) ==
  /\ allocators' = DemandResult(allocators, req, n).as
  /\ UNCHANGED <<poolQuarantine, now>>

PoolAllocateFromBuddy(b, req, n) ==
  /\ \E i \in Owner(allocators, b) :
       /\ b \in Handles(allocators[i].tree)
       /\ LET a == allocators[i]
          IN allocators' = CallOn(allocators, i, FromBuddyChoice(a.root, SweptTree(a), b, req, n), n)
  /\ UNCHANGED <<poolQuarantine, now>>

PoolAllocateBuddyOf(b, n) ==
  /\ \E i \in Owner(allocators, b) :
       /\ b \in Handles(allocators[i].tree)
       /\ allocators' = CallOn(allocators, i, BuddyChoice(SweptTree(allocators[i]), b), n)
  /\ UNCHANGED <<poolQuarantine, now>>

PoolReserve(c, n) ==
  /\ \E i \in Owner(allocators, c) :
       allocators' = [allocators EXCEPT ![i].tree = Grant(@, ReserveChoice(@, c), n)]
  /\ UNCHANGED <<poolQuarantine, now>>

PoolFree(b) ==
  /\ \E i \in Owner(allocators, b) :
       /\ allocators[i].tree.state[b] = "Allocated"
       /\ allocators' = [allocators EXCEPT ![i].tree =
            IF allocators[i].quarantine > 0 THEN Hold(@, b, now + allocators[i].quarantine)
            ELSE Release(@, {b})]
  /\ UNCHANGED <<poolQuarantine, now>>

SweepAll ==
  /\ allocators' = [i \in DOMAIN allocators |-> [allocators[i] EXCEPT !.tree = Sweep(@, now)]]
  /\ UNCHANGED <<poolQuarantine, now>>

PoolDefragment ==
  /\ allocators' = [i \in DOMAIN allocators |->
                      [allocators[i] EXCEPT !.tree = MergeAll(Sweep(@, now))]]
  /\ UNCHANGED <<poolQuarantine, now>>

PoolTick ==
  /\ ClockAdvances
  /\ UNCHANGED <<allocators, poolQuarantine>>

PoolNext ==
  \/ \E r \in CIDRs : AddCIDR(r)
  \/ \E n \in Nodes, req \in Requests :
       \/ PoolAllocate(req, n)
       \/ PoolAllocateSpread(req, n)
       \/ PoolAllocateDemand(req, n)
  \/ \E l \in 0..Depth : PoolAllocatePrefix(l)
  \/ \E n \in Nodes, b \in Blocks :
       \/ \E req \in Requests : PoolAllocateFromBuddy(b, req, n)
       \/ PoolAllocateBuddyOf(b, n)
       \/ PoolReserve(b, n)
  \/ \E b \in Blocks : PoolFree(b)
  \/ SweepAll
  \/ PoolDefragment
  \/ \E d \in Quarantines : PoolSetQuarantine(d)
  \/ PoolTick

PoolSpec == PoolInit /\ [][PoolNext]_poolVars

-----------------------------------------------------------------------------
(* Properties *)

\* The minimum blocks inside the blocks of S.
UnitsIn(S) == {b \in Blocks : Len(b) = MinLevel /\ S \cap Upward[b] # {}}

\* The blocks of a list of allocators that are in state s.
InState(as, s) == UNION {{b \in Blocks : as[i].tree.state[b] = s} : i \in DOMAIN as}

\* No two blocks that the pool has handed out or holds in quarantine overlap,
\* whatever CIDRs were added and in which of them the blocks lie.
PoolDisjoint ==
  \A i, j \in DOMAIN allocators :
    \A x \in Handles(allocators[i].tree), y \in Handles(allocators[j].tree) :
      overlaps(x, y) => i = j /\ x = y

\* The answer r to a demand of req addresses is an error, or what it returned was
\* free, does not overlap and holds the demand rounded up to whole minimum blocks,
\* and nothing else changed hands.
ErrorOrExact(r, req) ==
  LET before == InState(allocators, "Allocated")
      after  == InState(r.as, "Allocated")
  IN r.ok => /\ after = before \cup r.got
             /\ before \cap r.got = {}
             /\ \A x \in r.got : Len(x) \in MaxLevel..MinLevel
             /\ \A x, y \in r.got : overlaps(x, y) => x = y
             /\ Cardinality(UnitsIn(r.got)) = Units(req)

\* AllocateDemand that succeeds returns blocks that were free, that do not
\* overlap and that together hold the demand rounded up to whole minimum blocks,
\* and nothing else changes hands, however often it had to fall back to smaller
\* blocks or to the next CIDR.
DemandExact ==
  \A req \in Requests, n \in Nodes : ErrorOrExact(DemandResult(allocators, req, n), req)

\* The minimum blocks the allocators as could still hand out after a sweep.
FreeUnits(as) ==
  UnitsIn(UNION {{b \in Blocks : SweptTree(as[i]).state[b] = "Free"} : i \in DOMAIN as})

\* AllocateDemand fails only when the pool has fewer free minimum blocks than
\* the demand needs: fragmentation alone never makes it fail.
DemandFailsOnlyWhenShort ==
  \A req \in Requests, n \in Nodes :
    DemandResult(allocators, req, n).ok <=> Cardinality(FreeUnits(allocators)) >= Units(req)

\* While a quarantine is set, no Free makes addresses allocatable again in any
\* CIDR, whether the CIDR was added before or after the quarantine was set.
QuarantineReachesEveryCIDR ==
  [][\A b \in Blocks : poolQuarantine > 0 /\ PoolFree(b) =>
       InState(allocators', "Free") = InState(allocators, "Free")]_poolVars

=============================================================================
