--------------------------- MODULE BuddyAllocator ---------------------------
(***************************************************************************)
(* One BuddyAllocator (operator/internal/controller/ipam/buddy/            *)
(* allocator.go).  Every exported method holds the allocator's mutex from  *)
(* its first statement to its return, so each is one action.  A method     *)
(* that returns an error after it has swept still leaves the swept tree.   *)
(***************************************************************************)
EXTENDS BuddyCalls

CONSTANT Root   \* the CIDR the allocator manages

\* What NewBuddyAllocator checks of the root.
ASSUME RootAssumption == Root \in Blocks /\ Len(Root) <= MaxLevel

VARIABLES
  tree,         \* root, freeBlocks and quarantined
  quarantine    \* the quarantine field

vars == <<tree, quarantine, now>>

Init ==
  /\ tree = NewTree(Root)
  /\ quarantine = 0
  /\ now = 0

Swept == Sweep(tree, now)

\* An allocating call sweeps, then takes its choice or returns an error.
Allocate(req, n) ==
  /\ tree' = Grant(Swept, AllocateChoice(Root, Swept, req), n)
  /\ UNCHANGED <<quarantine, now>>

AllocateSpread(req, n) ==
  /\ tree' = Grant(Swept, SpreadChoice(Root, Swept, req), n)
  /\ UNCHANGED <<quarantine, now>>

AllocatePrefix(l, n) ==
  /\ tree' = Grant(Swept, PrefixChoice(Root, Swept, l), n)
  /\ UNCHANGED <<quarantine, now>>

AllocateBuddyOf(b, n) ==
  /\ b \in Handles(tree)
  /\ tree' = Grant(Swept, BuddyChoice(Swept, b), n)
  /\ UNCHANGED <<quarantine, now>>

AllocateFromBuddy(b, req, n) ==
  /\ b \in Handles(tree)
  /\ tree' = Grant(Swept, FromBuddyChoice(Root, Swept, b, req, n), n)
  /\ UNCHANGED <<quarantine, now>>

\* Reserve does not sweep: it takes c only out of a block that is free now.
Reserve(c, n) ==
  /\ tree' = Grant(tree, ReserveChoice(tree, c), n)
  /\ UNCHANGED <<quarantine, now>>

Free(b) ==
  /\ tree.state[b] = "Allocated"
  /\ tree' = IF quarantine > 0 THEN Hold(tree, b, now + quarantine)
             ELSE Release(tree, {b})
  /\ UNCHANGED <<quarantine, now>>

FreeNow(b) ==
  /\ tree.state[b] = "Allocated"
  /\ tree' = Release(tree, {b})
  /\ UNCHANGED <<quarantine, now>>

SweepNow ==
  /\ tree' = Swept
  /\ UNCHANGED <<quarantine, now>>

Defragment ==
  /\ tree' = MergeAll(Swept)
  /\ UNCHANGED <<quarantine, now>>

SetQuarantine(d) ==
  /\ quarantine' = d
  /\ UNCHANGED <<tree, now>>

\* Time passes.
Tick ==
  /\ ClockAdvances
  /\ UNCHANGED <<tree, quarantine>>

Next ==
  \/ \E n \in Nodes, req \in Requests :
       \/ Allocate(req, n)
       \/ AllocateSpread(req, n)
  \/ \E n \in Nodes, l \in 0..Depth : AllocatePrefix(l, n)
  \/ \E n \in Nodes, b \in Blocks :
       \/ AllocateBuddyOf(b, n)
       \/ \E req \in Requests : AllocateFromBuddy(b, req, n)
       \/ Reserve(b, n)
  \/ \E b \in Blocks : Free(b) \/ FreeNow(b)
  \/ SweepNow
  \/ Defragment
  \/ \E d \in Quarantines : SetQuarantine(d)
  \/ Tick

Spec == Init /\ [][Next]_vars

-----------------------------------------------------------------------------
(* Properties *)

\* Every field keeps its type.
TypeOK ==
  /\ tree \in Trees
  /\ quarantine \in Nat
  /\ now \in Nat

\* However blocks are split, merged, held and released, every address of the
\* CIDR lies in exactly one leaf of the tree: no address is lost and no two
\* blocks that are handed out overlap.
Partition ==
  \A a \in Addresses \cap Subtree[Root] :
    \E b \in Upward[a] :
      /\ tree.state[b] \in Leaf
      /\ \A c \in Upward[a] : tree.state[c] \in Leaf => c = b

\* The freeBlocks map, which allocation reads, and the quarantined map, which
\* the sweep reads, list exactly the blocks that are in that state.
IndexesAgree == Indexed(tree)

\* Eager merging: a block that is handed out nowhere lies in one free block of
\* the index, so "no space" is only returned when there is none, and Defragment
\* never finds a pair that was left unmerged.
NoHiddenSpace ==
  \A b \in Subtree[Root] :
    (\A x \in Subtree[b] \cup Upward[b] : tree.state[x] \in Leaf => tree.state[x] = "Free")
      => tree.freeBlocks \cap Upward[b] # {}

\* AllocateSpread would leave the buddy of the block it returns free, so that
\* the node can double in place.
SpreadLeavesBuddyFree ==
  \A req \in Requests : \A s \in SpreadChoice(Root, Swept, req) :
    \A n \in Nodes :
      LET after == Take(Swept, s.from, s.take, n)
      IN after.state[Buddy(s.take)] = "Free" /\ Buddy(s.take) \in after.freeBlocks

\* a lies strictly between the ranges of x and y.
Between(x, a, y) ==
  /\ ~Covers(x, a) /\ ~Covers(y, a)
  /\ \/ Lower(Extend(x, Depth, 0), a) /\ Lower(a, Extend(y, Depth, 0))
     \/ Lower(Extend(y, Depth, 0), a) /\ Lower(a, Extend(x, Depth, 0))

\* AllocateFromBuddy grows the range a node already has, for which AllocateSpread
\* left the room: everything between the node's block and the block it would be
\* given belongs to the node already.
GrowsInPlace ==
  /\ SpreadLeavesBuddyFree
  /\ \A b \in Blocks : tree.state[b] = "Allocated" =>
    \A req \in Requests :
      \A g \in FromBuddyChoice(Root, Swept, b, req, tree.node[b]) :
        \A a \in Addresses : Between(b, a, g.take) =>
          \E x \in Upward[a] : /\ tree.state[x] = "Allocated"
                               /\ tree.node[x] = tree.node[b]

-----------------------------------------------------------------------------
(* The allocator as an address space *)

LeafOf(a) == CHOOSE b \in Upward[a] : tree.state[b] \in Leaf

AddrHolder ==
  [a \in Addresses \cap Subtree[Root] |->
     IF tree.state[LeafOf(a)] = "Allocated" THEN tree.node[LeafOf(a)]
     ELSE tree.state[LeafOf(a)]]

AddrUntil ==
  [a \in Addresses \cap Subtree[Root] |-> tree.releaseAt[LeafOf(a)]]

Abstract == INSTANCE AddressSpace
              WITH Addrs <- Addresses \cap Subtree[Root], Owners <- Nodes,
                   Unused <- "Free", Withheld <- "Quarantined",
                   holder <- AddrHolder, until <- AddrUntil, clock <- now

\* Address by address the allocator does what an address space promises: no
\* address changes hands without being freed, none leaves its quarantine early,
\* and no call touches the addresses of a node it was not asked about.
ImplementsAddressSpace == Abstract!ASSpec
=============================================================================
