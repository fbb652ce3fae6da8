----------------------------- MODULE BuddyTree -----------------------------
(***************************************************************************)
(* The buddy tree of operator/internal/controller/ipam/buddy/allocator.go: *)
(* its blocks, and what each locked helper of BuddyAllocator does to it.   *)
(*                                                                         *)
(* A block is named by its path from the top of an address space that is   *)
(* large enough for every CIDR of a pool, a sequence of bits: Append(b, 0) *)
(* and Append(b, 1) are the Left and Right child of b.  The length of a    *)
(* path is its PrefixLen minus that of the top, so a longer path is a      *)
(* smaller block, and two CIDRs overlap exactly when one path is a prefix  *)
(* of the other.  An allocator's root is any block r.                      *)
(*                                                                         *)
(* The tree is a record, so that the pool can hold one per CIDR:           *)
(*   state       Block.State; "Absent" where no Block object exists        *)
(*   node        Block.NodeName                                            *)
(*   releaseAt   Block.releaseAt, 0 unless the block is Quarantined        *)
(*   freeBlocks  the blocks of all the sets of the freeBlocks map          *)
(*   quarantined the keys of the quarantined map                           *)
(***************************************************************************)
EXTENDS Integers, Sequences

CONSTANTS
  Depth,      \* the level of a single address (/32)
  MinLevel,   \* the level of minPrefixLen, the smallest block handed out
  MaxLevel,   \* the level of maxPrefixLen, the largest block handed out
  Nodes,      \* node names
  NoNode      \* the empty node name

\* What NewBuddyAllocator checks before it builds an allocator.
ASSUME LevelsAssumption ==
  /\ Depth \in Nat /\ MinLevel \in Nat /\ MaxLevel \in Nat
  /\ MaxLevel <= MinLevel
  /\ MinLevel <= Depth

ASSUME NoNodeAssumption == NoNode \notin Nodes

-----------------------------------------------------------------------------
(* Blocks and how they lie to each other *)

Bits == {0, 1}
Blocks == UNION {[1..l -> Bits] : l \in 0..Depth}
Addresses == [1..Depth -> Bits]

States == {"Absent", "Free", "Allocated", "Split", "Quarantined"}
Leaf == {"Free", "Allocated", "Quarantined"}

\* The range of y lies inside the range of x.
Covers(x, y) ==
  /\ Len(x) <= Len(y)
  /\ \A i \in 1..Len(x) : x[i] = y[i]

\* The blocks inside b and the blocks around b, b included in both.
Subtree == [b \in Blocks |-> {x \in Blocks : Covers(b, x)}]
Upward == [b \in Blocks |-> {x \in Blocks : Covers(x, b)}]

Parent(b) == [i \in 1..(Len(b) - 1) |-> b[i]]

Buddy(b) == [i \in 1..Len(b) |-> IF i = Len(b) THEN 1 - b[i] ELSE b[i]]

\* The descendant of b at level l reached by always taking the child `bit`.
Extend(b, l, bit) == [i \in 1..l |-> IF i <= Len(b) THEN b[i] ELSE bit]

\* x.base < y.base, for blocks of one level.
Lower(x, y) ==
  \E i \in 1..Len(x) :
    /\ x[i] < y[i]
    /\ \A j \in 1..(i - 1) : x[j] = y[j]

-----------------------------------------------------------------------------
(* The tree *)

Trees ==
  [state       : [Blocks -> States],
   node        : [Blocks -> Nodes \cup {NoNode}],
   releaseAt   : [Blocks -> Nat],
   freeBlocks  : SUBSET Blocks,
   quarantined : SUBSET Blocks]

NewTree(r) ==
  [state       |-> [b \in Blocks |-> IF b = r THEN "Free" ELSE "Absent"],
   node        |-> [b \in Blocks |-> NoNode],
   releaseAt   |-> [b \in Blocks |-> 0],
   freeBlocks  |-> {r},
   quarantined |-> {}]

\* The tree of an allocator with root r is a tree: every Block object lies under
\* the root, and all the blocks around it within the root are Split.
IsTree(t, r) ==
  \A y \in Blocks : t.state[y] # "Absent" =>
    /\ Covers(r, y)
    /\ \A x \in Blocks : Covers(r, x) /\ Covers(x, y) /\ x # y => t.state[x] = "Split"

\* Every address of the root lies in a leaf.
Complete(t, r) ==
  \A a \in Addresses : Covers(r, a) => \E b \in Blocks : Covers(b, a) /\ t.state[b] \in Leaf

\* A block is split only while a part of it is in use.
Merged(t) ==
  \A p \in Blocks : t.state[p] = "Split" =>
    \E x \in Blocks : Covers(p, x) /\ t.state[x] \in {"Allocated", "Quarantined"}

\* The maps list exactly the blocks that are in their state.
Indexed(t) ==
  /\ t.freeBlocks = {b \in Blocks : t.state[b] = "Free"}
  /\ t.quarantined = {b \in Blocks : t.state[b] = "Quarantined"}

WellFormed(t, r) ==
  t \in Trees /\ IsTree(t, r) /\ Complete(t, r) /\ Merged(t) /\ Indexed(t)

\* The handles a caller can hold: Allocate* return Allocated blocks and Find
\* returns Allocated or Quarantined ones.
Handles(t) == {b \in Blocks : t.state[b] \in {"Allocated", "Quarantined"}}

\* The blocks an allocator with root r may hand out; AddCIDR raises maxPrefixLen
\* to the root's own prefix.
Levels(r) == (IF MaxLevel < Len(r) THEN Len(r) ELSE MaxLevel)..MinLevel

\* prefixFor: the level of the smallest block of at least req addresses, none
\* when the request is too large.
LevelFor(r, req) ==
  {l \in Levels(r) :
     /\ 2^(Depth - l) >= req
     /\ l < MinLevel => 2^(Depth - l - 1) < req}

\* The free block that is tried first among those of level `from` or larger: the
\* smallest one, then the one with the lowest address.
FirstFit(t, from) ==
  {b \in t.freeBlocks :
     /\ Len(b) <= from
     /\ \A c \in t.freeBlocks :
          Len(c) <= from => \/ Len(c) < Len(b)
                            \/ Len(c) = Len(b) /\ ~Lower(c, b)}

\* As Take, but b stays in the index.
TakeLeavingIndexed(t, b, c, n) ==
  LET path   == (Subtree[b] \cap Upward[c]) \ {c}
      beside == {Buddy(x) : x \in Upward[c] \ Upward[b]}
  IN [t EXCEPT !.state = [x \in Blocks |-> IF x = c THEN "Allocated"
                                          ELSE IF x \in path THEN "Split"
                                          ELSE IF x \in beside THEN "Free" ELSE @[x]],
               !.node[c] = n,
               !.freeBlocks = @ \cup beside]

\* Splitting the free block b until c, a block inside it, exists, and giving c
\* to node n: the blocks from b down to c become Split, the halves that the
\* splits leave beside that path become free.
Take(t, b, c, n) ==
  LET path   == (Subtree[b] \cap Upward[c]) \ {c}
      beside == {Buddy(x) : x \in Upward[c] \ Upward[b]}
  IN [state       |-> [x \in Blocks |-> IF x = c THEN "Allocated"
                                      ELSE IF x \in path THEN "Split"
                                      ELSE IF x \in beside THEN "Free"
                                      ELSE t.state[x]],
      node        |-> [t.node EXCEPT ![c] = n],
      releaseAt   |-> t.releaseAt,
      freeBlocks  |-> (t.freeBlocks \ {b}) \cup beside,
      quarantined |-> t.quarantined]

\* As Collapse, but the children stay in the tree.
CollapseKeepingChildren(t, W) ==
  [t EXCEPT !.state = [x \in Blocks |-> IF x \in W THEN "Free" ELSE @[x]],
            !.node = [x \in Blocks |-> IF x \in W THEN NoNode ELSE @[x]],
            !.freeBlocks = @ \cup W]

\* As Collapse, but the node names stay.
CollapseKeepingNodes(t, W) ==
  LET gone == UNION {Subtree[p] \ {p} : p \in W}
  IN [t EXCEPT !.state = [x \in Blocks |-> IF x \in gone THEN "Absent"
                                          ELSE IF x \in W THEN "Free" ELSE @[x]],
               !.releaseAt = [x \in Blocks |-> IF x \in gone \cup W THEN 0 ELSE @[x]],
               !.freeBlocks = (@ \cup W) \ gone,
               !.quarantined = @ \ (gone \cup W)]

\* Every block of W becomes one free block and everything below W disappears.
Collapse(t, W) ==
  LET gone == UNION {Subtree[p] \ {p} : p \in W}
  IN [state       |-> [x \in Blocks |-> IF x \in gone THEN "Absent"
                                      ELSE IF x \in W THEN "Free"
                                      ELSE t.state[x]],
      node        |-> [x \in Blocks |-> IF x \in gone \cup W THEN NoNode ELSE t.node[x]],
      releaseAt   |-> [x \in Blocks |-> IF x \in gone \cup W THEN 0 ELSE t.releaseAt[x]],
      freeBlocks  |-> (t.freeBlocks \cup W) \ gone,
      quarantined |-> t.quarantined \ (gone \cup W)]

\* The block p holds nothing but free leaves once the blocks of D are free.
WhollyFree(t, D, p) ==
  /\ t.state[p] # "Absent"
  /\ \A x \in Subtree[p] : x \in D \/ t.state[x] \in {"Absent", "Split", "Free"}

\* As Release, but without merging.
ReleaseUnmerged(t, D) == Collapse(t, D)

\* releaseLocked on every block of D.  Climbing while the buddy is free merges
\* exactly the blocks whose last used part has just been released.
Release(t, D) ==
  Collapse(t, {p \in UNION {Upward[d] : d \in D} : WhollyFree(t, D, p)})

\* As Due, but the release time is not looked at.
DueAtOnce(t, now) == t.quarantined

\* The quarantined blocks whose time is over.
Due(t, now) == {b \in t.quarantined : t.releaseAt[b] <= now}

Sweep(t, now) ==
  IF Due(t, now) = {} THEN t ELSE Release(t, Due(t, now))

\* Free with a quarantine configured: the block is held back, not released.
Hold(t, b, until) ==
  [t EXCEPT !.state[b] = "Quarantined",
            !.node[b] = NoNode,
            !.releaseAt[b] = until,
            !.quarantined = @ \cup {b}]

\* Everything under b is allocated to n.
OwnedBy(t, b, n) ==
  /\ t.state[b] # "Absent"
  /\ \A x \in Subtree[b] : \/ t.state[x] \in {"Absent", "Split"}
                           \/ t.state[x] = "Allocated" /\ t.node[x] = n

\* The largest range around b that n owns completely, b itself taken as given.
Anchor(t, b, n) ==
  LET reached == {a \in Upward[b] :
                    \A x \in Upward[b] \ Upward[a] : OwnedBy(t, Buddy(x), n)}
  IN {a \in reached : \A p \in reached : Len(a) <= Len(p)}

\* The block exists, and so does its buddy, and the buddy is free.  (After a
\* sweep that merged b away, b.Buddy() is nil.)
BuddyFree(t, b) ==
  /\ Len(b) > 0
  /\ t.state[b] # "Absent"
  /\ t.state[Buddy(b)] = "Free"

\* Defragment's walk: every subtree that holds only free leaves is merged.
MergeAll(t) == Collapse(t, {p \in Blocks : WhollyFree(t, {}, p)})

-----------------------------------------------------------------------------
(* What each allocating method picks: a free block and the part of it to     *)
(* take.  Each set below has at most one element; an empty one is an error.  *)

\* allocatePrefixLocked: the first fit, split down its left edge to level l.
Fit(t, l, from) ==
  {[from |-> b, take |-> Extend(b, l, 0)] : b \in FirstFit(t, from)}

AllocateChoice(r, t, req) == UNION {Fit(t, l, l) : l \in LevelFor(r, req)}

\* AllocateSpread tries only blocks larger than the request.
SpreadChoice(r, t, req) == UNION {Fit(t, l, l - 1) : l \in LevelFor(r, req)}

PrefixChoice(r, t, l) == IF l \in Levels(r) THEN Fit(t, l, l) ELSE {}

BuddyChoice(t, b) ==
  IF BuddyFree(t, b) THEN {[from |-> Buddy(b), take |-> Buddy(b)]} ELSE {}

\* As FromBuddyChoice, but the piece at the far end of the buddy.
FromFarEnd(r, t, b, req, n) ==
  {[from |-> Buddy(a),
    take |-> IF Len(a) < l THEN Extend(Buddy(a), l, 1 - a[Len(a)]) ELSE Buddy(a)] :
     a \in {x \in Anchor(t, b, n) : BuddyFree(t, x)}, l \in LevelFor(r, req)}

\* The free buddy of n's range around b, whole when it is no larger than the
\* request and otherwise the piece of it that is nearest to the range.
FromBuddyChoice(r, t, b, req, n) ==
  {[from |-> Buddy(a),
    take |-> IF Len(a) < l THEN Extend(Buddy(a), l, a[Len(a)]) ELSE Buddy(a)] :
     a \in {x \in Anchor(t, b, n) : BuddyFree(t, x)}, l \in LevelFor(r, req)}

ReserveChoice(t, c) ==
  {[from |-> b, take |-> c] : b \in {x \in Upward[c] : t.state[x] = "Free"}}

\* The call hands its choice to n, or returns an error and changes nothing.
Grant(t, choice, n) ==
  IF choice = {} THEN t
  ELSE LET g == CHOOSE g \in choice : TRUE IN Take(t, g.from, g.take, n)
=============================================================================
