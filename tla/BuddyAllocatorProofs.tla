------------------------ MODULE BuddyAllocatorProofs ------------------------
(***************************************************************************)
(* What the operators of BuddyTree return and preserve; from that the      *)
(* safety of BuddyAllocator for every depth, root, set of nodes and set of *)
(* requests, and that it implements an address space.  The inductive       *)
(* invariant is that the tree is well formed.  The refinement reads the    *)
(* tree address by address, which a well-formed tree allows.               *)
(***************************************************************************)
EXTENDS BuddyAllocator, WellFoundedInduction, SequenceTheorems, TLAPS

\* A non-empty set of natural numbers has a least element.
LEMMA LeastNatural ==
  ASSUME NEW T \in SUBSET Nat, T # {}
  PROVE  \E m \in T : \A k \in T : m <= k
<1> DEFINE R == {ss \in Nat \X Nat : ss[1] < ss[2]}
<1>1. R = OpToRel(<, Nat)
  BY Zenon DEF OpToRel
<1>2. IsWellFoundedOn(R, Nat)
  BY <1>1, NatLessThanWellFounded
<1> HIDE DEF R
<1>3. PICK m \in T : \A k \in T : ~(<<k, m>> \in R)
  BY <1>2, WFMin
<1>4. ASSUME NEW k \in T, k < m PROVE FALSE
  <2>1. k \in Nat /\ m \in Nat
    OBVIOUS
  <2>2. <<k, m>> \in R
    BY <1>4, <2>1 DEF R
  <2> QED BY <1>3, <2>2
<1> QED BY <1>4

-----------------------------------------------------------------------------
(* Blocks *)

\* A block is a sequence of at most Depth bits.
LEMMA BlockIsSeq ==
  ASSUME NEW x \in Blocks
  PROVE  /\ Len(x) \in 0..Depth
         /\ x \in [1..Len(x) -> Bits]
<1>1. PICK l \in 0..Depth : x \in [1..l -> Bits]
  BY DEF Blocks
<1>2. l \in Nat
  BY LevelsAssumption
<1>3. x \in Seq(Bits) /\ Len(x) = l
  BY <1>1, <1>2
<1> QED BY <1>1, <1>3

\* A function from 1..l to bits is a block of level l.
LEMMA SeqIsBlock ==
  ASSUME NEW l \in 0..Depth, NEW x \in [1..l -> Bits]
  PROVE  x \in Blocks /\ Len(x) = l
<1>1. l \in Nat
  BY LevelsAssumption
<1>2. Len(x) = l
  BY <1>1
<1> QED BY <1>2 DEF Blocks

\* An address is a block of the last level.
LEMMA AddressIsBlock ==
  ASSUME NEW a \in Addresses
  PROVE  a \in Blocks /\ Len(a) = Depth
BY SeqIsBlock, LevelsAssumption DEF Addresses

\* Blocks of one level with the same bits are the same block.
LEMMA BlockEqual ==
  ASSUME NEW x \in Blocks, NEW y \in Blocks, Len(x) = Len(y),
         \A i \in 1..Len(x) : x[i] = y[i]
  PROVE  x = y
BY BlockIsSeq

\* Among some blocks one has the shortest path.
LEMMA Outermost ==
  ASSUME NEW V \in SUBSET Blocks, V # {}
  PROVE  \E p \in V : \A q \in V : Len(p) <= Len(q)
<1> DEFINE T == {l \in Nat : \E q \in V : Len(q) = l}
<1>1. \A q \in V : Len(q) \in T
  BY BlockIsSeq, LevelsAssumption
<1>2. T \in SUBSET Nat /\ T # {}
  BY <1>1
<1>3. PICK m \in T : \A k \in T : m <= k
  BY <1>2, LeastNatural
<1> QED BY <1>1, <1>3

\* A block lies inside itself.
LEMMA CoversReflexive ==
  ASSUME NEW x \in Blocks
  PROVE  Covers(x, x)
BY BlockIsSeq DEF Covers

\* A part of a part is a part.
LEMMA CoversTransitive ==
  ASSUME NEW x \in Blocks, NEW y \in Blocks, NEW z \in Blocks,
         Covers(x, y), Covers(y, z)
  PROVE  Covers(x, z)
BY BlockIsSeq, LevelsAssumption DEF Covers

\* A proper part has the longer path.
LEMMA CoversStrictly ==
  ASSUME NEW x \in Blocks, NEW y \in Blocks, Covers(x, y), x # y
  PROVE  Len(x) < Len(y) /\ ~Covers(y, x)
BY BlockIsSeq, BlockEqual, LevelsAssumption DEF Covers

\* The blocks around one block lie inside one another, the shorter path outside.
LEMMA CoversComparable ==
  ASSUME NEW x \in Blocks, NEW y \in Blocks, NEW z \in Blocks,
         Covers(x, z), Covers(y, z)
  PROVE  IF Len(x) <= Len(y) THEN Covers(x, y) ELSE Covers(y, x)
BY BlockIsSeq, LevelsAssumption DEF Covers

\* The two tables are Covers read in each direction.
LEMMA TablesAreCovers ==
  ASSUME NEW x \in Blocks, NEW y \in Blocks
  PROVE  /\ y \in Subtree[x] <=> Covers(x, y)
         /\ x \in Upward[y] <=> Covers(x, y)
         /\ Subtree[x] \subseteq Blocks
         /\ Upward[x] \subseteq Blocks
BY DEF Subtree, Upward

\* The buddy has the same level and differs in its last bit only.
LEMMA BuddyIsBlock ==
  ASSUME NEW x \in Blocks
  PROVE  /\ Buddy(x) \in Blocks
         /\ Len(Buddy(x)) = Len(x)
         /\ \A i \in 1..Len(x) : Buddy(x)[i] = IF i = Len(x) THEN 1 - x[i] ELSE x[i]
<1>1. Len(x) \in 0..Depth /\ x \in [1..Len(x) -> Bits]
  BY BlockIsSeq
<1>2. Buddy(x) \in [1..Len(x) -> Bits]
  BY <1>1 DEF Buddy, Bits
<1>3. Buddy(x) \in Blocks /\ Len(Buddy(x)) = Len(x)
  BY <1>1, <1>2, SeqIsBlock
<1>4. \A i \in 1..Len(x) : Buddy(x)[i] = IF i = Len(x) THEN 1 - x[i] ELSE x[i]
  BY DEF Buddy
<1> QED BY <1>3, <1>4

\* A block below b is made by filling up its path.
LEMMA ExtendIsBlock ==
  ASSUME NEW b \in Blocks, NEW l \in 0..Depth, Len(b) <= l, NEW bit \in Bits
  PROVE  /\ Extend(b, l, bit) \in Blocks
         /\ Len(Extend(b, l, bit)) = l
         /\ Covers(b, Extend(b, l, bit))
<1>1. Len(b) \in 0..Depth /\ b \in [1..Len(b) -> Bits]
  BY BlockIsSeq
<1>2. Extend(b, l, bit) \in [1..l -> Bits]
  BY <1>1, LevelsAssumption DEF Extend
<1>3. Extend(b, l, bit) \in Blocks /\ Len(Extend(b, l, bit)) = l
  BY <1>2, SeqIsBlock
<1>4. \A i \in 1..Len(b) : Extend(b, l, bit)[i] = b[i]
  BY <1>1, LevelsAssumption DEF Extend
<1> QED BY <1>3, <1>4 DEF Covers

\* A block and its buddy lie nowhere inside each other.
LEMMA BuddyIsApart ==
  ASSUME NEW x \in Blocks, NEW c \in Blocks, Len(x) > 0, Covers(x, c)
  PROVE  ~Covers(Buddy(x), c)
<1>1. Len(x) \in 1..Depth /\ x[Len(x)] \in Bits
  BY BlockIsSeq, LevelsAssumption
<1>2. Buddy(x)[Len(x)] # x[Len(x)]
  BY <1>1, BuddyIsBlock DEF Bits
<1>3. Len(Buddy(x)) = Len(x)
  BY BuddyIsBlock
<1> QED BY <1>1, <1>2, <1>3 DEF Covers

\* What lies strictly around the buddy of x lies strictly around x.
LEMMA AroundBuddy ==
  ASSUME NEW x \in Blocks, NEW y \in Blocks, Covers(y, Buddy(x)), y # Buddy(x)
  PROVE  Covers(y, x) /\ Len(y) < Len(x)
<1>1. Len(x) \in Nat /\ Len(y) \in Nat
  BY BlockIsSeq, LevelsAssumption
<1>2. Len(y) < Len(x)
  BY BuddyIsBlock, CoversStrictly
<1>3. \A i \in 1..Len(y) : y[i] = x[i]
  BY <1>1, <1>2, BuddyIsBlock DEF Covers
<1> QED BY <1>1, <1>2, <1>3 DEF Covers

-----------------------------------------------------------------------------
(* The tree: new, collapsed, held *)

\* A new allocator's tree is well formed.
LEMMA NewTreeWellFormed ==
  ASSUME NEW r \in Blocks
  PROVE  WellFormed(NewTree(r), r)
<1> DEFINE t == NewTree(r)
<1>1. t \in Trees
  BY DEF NewTree, Trees, States
<1>2. \A x \in Blocks : t.state[x] = IF x = r THEN "Free" ELSE "Absent"
  BY DEF NewTree
<1>3. IsTree(t, r)
  <2>1. ASSUME NEW x \in Blocks, Covers(r, x), Covers(x, r), x # r PROVE FALSE
    BY <2>1, CoversStrictly
  <2> QED BY <1>2, <2>1, CoversReflexive DEF IsTree
<1>4. Complete(t, r)
  BY <1>2 DEF Complete, Leaf
<1>5. Merged(t)
  BY <1>2 DEF Merged
<1>6. Indexed(t)
  BY <1>2 DEF Indexed, NewTree
<1> QED BY <1>1, <1>3, <1>4, <1>5, <1>6 DEF WellFormed

\* x lies strictly inside a block of W.
Inside(x, W) == \E p \in W : Covers(p, x) /\ p # x

\* Collapse, field by field.
LEMMA CollapseFields ==
  ASSUME NEW t \in Trees, NEW W \in SUBSET Blocks
  PROVE  /\ Collapse(t, W) \in Trees
         /\ \A x \in Blocks : Collapse(t, W).state[x] =
              IF Inside(x, W) THEN "Absent" ELSE IF x \in W THEN "Free" ELSE t.state[x]
         /\ \A x \in Blocks : x \in Collapse(t, W).freeBlocks <=>
              (x \in t.freeBlocks \/ x \in W) /\ ~Inside(x, W)
         /\ \A x \in Blocks : x \in Collapse(t, W).quarantined <=>
              x \in t.quarantined /\ x \notin W /\ ~Inside(x, W)
<1> DEFINE gone == UNION {Subtree[p] \ {p} : p \in W}
<1>1. \A x \in Blocks : x \in gone <=> Inside(x, W)
  BY TablesAreCovers DEF Inside
<1>2. gone \subseteq Blocks
  BY TablesAreCovers
<1> HIDE DEF gone
<1>3. Collapse(t, W) =
        [state       |-> [x \in Blocks |-> IF x \in gone THEN "Absent"
                                        ELSE IF x \in W THEN "Free"
                                        ELSE t.state[x]],
         node        |-> [x \in Blocks |-> IF x \in gone \cup W THEN NoNode ELSE t.node[x]],
         releaseAt   |-> [x \in Blocks |-> IF x \in gone \cup W THEN 0 ELSE t.releaseAt[x]],
         freeBlocks  |-> (t.freeBlocks \cup W) \ gone,
         quarantined |-> t.quarantined \ (gone \cup W)]
  BY DEF Collapse, gone
<1>4. Collapse(t, W) \in Trees
  BY <1>2, <1>3 DEF Trees, States
<1> QED BY <1>1, <1>3, <1>4 DEF Trees

\* Merging blocks that hold nothing in use once D is free, among them all those
\* with a block of D inside, leaves a well-formed tree.
LEMMA CollapseWellFormed ==
  ASSUME NEW t, NEW r \in Blocks, WellFormed(t, r),
         NEW D \in SUBSET Blocks, NEW W \in SUBSET Blocks,
         \A p \in W : WhollyFree(t, D, p),
         \A p \in Blocks : \A d \in D : WhollyFree(t, D, p) /\ Covers(p, d) => p \in W
  PROVE  WellFormed(Collapse(t, W), r)
<1> DEFINE u == Collapse(t, W)
<1>1. t \in Trees /\ IsTree(t, r) /\ Complete(t, r) /\ Merged(t) /\ Indexed(t)
  BY DEF WellFormed
<1>2. /\ u \in Trees
      /\ \A x \in Blocks : u.state[x] =
           IF Inside(x, W) THEN "Absent" ELSE IF x \in W THEN "Free" ELSE t.state[x]
      /\ \A x \in Blocks : x \in u.freeBlocks <=>
           (x \in t.freeBlocks \/ x \in W) /\ ~Inside(x, W)
      /\ \A x \in Blocks : x \in u.quarantined <=>
           x \in t.quarantined /\ x \notin W /\ ~Inside(x, W)
  BY <1>1, CollapseFields
<1> HIDE DEF u
<1>3. \A p \in W : t.state[p] # "Absent"
  BY DEF WhollyFree
<1>4. IsTree(u, r)
  <2> SUFFICES ASSUME NEW y \in Blocks, u.state[y] # "Absent"
               PROVE  /\ Covers(r, y)
                      /\ \A x \in Blocks : Covers(r, x) /\ Covers(x, y) /\ x # y
                                           => u.state[x] = "Split"
    BY DEF IsTree
  <2>1. t.state[y] # "Absent" /\ ~Inside(y, W)
    BY <1>2, <1>3
  <2>2. ASSUME NEW x \in Blocks, Covers(r, x), Covers(x, y), x # y
        PROVE  u.state[x] = "Split"
    <3>1. t.state[x] = "Split"
      BY <1>1, <2>1, <2>2 DEF IsTree
    <3>2. x \notin W
      BY <2>1, <2>2 DEF Inside
    <3>3. ~Inside(x, W)
      <4>1. ASSUME NEW p \in W, Covers(p, x), p # x PROVE FALSE
        <5>1. Covers(p, y) /\ p # y
          BY <2>2, <4>1, CoversTransitive, CoversStrictly
        <5> QED BY <2>1, <5>1 DEF Inside
      <4> QED BY <4>1 DEF Inside
    <3> QED BY <1>2, <3>1, <3>2, <3>3
  <2> QED BY <1>1, <2>1, <2>2 DEF IsTree
<1>5. Complete(u, r)
  <2> SUFFICES ASSUME NEW a \in Addresses, Covers(r, a)
               PROVE  \E b \in Blocks : Covers(b, a) /\ u.state[b] \in Leaf
    BY DEF Complete
  <2>1. a \in Blocks
    BY AddressIsBlock
  <2>2. CASE \E p \in W : Covers(p, a)
    <3> DEFINE V == {q \in W : Covers(q, a)}
    <3>1. V \in SUBSET Blocks /\ V # {}
      BY <2>2
    <3>2. PICK p \in V : \A q \in V : Len(p) <= Len(q)
      BY <3>1, Outermost
    <3>3. ASSUME NEW q \in W, Covers(q, p), q # p PROVE FALSE
      <4>1. Covers(q, a) /\ Len(q) < Len(p)
        BY <2>1, <3>2, <3>3, CoversTransitive, CoversStrictly
      <4> QED BY <3>2, <4>1, BlockIsSeq, LevelsAssumption
    <3>4. u.state[p] = "Free"
      BY <1>2, <3>3 DEF Inside
    <3> QED BY <3>2, <3>4 DEF Leaf
  <2>3. CASE \A p \in W : ~Covers(p, a)
    <3>1. PICK b \in Blocks : Covers(b, a) /\ t.state[b] \in Leaf
      BY <1>1 DEF Complete
    <3>2. b \notin W /\ ~Inside(b, W)
      BY <2>1, <2>3, <3>1, CoversTransitive DEF Inside
    <3> QED BY <1>2, <3>1, <3>2
  <2> QED BY <2>2, <2>3
<1>6. Merged(u)
  <2> SUFFICES ASSUME NEW p \in Blocks, u.state[p] = "Split"
               PROVE  \E x \in Blocks : /\ Covers(p, x)
                                         /\ u.state[x] \in {"Allocated", "Quarantined"}
    BY DEF Merged
  <2>1. t.state[p] = "Split" /\ p \notin W
    BY <1>2
  <2>2. PICK x \in Blocks : /\ Covers(p, x) /\ x \notin D
                            /\ t.state[x] \in {"Allocated", "Quarantined"}
    <3>1. CASE \E d \in D : Covers(p, d)
      <4>1. ~WhollyFree(t, D, p)
        BY <2>1, <3>1
      <4>2. PICK x \in Subtree[p] : x \notin D /\ t.state[x] \notin {"Absent", "Split", "Free"}
        BY <2>1, <4>1 DEF WhollyFree
      <4>3. x \in Blocks /\ Covers(p, x)
        BY TablesAreCovers
      <4> QED BY <1>1, <4>2, <4>3 DEF Trees, States
    <3>2. CASE \A d \in D : ~Covers(p, d)
      BY <1>1, <2>1, <3>2 DEF Merged
    <3> QED BY <3>1, <3>2
  <2>3. ASSUME NEW w \in W, Covers(w, x) PROVE FALSE
    <3>1. x \in Subtree[w]
      BY <2>3, TablesAreCovers
    <3> QED BY <2>2, <3>1 DEF WhollyFree
  <2>4. x \notin W /\ ~Inside(x, W)
    BY <2>3, CoversReflexive DEF Inside
  <2> QED BY <1>2, <2>2, <2>4
<1>7. Indexed(u)
  BY <1>1, <1>2 DEF Indexed, Trees
<1> QED BY <1>2, <1>4, <1>5, <1>6, <1>7 DEF WellFormed, u

\* Releasing blocks and merging upwards keeps the tree well formed.
LEMMA ReleaseWellFormed ==
  ASSUME NEW t, NEW r \in Blocks, WellFormed(t, r), NEW D \in SUBSET Blocks
  PROVE  WellFormed(Release(t, D), r)
<1> DEFINE W == {p \in UNION {Upward[d] : d \in D} : WhollyFree(t, D, p)}
<1>1. W \in SUBSET Blocks
  BY TablesAreCovers
<1>2. \A p \in Blocks : \A d \in D : WhollyFree(t, D, p) /\ Covers(p, d) => p \in W
  BY TablesAreCovers
<1>3. WellFormed(Collapse(t, W), r)
  BY <1>1, <1>2, CollapseWellFormed
<1> QED BY <1>3 DEF Release

\* So does the sweep of the blocks whose quarantine is over.
LEMMA SweepWellFormed ==
  ASSUME NEW t, NEW r \in Blocks, WellFormed(t, r), NEW at
  PROVE  WellFormed(Sweep(t, at), r)
<1>1. Due(t, at) \in SUBSET Blocks
  BY DEF Due, WellFormed, Trees
<1> QED BY <1>1, ReleaseWellFormed DEF Sweep

\* So does Defragment's walk.
LEMMA MergeAllWellFormed ==
  ASSUME NEW t, NEW r \in Blocks, WellFormed(t, r)
  PROVE  WellFormed(MergeAll(t), r)
<1> DEFINE W == {p \in Blocks : WhollyFree(t, {}, p)}
<1>1. WellFormed(Collapse(t, W), r)
  BY CollapseWellFormed
<1> QED BY <1>1 DEF MergeAll

\* Holding an allocated block back keeps the tree well formed.
LEMMA HoldWellFormed ==
  ASSUME NEW t, NEW r \in Blocks, WellFormed(t, r),
         NEW b \in Blocks, t.state[b] = "Allocated", NEW until \in Nat
  PROVE  WellFormed(Hold(t, b, until), r)
<1> DEFINE u == Hold(t, b, until)
<1>1. t \in Trees /\ IsTree(t, r) /\ Complete(t, r) /\ Merged(t) /\ Indexed(t)
  BY DEF WellFormed
<1>2. /\ u \in Trees
      /\ \A x \in Blocks : u.state[x] = IF x = b THEN "Quarantined" ELSE t.state[x]
      /\ u.freeBlocks = t.freeBlocks
      /\ u.quarantined = t.quarantined \cup {b}
  BY <1>1 DEF Hold, Trees, States
<1> HIDE DEF u
<1>3. IsTree(u, r)
  BY <1>1, <1>2 DEF IsTree
<1>4. Complete(u, r)
  BY <1>1, <1>2 DEF Complete, Leaf
<1>5. Merged(u)
  BY <1>1, <1>2 DEF Merged
<1>6. Indexed(u)
  BY <1>1, <1>2 DEF Indexed
<1> QED BY <1>2, <1>3, <1>4, <1>5, <1>6 DEF WellFormed, u

-----------------------------------------------------------------------------
(* Taking a part of a free block *)

\* x is one of the halves that splitting b down to c leaves free.
Beside(x, b, c) ==
  \E z \in Blocks : Covers(z, c) /\ ~Covers(z, b) /\ x = Buddy(z)

\* Such a half lies strictly inside b and not around c.
LEMMA BesideIsInside ==
  ASSUME NEW b \in Blocks, NEW c \in Blocks, Covers(b, c), NEW x, Beside(x, b, c)
  PROVE  x \in Blocks /\ Covers(b, x) /\ x # b /\ ~Covers(x, c)
<1>1. PICK z \in Blocks : Covers(z, c) /\ ~Covers(z, b) /\ x = Buddy(z)
  BY DEF Beside
<1>2. Len(b) \in Nat /\ Len(z) \in Nat
  BY BlockIsSeq, LevelsAssumption
<1>3. Covers(b, z) /\ Len(b) < Len(z)
  BY <1>1, <1>2, CoversComparable, CoversReflexive, CoversStrictly
<1>4. x \in Blocks /\ Len(x) = Len(z) /\ \A i \in 1..Len(b) : x[i] = z[i]
  BY <1>1, <1>2, <1>3, BuddyIsBlock
<1>5. Covers(b, x) /\ x # b
  BY <1>2, <1>3, <1>4 DEF Covers
<1>6. ~Covers(x, c)
  BY <1>1, <1>2, <1>3, BuddyIsApart
<1> QED BY <1>4, <1>5, <1>6

\* Take, field by field.
LEMMA TakeFields ==
  ASSUME NEW t \in Trees, NEW b \in Blocks, NEW c \in Blocks, Covers(b, c),
         NEW n \in Nodes \cup {NoNode}
  PROVE  /\ Take(t, b, c, n) \in Trees
         /\ \A x \in Blocks : Take(t, b, c, n).state[x] =
              IF x = c THEN "Allocated"
              ELSE IF Covers(b, x) /\ Covers(x, c) THEN "Split"
              ELSE IF Beside(x, b, c) THEN "Free" ELSE t.state[x]
         /\ \A x \in Blocks : x \in Take(t, b, c, n).freeBlocks <=>
              (x \in t.freeBlocks /\ x # b) \/ Beside(x, b, c)
         /\ Take(t, b, c, n).quarantined = t.quarantined
<1> DEFINE path   == (Subtree[b] \cap Upward[c]) \ {c}
           beside == {Buddy(x) : x \in Upward[c] \ Upward[b]}
<1>1. \A x \in Blocks : x \in path <=> Covers(b, x) /\ Covers(x, c) /\ x # c
  BY TablesAreCovers
<1>2. \A x : x \in beside <=> Beside(x, b, c)
  BY TablesAreCovers DEF Beside
<1>3. beside \in SUBSET Blocks
  BY <1>2, BesideIsInside
<1> HIDE DEF path, beside
<1>4. Take(t, b, c, n) =
        [state       |-> [x \in Blocks |-> IF x = c THEN "Allocated"
                                        ELSE IF x \in path THEN "Split"
                                        ELSE IF x \in beside THEN "Free"
                                        ELSE t.state[x]],
         node        |-> [t.node EXCEPT ![c] = n],
         releaseAt   |-> t.releaseAt,
         freeBlocks  |-> (t.freeBlocks \ {b}) \cup beside,
         quarantined |-> t.quarantined]
  BY DEF Take, path, beside
<1>5. Take(t, b, c, n) \in Trees
  BY <1>3, <1>4 DEF Trees, States
<1> QED BY <1>1, <1>2, <1>4, <1>5 DEF Trees

\* An address of b lies in c or in one of the halves beside the way to c.
LEMMA TakeCovers ==
  ASSUME NEW b \in Blocks, NEW c \in Blocks, Covers(b, c),
         NEW a \in Addresses, Covers(b, a), ~Covers(c, a)
  PROVE  \E x \in Blocks : Beside(x, b, c) /\ Covers(x, a)
<1>1. /\ Len(b) \in Nat /\ Len(c) \in 0..Depth /\ Depth \in Nat
      /\ c \in [1..Len(c) -> Bits]
      /\ a \in [1..Depth -> Bits] /\ Len(a) = Depth
  BY BlockIsSeq, AddressIsBlock, LevelsAssumption DEF Addresses
<1> DEFINE T == {i \in 1..Len(c) : c[i] # a[i]}
<1>2. T \in SUBSET Nat /\ T # {}
  BY <1>1 DEF Covers
<1>3. PICK m \in T : \A k \in T : m <= k
  BY <1>2, LeastNatural
<1>4. m \in 1..Len(c) /\ c[m] # a[m] /\ \A i \in 1..(m - 1) : c[i] = a[i]
  BY <1>1, <1>3
<1>5. Len(b) < m
  BY <1>1, <1>4 DEF Covers
<1> HIDE DEF T
<1> DEFINE z == [i \in 1..m |-> c[i]]
<1>6. z \in Blocks /\ Len(z) = m
  <2>1. m \in 0..Depth /\ z \in [1..m -> Bits]
    BY <1>1, <1>4
  <2> QED BY <2>1, SeqIsBlock
<1>7. \A i \in 1..m : z[i] = c[i]
  OBVIOUS
<1> HIDE DEF z
<1>8. Covers(z, c) /\ ~Covers(z, b)
  BY <1>1, <1>4, <1>5, <1>6, <1>7 DEF Covers
<1>9. Covers(Buddy(z), a)
  <2>1. /\ Len(Buddy(z)) = m
        /\ \A i \in 1..m : Buddy(z)[i] = IF i = m THEN 1 - z[i] ELSE z[i]
    BY <1>6, BuddyIsBlock
  <2>2. 1 - c[m] = a[m]
    BY <1>1, <1>4 DEF Bits
  <2>3. \A i \in 1..m : Buddy(z)[i] = a[i]
    BY <1>1, <1>4, <1>7, <2>1, <2>2
  <2> QED BY <1>1, <1>4, <2>1, <2>3 DEF Covers
<1> QED BY <1>6, <1>8, <1>9, BuddyIsBlock DEF Beside

\* Splitting a free block down to one of its parts keeps the tree well formed.
LEMMA TakeWellFormed ==
  ASSUME NEW t, NEW r \in Blocks, WellFormed(t, r),
         NEW b \in Blocks, t.state[b] = "Free", NEW c \in Blocks, Covers(b, c),
         NEW n \in Nodes \cup {NoNode}
  PROVE  WellFormed(Take(t, b, c, n), r)
<1> DEFINE u == Take(t, b, c, n)
<1>1. t \in Trees /\ IsTree(t, r) /\ Complete(t, r) /\ Merged(t) /\ Indexed(t)
  BY DEF WellFormed
<1>2. /\ u \in Trees
      /\ \A x \in Blocks : u.state[x] =
           IF x = c THEN "Allocated"
           ELSE IF Covers(b, x) /\ Covers(x, c) THEN "Split"
           ELSE IF Beside(x, b, c) THEN "Free" ELSE t.state[x]
      /\ \A x \in Blocks : x \in u.freeBlocks <=>
           (x \in t.freeBlocks /\ x # b) \/ Beside(x, b, c)
      /\ u.quarantined = t.quarantined
  BY <1>1, TakeFields
<1> HIDE DEF u
<1>3. Covers(r, b)
  BY <1>1 DEF IsTree
<1>4. \A x \in Blocks : Covers(b, x) /\ x # b => t.state[x] = "Absent"
  BY <1>1, <1>3 DEF IsTree
<1>5. \A x : Beside(x, b, c) => x \in Blocks /\ Covers(b, x) /\ x # b /\ ~Covers(x, c)
  BY BesideIsInside
<1>6. \A x \in Blocks : ~Covers(b, x) => u.state[x] = t.state[x]
  BY <1>2, <1>5
<1>7. \A x \in Blocks : Covers(b, x) => Covers(r, x)
  BY <1>3, CoversTransitive
<1>8. \A x \in Blocks : Covers(r, x) /\ Covers(x, c) /\ x # c => u.state[x] = "Split"
  <2> SUFFICES ASSUME NEW x \in Blocks, Covers(r, x), Covers(x, c), x # c
               PROVE  u.state[x] = "Split"
    OBVIOUS
  <2>1. CASE Covers(b, x)
    BY <1>2, <2>1
  <2>2. CASE ~Covers(b, x)
    <3>1. Covers(x, b) /\ x # b
      BY <2>2, CoversComparable, CoversReflexive
    <3>2. t.state[x] = "Split"
      BY <1>1, <3>1 DEF IsTree
    <3> QED BY <1>6, <2>2, <3>2
  <2> QED BY <2>1, <2>2
<1>9. IsTree(u, r)
  <2> SUFFICES ASSUME NEW y \in Blocks, u.state[y] # "Absent"
               PROVE  /\ Covers(r, y)
                      /\ \A x \in Blocks : Covers(r, x) /\ Covers(x, y) /\ x # y
                                           => u.state[x] = "Split"
    BY DEF IsTree
  <2>1. Covers(r, y)
    BY <1>1, <1>6, <1>7 DEF IsTree
  <2>2. ASSUME NEW x \in Blocks, Covers(r, x), Covers(x, y), x # y
        PROVE  u.state[x] = "Split"
    <3>1. CASE Covers(y, c)
      <4>1. Covers(x, c) /\ x # c
        BY <2>2, <3>1, CoversTransitive, CoversStrictly
      <4> QED BY <1>8, <2>2, <4>1
    <3>2. CASE Beside(y, b, c)
      <4>1. PICK z \in Blocks : Covers(z, c) /\ y = Buddy(z)
        BY <3>2 DEF Beside
      <4>2. Covers(x, z) /\ Len(x) < Len(z)
        BY <2>2, <4>1, AroundBuddy
      <4>3. Covers(x, c) /\ x # c
        BY <4>1, <4>2, CoversTransitive, CoversStrictly, BlockIsSeq, LevelsAssumption DEF Covers
      <4> QED BY <1>8, <2>2, <4>3
    <3>3. CASE ~Covers(y, c) /\ ~Beside(y, b, c)
      <4>1. t.state[y] # "Absent"
        BY <1>2, <3>3, CoversReflexive
      <4>2. t.state[x] = "Split"
        BY <1>1, <2>2, <4>1 DEF IsTree
      <4>3. ~Covers(b, x)
        BY <1>4, <4>2
      <4> QED BY <1>6, <4>2, <4>3
    <3> QED BY <3>1, <3>2, <3>3
  <2> QED BY <2>1, <2>2
<1>10. Complete(u, r)
  <2> SUFFICES ASSUME NEW a \in Addresses, Covers(r, a)
               PROVE  \E l \in Blocks : Covers(l, a) /\ u.state[l] \in Leaf
    BY DEF Complete
  <2>1. PICK l \in Blocks : Covers(l, a) /\ t.state[l] \in Leaf
    BY <1>1 DEF Complete
  <2>2. CASE l # b
    <3>1. ~Covers(b, l)
      BY <1>4, <2>1, <2>2 DEF Leaf
    <3> QED BY <1>6, <2>1, <3>1
  <2>3. CASE l = b /\ Covers(c, a)
    BY <1>2, <2>3 DEF Leaf
  <2>4. CASE l = b /\ ~Covers(c, a)
    <3>1. PICK x \in Blocks : Beside(x, b, c) /\ Covers(x, a)
      BY <2>1, <2>4, TakeCovers
    <3>2. u.state[x] = "Free"
      BY <1>2, <1>5, <3>1, CoversReflexive
    <3> QED BY <3>1, <3>2 DEF Leaf
  <2> QED BY <2>2, <2>3, <2>4
<1>11. Merged(u)
  <2> SUFFICES ASSUME NEW p \in Blocks, u.state[p] = "Split"
               PROVE  \E x \in Blocks : /\ Covers(p, x)
                                         /\ u.state[x] \in {"Allocated", "Quarantined"}
    BY DEF Merged
  <2>1. CASE Covers(p, c)
    BY <1>2, <2>1
  <2>2. CASE ~Covers(p, c)
    <3>1. t.state[p] = "Split"
      BY <1>2, <2>2
    <3>2. PICK x \in Blocks : Covers(p, x) /\ t.state[x] \in {"Allocated", "Quarantined"}
      BY <1>1, <3>1 DEF Merged
    <3>3. ~Covers(b, x)
      BY <1>4, <3>2
    <3> QED BY <1>6, <3>2, <3>3
  <2> QED BY <2>1, <2>2
<1>12. Indexed(u)
  <2>1. \A x \in Blocks : u.state[x] = "Free" <=> x \in u.freeBlocks
    <3> SUFFICES ASSUME NEW x \in Blocks
                 PROVE  u.state[x] = "Free" <=> x \in u.freeBlocks
      OBVIOUS
    <3>1. x \in t.freeBlocks <=> t.state[x] = "Free"
      BY <1>1 DEF Indexed
    <3>2. CASE Covers(b, x)
      BY <1>2, <1>4, <1>5, <3>1, <3>2, CoversReflexive
    <3>3. CASE ~Covers(b, x)
      BY <1>2, <1>5, <1>6, <3>1, <3>3, CoversReflexive
    <3> QED BY <3>2, <3>3
  <2>2. \A x \in Blocks : u.state[x] = "Quarantined" <=> x \in u.quarantined
    BY <1>1, <1>2, <1>4, <1>5 DEF Indexed
  <2> QED BY <1>2, <2>1, <2>2 DEF Indexed, Trees
<1> QED BY <1>2, <1>9, <1>10, <1>11, <1>12 DEF WellFormed, u

-----------------------------------------------------------------------------
(* What the allocating methods pick *)

\* Every choice is a part of a block that is free.
FromFree(t, choice) ==
  \A g \in choice : /\ g.from \in Blocks /\ t.state[g.from] = "Free"
                    /\ g.take \in Blocks /\ Covers(g.from, g.take)

\* An allocating call keeps the tree well formed, whether it succeeds or not.
LEMMA GrantWellFormed ==
  ASSUME NEW t, NEW r \in Blocks, WellFormed(t, r),
         NEW choice, FromFree(t, choice), NEW n \in Nodes \cup {NoNode}
  PROVE  WellFormed(Grant(t, choice, n), r)
<1>1. CASE choice = {}
  BY <1>1 DEF Grant
<1>2. CASE choice # {}
  <2> DEFINE g == CHOOSE g \in choice : TRUE
  <2>1. g \in choice
    BY <1>2
  <2> HIDE DEF g
  <2>2. WellFormed(Take(t, g.from, g.take, n), r)
    BY <2>1, TakeWellFormed DEF FromFree
  <2> QED BY <1>2, <2>2 DEF Grant, g
<1> QED BY <1>1, <1>2

\* The prefix lengths an allocator hands out exist.
LEMMA LevelsAreLevels ==
  ASSUME NEW r \in Blocks, NEW l \in Levels(r)
  PROVE  l \in 0..Depth
BY BlockIsSeq, LevelsAssumption DEF Levels

\* allocatePrefixLocked takes a part of a free block.
LEMMA FitFromFree ==
  ASSUME NEW t, NEW r \in Blocks, WellFormed(t, r),
         NEW l \in 0..Depth, NEW from \in Int, from <= l
  PROVE  FromFree(t, Fit(t, l, from))
<1> SUFFICES ASSUME NEW b \in FirstFit(t, from)
             PROVE  /\ b \in Blocks /\ t.state[b] = "Free"
                    /\ Extend(b, l, 0) \in Blocks /\ Covers(b, Extend(b, l, 0))
  BY DEF FromFree, Fit
<1>1. b \in Blocks /\ t.state[b] = "Free" /\ Len(b) <= from
  BY DEF FirstFit, WellFormed, Indexed
<1>2. Len(b) <= l
  BY <1>1, BlockIsSeq, LevelsAssumption
<1> QED BY <1>1, <1>2, ExtendIsBlock DEF Bits

\* Allocate takes a part of a free block.
LEMMA AllocateFromFree ==
  ASSUME NEW t, NEW r \in Blocks, WellFormed(t, r), NEW req
  PROVE  FromFree(t, AllocateChoice(r, t, req))
<1>1. ASSUME NEW l \in LevelFor(r, req) PROVE FromFree(t, Fit(t, l, l))
  <2>1. l \in 0..Depth
    BY LevelsAreLevels DEF LevelFor
  <2> QED BY <2>1, FitFromFree, LevelsAssumption
<1> QED BY <1>1 DEF AllocateChoice, FromFree

\* AllocateSpread takes a part of a free block.
LEMMA SpreadFromFree ==
  ASSUME NEW t, NEW r \in Blocks, WellFormed(t, r), NEW req
  PROVE  FromFree(t, SpreadChoice(r, t, req))
<1>1. ASSUME NEW l \in LevelFor(r, req) PROVE FromFree(t, Fit(t, l, l - 1))
  <2>1. l \in 0..Depth
    BY LevelsAreLevels DEF LevelFor
  <2> QED BY <2>1, FitFromFree, LevelsAssumption
<1> QED BY <1>1 DEF SpreadChoice, FromFree

\* AllocatePrefix takes a part of a free block.
LEMMA PrefixFromFree ==
  ASSUME NEW t, NEW r \in Blocks, WellFormed(t, r), NEW l
  PROVE  FromFree(t, PrefixChoice(r, t, l))
<1>1. CASE l \in Levels(r)
  <2>1. l \in 0..Depth
    BY <1>1, LevelsAreLevels
  <2>2. FromFree(t, Fit(t, l, l))
    BY <2>1, FitFromFree, LevelsAssumption
  <2> QED BY <1>1, <2>2 DEF PrefixChoice
<1>2. CASE l \notin Levels(r)
  BY <1>2 DEF PrefixChoice, FromFree
<1> QED BY <1>1, <1>2

\* AllocateBuddyOf takes a free block.
LEMMA BuddyFromFree ==
  ASSUME NEW t, NEW b \in Blocks
  PROVE  FromFree(t, BuddyChoice(t, b))
BY BuddyIsBlock, CoversReflexive DEF FromFree, BuddyChoice, BuddyFree

\* AllocateFromBuddy takes a part of a free block.
LEMMA FromBuddyFromFree ==
  ASSUME NEW t, NEW r \in Blocks, NEW b \in Blocks, NEW req, NEW n
  PROVE  FromFree(t, FromBuddyChoice(r, t, b, req, n))
<1> DEFINE piece(a, l) ==
             IF Len(a) < l THEN Extend(Buddy(a), l, a[Len(a)]) ELSE Buddy(a)
<1>1. ASSUME NEW a \in {x \in Anchor(t, b, n) : BuddyFree(t, x)}, NEW l \in LevelFor(r, req)
      PROVE  /\ Buddy(a) \in Blocks /\ t.state[Buddy(a)] = "Free"
             /\ piece(a, l) \in Blocks /\ Covers(Buddy(a), piece(a, l))
  <2>1. a \in Blocks /\ Len(a) > 0 /\ t.state[Buddy(a)] = "Free"
    BY TablesAreCovers DEF Anchor, BuddyFree
  <2>2. Buddy(a) \in Blocks /\ Len(Buddy(a)) = Len(a) /\ Covers(Buddy(a), Buddy(a))
    BY <2>1, BuddyIsBlock, CoversReflexive
  <2>3. Len(a) \in Nat /\ a[Len(a)] \in Bits
    BY <2>1, BlockIsSeq, LevelsAssumption
  <2>4. l \in 0..Depth
    BY LevelsAreLevels DEF LevelFor
  <2>5. CASE Len(a) < l
    <3>1. Len(Buddy(a)) <= l
      BY <2>2, <2>3, <2>4, <2>5, LevelsAssumption
    <3> QED BY <2>1, <2>2, <2>3, <2>4, <2>5, <3>1, ExtendIsBlock
  <2>6. CASE ~(Len(a) < l)
    BY <2>1, <2>2, <2>6
  <2> QED BY <2>5, <2>6
<1> QED BY <1>1 DEF FromBuddyChoice, FromFree

\* Reserve takes a part of a free block.
LEMMA ReserveFromFree ==
  ASSUME NEW t, NEW c \in Blocks
  PROVE  FromFree(t, ReserveChoice(t, c))
BY TablesAreCovers DEF FromFree, ReserveChoice

-----------------------------------------------------------------------------
(* The allocator *)

IInv == WellFormed(tree, Root) /\ quarantine \in Nat /\ now \in Nat

\* A new allocator satisfies the invariant.
LEMMA InitIInv == Init => IInv
BY RootAssumption, NewTreeWellFormed DEF Init, IInv

\* Every method of the allocator preserves the invariant.
LEMMA NextIInv == IInv /\ [Next]_vars => IInv'
<1> SUFFICES ASSUME IInv, [Next]_vars PROVE IInv'
  OBVIOUS
<1> USE RootAssumption
<1>1. WellFormed(tree, Root) /\ quarantine \in Nat /\ now \in Nat
  BY DEF IInv
<1>2. WellFormed(Swept, Root)
  BY <1>1, SweepWellFormed DEF Swept
<1>3. ASSUME NEW n \in Nodes, NEW choice, FromFree(Swept, choice),
             tree' = Grant(Swept, choice, n), UNCHANGED <<quarantine, now>>
      PROVE  IInv'
  <2>1. WellFormed(Grant(Swept, choice, n), Root)
    BY <1>2, <1>3, GrantWellFormed
  <2> QED BY <1>1, <1>3, <2>1 DEF IInv
<1>4. ASSUME NEW n \in Nodes, NEW req \in Requests, Allocate(req, n) PROVE IInv'
  <2>1. FromFree(Swept, AllocateChoice(Root, Swept, req))
    BY <1>2, AllocateFromFree
  <2> QED BY <1>3, <1>4, <2>1 DEF Allocate
<1>5. ASSUME NEW n \in Nodes, NEW req \in Requests, AllocateSpread(req, n) PROVE IInv'
  <2>1. FromFree(Swept, SpreadChoice(Root, Swept, req))
    BY <1>2, SpreadFromFree
  <2> QED BY <1>3, <1>5, <2>1 DEF AllocateSpread
<1>6. ASSUME NEW n \in Nodes, NEW l \in 0..Depth, AllocatePrefix(l, n) PROVE IInv'
  <2>1. FromFree(Swept, PrefixChoice(Root, Swept, l))
    BY <1>2, PrefixFromFree
  <2> QED BY <1>3, <1>6, <2>1 DEF AllocatePrefix
<1>7. ASSUME NEW n \in Nodes, NEW b \in Blocks, AllocateBuddyOf(b, n) PROVE IInv'
  <2>1. FromFree(Swept, BuddyChoice(Swept, b))
    BY BuddyFromFree
  <2> QED BY <1>3, <1>7, <2>1 DEF AllocateBuddyOf
<1>8. ASSUME NEW n \in Nodes, NEW b \in Blocks, NEW req \in Requests,
             AllocateFromBuddy(b, req, n)
      PROVE  IInv'
  <2>1. FromFree(Swept, FromBuddyChoice(Root, Swept, b, req, n))
    BY FromBuddyFromFree
  <2> QED BY <1>3, <1>8, <2>1 DEF AllocateFromBuddy
<1>9. ASSUME NEW n \in Nodes, NEW c \in Blocks, Reserve(c, n) PROVE IInv'
  <2>1. WellFormed(Grant(tree, ReserveChoice(tree, c), n), Root)
    BY <1>1, ReserveFromFree, GrantWellFormed
  <2> QED BY <1>1, <1>9, <2>1 DEF Reserve, IInv
<1>10. ASSUME NEW b \in Blocks, Free(b) PROVE IInv'
  <2>1. CASE quarantine > 0
    <3>1. WellFormed(Hold(tree, b, now + quarantine), Root)
      BY <1>1, <1>10, HoldWellFormed DEF Free
    <3> QED BY <1>1, <1>10, <2>1, <3>1 DEF Free, IInv
  <2>2. CASE ~(quarantine > 0)
    <3>1. WellFormed(Release(tree, {b}), Root)
      BY <1>1, ReleaseWellFormed
    <3> QED BY <1>1, <1>10, <2>2, <3>1 DEF Free, IInv
  <2> QED BY <2>1, <2>2
<1>11. ASSUME NEW b \in Blocks, FreeNow(b) PROVE IInv'
  <2>1. WellFormed(Release(tree, {b}), Root)
    BY <1>1, ReleaseWellFormed
  <2> QED BY <1>1, <1>11, <2>1 DEF FreeNow, IInv
<1>12. CASE SweepNow
  BY <1>1, <1>2, <1>12 DEF SweepNow, IInv
<1>13. CASE Defragment
  <2>1. WellFormed(MergeAll(Swept), Root)
    BY <1>2, MergeAllWellFormed
  <2> QED BY <1>1, <1>13, <2>1 DEF Defragment, IInv
<1>14. ASSUME NEW d \in Quarantines, SetQuarantine(d) PROVE IInv'
  BY <1>1, <1>14, TimeAssumption DEF SetQuarantine, IInv
<1>15. CASE Tick
  BY <1>1, <1>15 DEF Tick, ClockAdvances, IInv
<1>16. CASE UNCHANGED vars
  BY <1>1, <1>16 DEF vars, IInv
<1> QED
  BY <1>4, <1>5, <1>6, <1>7, <1>8, <1>9, <1>10, <1>11, <1>12, <1>13, <1>14, <1>15, <1>16
  DEF Next

\* The tree stays well formed whatever is called.
THEOREM AllocatorInvariant == Spec => []IInv
BY InitIInv, NextIInv, PTL DEF Spec

\* Every field keeps its type.
THEOREM AllocatorTypes == Spec => []TypeOK
<1>1. IInv => TypeOK
  BY DEF IInv, WellFormed, TypeOK
<1> QED BY <1>1, AllocatorInvariant, PTL

\* The freeBlocks and quarantined maps list exactly the blocks in that state.
THEOREM AllocatorIndexes == Spec => []IndexesAgree
<1>1. IInv => IndexesAgree
  BY DEF IInv, WellFormed, IndexesAgree
<1> QED BY <1>1, AllocatorInvariant, PTL

\* The leaf of the tree t that address a lies in.
LeafIn(t, a) == CHOOSE b \in Upward[a] : t.state[b] \in Leaf

\* The addresses of the allocator.
Space == Addresses \cap Subtree[Root]

\* An address has exactly one leaf.
LEMMA LeafIsUnique ==
  ASSUME NEW t, WellFormed(t, Root), NEW a \in Space
  PROVE  /\ LeafIn(t, a) \in Blocks /\ Covers(LeafIn(t, a), a)
         /\ t.state[LeafIn(t, a)] \in Leaf
         /\ \A c \in Blocks : Covers(c, a) /\ t.state[c] \in Leaf => c = LeafIn(t, a)
<1> USE RootAssumption
<1>1. IsTree(t, Root) /\ Complete(t, Root)
  BY DEF WellFormed
<1>2. a \in Addresses /\ a \in Blocks /\ Covers(Root, a)
  BY AddressIsBlock, TablesAreCovers DEF Space
<1>3. PICK b \in Blocks : Covers(b, a) /\ t.state[b] \in Leaf
  BY <1>1, <1>2 DEF Complete
<1>4. b \in Upward[a]
  BY <1>2, <1>3, TablesAreCovers
<1>5. LeafIn(t, a) \in Upward[a] /\ t.state[LeafIn(t, a)] \in Leaf
  BY <1>3, <1>4 DEF LeafIn
<1>6. LeafIn(t, a) \in Blocks /\ Covers(LeafIn(t, a), a)
  BY <1>2, <1>5, TablesAreCovers
<1>7. ASSUME NEW x \in Blocks, NEW y \in Blocks, Covers(x, y),
             t.state[x] \in Leaf, t.state[y] \in Leaf
      PROVE  x = y
  <2>1. Covers(Root, x)
    BY <1>1, <1>7 DEF IsTree, Leaf
  <2> QED BY <1>1, <1>7, <2>1 DEF IsTree, Leaf
<1>8. ASSUME NEW c \in Blocks, Covers(c, a), t.state[c] \in Leaf
      PROVE  c = LeafIn(t, a)
  <2>1. Covers(c, LeafIn(t, a)) \/ Covers(LeafIn(t, a), c)
    BY <1>2, <1>6, <1>8, CoversComparable
  <2> QED BY <1>5, <1>6, <1>7, <1>8, <2>1
<1> QED BY <1>5, <1>6, <1>8

\* Every address of the CIDR lies in exactly one leaf: Allocate, Reserve, Free
\* and the sweep never lose an address or hand one out twice.
THEOREM AllocatorPartition == Spec => []Partition
<1>1. ASSUME IInv PROVE Partition
  <2>1. WellFormed(tree, Root)
    BY <1>1 DEF IInv
  <2>2. ASSUME NEW a \in Space
        PROVE  \E b \in Upward[a] :
                 /\ tree.state[b] \in Leaf
                 /\ \A c \in Upward[a] : tree.state[c] \in Leaf => c = b
    <3>1. a \in Blocks
      BY AddressIsBlock DEF Space
    <3> QED BY <2>1, <3>1, LeafIsUnique, TablesAreCovers
  <2> QED BY <2>2 DEF Partition, Space
<1> QED BY <1>1, AllocatorInvariant, PTL

\* Space that nobody uses is always found: merging on release never leaves it
\* split up.
THEOREM AllocatorNoHiddenSpace == Spec => []NoHiddenSpace
<1>1. ASSUME IInv PROVE NoHiddenSpace
  <2> USE RootAssumption
  <2>1. /\ IsTree(tree, Root) /\ Complete(tree, Root)
        /\ Merged(tree) /\ Indexed(tree)
    BY <1>1 DEF IInv, WellFormed
  <2> SUFFICES ASSUME NEW b \in Subtree[Root],
                      \A x \in Subtree[b] \cup Upward[b] :
                        tree.state[x] \in Leaf => tree.state[x] = "Free"
               PROVE  tree.freeBlocks \cap Upward[b] # {}
    BY DEF NoHiddenSpace
  <2>2. b \in Blocks /\ Covers(Root, b)
    BY TablesAreCovers
  <2>3. PICK a \in Addresses : Covers(b, a)
    <3>1. Depth \in 0..Depth /\ Len(b) <= Depth
      BY <2>2, BlockIsSeq, LevelsAssumption
    <3>2. /\ Extend(b, Depth, 0) \in Blocks
          /\ Len(Extend(b, Depth, 0)) = Depth
          /\ Covers(b, Extend(b, Depth, 0))
      BY <2>2, <3>1, ExtendIsBlock DEF Bits
    <3>3. Extend(b, Depth, 0) \in Addresses
      BY <3>2, BlockIsSeq DEF Addresses
    <3> QED BY <3>2, <3>3
  <2>4. a \in Blocks /\ Covers(Root, a)
    BY <2>2, <2>3, AddressIsBlock, CoversTransitive
  <2>5. PICK l \in Blocks : Covers(l, a) /\ tree.state[l] \in Leaf
    BY <2>1, <2>4 DEF Complete
  <2>6. CASE Covers(l, b)
    <3>1. l \in Upward[b]
      BY <2>2, <2>6, TablesAreCovers
    <3>2. l \in tree.freeBlocks
      BY <2>1, <2>5, <3>1 DEF Indexed
    <3> QED BY <3>1, <3>2
  <2>7. CASE ~Covers(l, b)
    <3>1. Covers(b, l) /\ b # l
      BY <2>2, <2>3, <2>4, <2>5, <2>7, CoversComparable, CoversReflexive
    <3>2. tree.state[b] = "Split"
      BY <2>1, <2>2, <2>5, <3>1 DEF IsTree, Leaf
    <3>3. PICK x \in Blocks : Covers(b, x) /\ tree.state[x] \in {"Allocated", "Quarantined"}
      BY <2>1, <2>2, <3>2 DEF Merged
    <3>4. x \in Subtree[b]
      BY <2>2, <3>3, TablesAreCovers
    <3> QED BY <3>3, <3>4 DEF Leaf
  <2> QED BY <2>6, <2>7
<1> QED BY <1>1, AllocatorInvariant, PTL
-----------------------------------------------------------------------------
(* The allocator implements an address space.  Each operator on the tree is   *)
(* described address by address, through the one leaf that an address has.    *)

\* Who has address a in the tree t, and until when it is withheld.
HolderIn(t, a) ==
  IF t.state[LeafIn(t, a)] = "Allocated" THEN t.node[LeafIn(t, a)]
  ELSE t.state[LeafIn(t, a)]

UntilIn(t, a) == t.releaseAt[LeafIn(t, a)]

\* What a step from t to u can do to an address.
SameIn(t, u, a) == HolderIn(u, a) = HolderIn(t, a) /\ UntilIn(u, a) = UntilIn(t, a)

FreeIn(u, a) == HolderIn(u, a) = "Free" /\ UntilIn(u, a) = 0

ExpiredIn(t, a, at) ==
  HolderIn(t, a) = "Free" \/ (HolderIn(t, a) = "Quarantined" /\ UntilIn(t, a) <= at)

\* Only a block in quarantine has a release time, and only a node is given one.
Marked(t) ==
  \A b \in Blocks :
    /\ t.state[b] = "Allocated" => t.node[b] \in Nodes
    /\ t.state[b] = "Quarantined" => Nodes # {}
    /\ t.state[b] # "Quarantined" => t.releaseAt[b] = 0

\* The node names and release times that Collapse leaves.
LEMMA CollapseMarks ==
  ASSUME NEW t \in Trees, NEW W \in SUBSET Blocks
  PROVE  \A x \in Blocks :
           /\ Collapse(t, W).node[x] = IF x \in W \/ Inside(x, W) THEN NoNode ELSE t.node[x]
           /\ Collapse(t, W).releaseAt[x] = IF x \in W \/ Inside(x, W) THEN 0 ELSE t.releaseAt[x]
<1> DEFINE gone == UNION {Subtree[p] \ {p} : p \in W}
<1>1. \A x \in Blocks : x \in gone <=> Inside(x, W)
  BY TablesAreCovers DEF Inside
<1> HIDE DEF gone
<1>2. /\ Collapse(t, W).node = [x \in Blocks |-> IF x \in gone \cup W THEN NoNode ELSE t.node[x]]
      /\ Collapse(t, W).releaseAt =
           [x \in Blocks |-> IF x \in gone \cup W THEN 0 ELSE t.releaseAt[x]]
  BY DEF Collapse, gone
<1> QED BY <1>1, <1>2

\* Merging changes nothing for an address, except that one of a released block
\* becomes free.
LEMMA CollapseAddresses ==
  ASSUME NEW t, WellFormed(t, Root), Marked(t),
         NEW D \in SUBSET Blocks, NEW W \in SUBSET Blocks,
         \A p \in W : WhollyFree(t, D, p), WellFormed(Collapse(t, W), Root)
  PROVE  /\ Marked(Collapse(t, W))
         /\ \A a \in Space : \/ SameIn(t, Collapse(t, W), a)
                             \/ LeafIn(t, a) \in D /\ FreeIn(Collapse(t, W), a)
<1> DEFINE u == Collapse(t, W)
<1>1. t \in Trees
  BY DEF WellFormed
<1>2. \A x \in Blocks :
        /\ u.state[x] = IF Inside(x, W) THEN "Absent" ELSE IF x \in W THEN "Free" ELSE t.state[x]
        /\ u.node[x] = IF x \in W \/ Inside(x, W) THEN NoNode ELSE t.node[x]
        /\ u.releaseAt[x] = IF x \in W \/ Inside(x, W) THEN 0 ELSE t.releaseAt[x]
  BY <1>1, CollapseFields, CollapseMarks
<1>3. WellFormed(u, Root)
  OBVIOUS
<1> HIDE DEF u
<1>4. Marked(u)
  BY <1>2 DEF Marked
<1>5. ASSUME NEW a \in Space
      PROVE  SameIn(t, u, a) \/ (LeafIn(t, a) \in D /\ FreeIn(u, a))
  <2> DEFINE b == LeafIn(t, a)
             c == LeafIn(u, a)
  <2>1. /\ b \in Blocks /\ Covers(b, a) /\ t.state[b] \in Leaf
        /\ \A x \in Blocks : Covers(x, a) /\ t.state[x] \in Leaf => x = b
    BY LeafIsUnique
  <2>2. c \in Blocks /\ Covers(c, a) /\ u.state[c] \in Leaf
    BY <1>3, LeafIsUnique
  <2>3. a \in Blocks
    BY AddressIsBlock DEF Space
  <2> HIDE DEF b, c
  <2>4. ~Inside(c, W)
    BY <1>2, <2>2 DEF Leaf
  <2>5. CASE c \in W
    <3>1. u.state[c] = "Free" /\ u.releaseAt[c] = 0
      BY <1>2, <2>2, <2>4, <2>5
    <3>2. FreeIn(u, a)
      BY <3>1 DEF FreeIn, HolderIn, UntilIn, c
    <3>3. t.state[c] # "Absent" /\ \A x \in Subtree[c] : x \in D \/ t.state[x] \in {"Absent", "Split", "Free"}
      BY <2>5 DEF WhollyFree
    <3>4. Covers(c, b)
      <4>1. Covers(c, b) \/ Covers(b, c)
        BY <2>1, <2>2, <2>3, CoversComparable
      <4>2. ASSUME Covers(b, c), b # c PROVE FALSE
        <5>1. Covers(Root, b)
          BY RootAssumption, <2>1 DEF WellFormed, IsTree, Leaf
        <5> QED BY <2>1, <2>2, <3>3, <4>2, <5>1 DEF WellFormed, IsTree, Leaf
      <4> QED BY <2>1, <4>1, <4>2, CoversReflexive
    <3>5. b \in D \/ t.state[b] = "Free"
      BY <2>1, <2>2, <3>3, <3>4, TablesAreCovers DEF Leaf
    <3>6. CASE t.state[b] = "Free"
      <4>1. FreeIn(t, a)
        BY <2>1, <3>6 DEF FreeIn, HolderIn, UntilIn, Marked, b
      <4> QED BY <3>2, <4>1 DEF SameIn, FreeIn
    <3> QED BY <3>2, <3>5, <3>6 DEF b
  <2>6. CASE c \notin W
    <3>1. /\ u.state[c] = t.state[c] /\ u.node[c] = t.node[c]
          /\ u.releaseAt[c] = t.releaseAt[c]
      BY <1>2, <2>2, <2>4, <2>6
    <3>2. c = b
      BY <2>1, <2>2, <3>1
    <3> QED BY <3>1, <3>2 DEF SameIn, HolderIn, UntilIn, b, c
  <2> QED BY <2>5, <2>6
<1> QED BY <1>4, <1>5 DEF u

\* Releasing blocks frees their addresses and no others.
LEMMA ReleaseAddresses ==
  ASSUME NEW t, WellFormed(t, Root), Marked(t), NEW D \in SUBSET Blocks
  PROVE  /\ Marked(Release(t, D))
         /\ \A a \in Space : \/ SameIn(t, Release(t, D), a)
                             \/ LeafIn(t, a) \in D /\ FreeIn(Release(t, D), a)
<1> DEFINE W == {p \in UNION {Upward[d] : d \in D} : WhollyFree(t, D, p)}
<1>1. W \in SUBSET Blocks
  BY TablesAreCovers
<1>2. WellFormed(Collapse(t, W), Root)
  BY RootAssumption, ReleaseWellFormed DEF Release
<1>3. /\ Marked(Collapse(t, W))
      /\ \A a \in Space : \/ SameIn(t, Collapse(t, W), a)
                          \/ LeafIn(t, a) \in D /\ FreeIn(Collapse(t, W), a)
  BY <1>1, <1>2, CollapseAddresses
<1> QED BY <1>3 DEF Release

\* The sweep frees addresses whose quarantine is over and no others.
LEMMA SweepAddresses ==
  ASSUME NEW t, WellFormed(t, Root), Marked(t), NEW at
  PROVE  /\ Marked(Sweep(t, at))
         /\ \A a \in Space : \/ SameIn(t, Sweep(t, at), a)
                             \/ /\ ExpiredIn(t, a, at) /\ FreeIn(Sweep(t, at), a)
                                /\ Nodes # {}
<1>1. CASE Due(t, at) = {}
  BY <1>1 DEF Sweep, SameIn
<1>2. CASE Due(t, at) # {}
  <2>1. Due(t, at) \in SUBSET Blocks
    BY DEF Due, WellFormed, Trees
  <2>2. Sweep(t, at) = Release(t, Due(t, at))
    BY <1>2 DEF Sweep
  <2>3. ASSUME NEW a \in Space, LeafIn(t, a) \in Due(t, at)
        PROVE  ExpiredIn(t, a, at) /\ Nodes # {}
    <3>1. LeafIn(t, a) \in Blocks /\ t.state[LeafIn(t, a)] = "Quarantined"
      BY <2>3 DEF Due, WellFormed, Indexed
    <3> QED BY <2>3, <3>1 DEF ExpiredIn, HolderIn, UntilIn, Due, Marked
  <2> QED BY <2>1, <2>2, <2>3, ReleaseAddresses
<1> QED BY <1>1, <1>2

\* Defragment moves no address.
LEMMA MergeAllAddresses ==
  ASSUME NEW t, WellFormed(t, Root), Marked(t)
  PROVE  Marked(MergeAll(t)) /\ \A a \in Space : SameIn(t, MergeAll(t), a)
<1> DEFINE W == {p \in Blocks : WhollyFree(t, {}, p)}
<1>1. WellFormed(Collapse(t, W), Root)
  BY RootAssumption, MergeAllWellFormed DEF MergeAll
<1>2. /\ Marked(Collapse(t, W))
      /\ \A a \in Space : \/ SameIn(t, Collapse(t, W), a)
                          \/ LeafIn(t, a) \in {} /\ FreeIn(Collapse(t, W), a)
  BY <1>1, CollapseAddresses
<1> QED BY <1>2 DEF MergeAll

\* The node names and release times that Take leaves.
LEMMA TakeMarks ==
  ASSUME NEW t \in Trees, NEW b \in Blocks, NEW c \in Blocks, NEW n \in Nodes
  PROVE  /\ \A x \in Blocks : Take(t, b, c, n).node[x] = IF x = c THEN n ELSE t.node[x]
         /\ Take(t, b, c, n).releaseAt = t.releaseAt
BY DEF Take, Trees

\* Taking a part of a free block gives free addresses to the node and touches no
\* others.
LEMMA TakeAddresses ==
  ASSUME NEW t, WellFormed(t, Root), Marked(t),
         NEW b \in Blocks, t.state[b] = "Free", NEW c \in Blocks, Covers(b, c), NEW n \in Nodes
  PROVE  /\ Marked(Take(t, b, c, n))
         /\ \A a \in Space :
              \/ SameIn(t, Take(t, b, c, n), a)
              \/ /\ HolderIn(t, a) = "Free"
                 /\ HolderIn(Take(t, b, c, n), a) = n /\ UntilIn(Take(t, b, c, n), a) = 0
<1> DEFINE u == Take(t, b, c, n)
<1>1. t \in Trees
  BY DEF WellFormed
<1>2. /\ \A x \in Blocks :
           /\ u.state[x] = IF x = c THEN "Allocated"
                           ELSE IF Covers(b, x) /\ Covers(x, c) THEN "Split"
                           ELSE IF Beside(x, b, c) THEN "Free" ELSE t.state[x]
           /\ u.node[x] = IF x = c THEN n ELSE t.node[x]
      /\ u.releaseAt = t.releaseAt
  BY <1>1, TakeFields, TakeMarks
<1>3. WellFormed(u, Root)
  BY RootAssumption, TakeWellFormed
<1> HIDE DEF u
\* What lies inside the free block b is not in use.
<1>4. \A x \in Blocks : Covers(b, x) => t.state[x] # "Quarantined" /\ t.releaseAt[x] = 0
  <2>1. Covers(Root, b)
    BY RootAssumption DEF WellFormed, IsTree
  <2> QED BY <2>1 DEF WellFormed, IsTree, Marked
<1>5. Marked(u)
  BY <1>2, <1>4, BesideIsInside DEF Marked
<1>6. ASSUME NEW a \in Space
      PROVE  \/ SameIn(t, u, a)
             \/ HolderIn(t, a) = "Free" /\ HolderIn(u, a) = n /\ UntilIn(u, a) = 0
  <2> DEFINE l == LeafIn(t, a)
             m == LeafIn(u, a)
  <2>1. /\ l \in Blocks /\ Covers(l, a) /\ t.state[l] \in Leaf
        /\ \A x \in Blocks : Covers(x, a) /\ t.state[x] \in Leaf => x = l
    BY LeafIsUnique
  <2>2. m \in Blocks /\ Covers(m, a) /\ u.state[m] \in Leaf
    BY <1>3, LeafIsUnique
  <2>3. a \in Blocks
    BY AddressIsBlock DEF Space
  <2> HIDE DEF l, m
  <2>4. ASSUME Covers(b, m)
        PROVE  FreeIn(t, a)
    <3>1. l = b
      BY <2>1, <2>2, <2>3, <2>4, CoversTransitive DEF Leaf
    <3> QED BY <1>4, <3>1, CoversReflexive DEF FreeIn, HolderIn, UntilIn, l
  <2>5. CASE m = c
    <3>1. HolderIn(u, a) = n /\ UntilIn(u, a) = 0
      BY <1>2, <1>4, <2>2, <2>5 DEF HolderIn, UntilIn, m
    <3> QED BY <2>4, <2>5, <3>1 DEF FreeIn
  <2>6. CASE m # c /\ Beside(m, b, c)
    <3>1. Covers(b, m) /\ ~Covers(m, c)
      BY <2>6, BesideIsInside
    <3>2. FreeIn(u, a)
      BY <1>2, <1>4, <2>2, <2>6, <3>1 DEF FreeIn, HolderIn, UntilIn, m
    <3> QED BY <2>4, <3>1, <3>2 DEF SameIn, FreeIn
  <2>7. CASE m # c /\ ~Beside(m, b, c)
    <3>1. u.state[m] = t.state[m] /\ u.node[m] = t.node[m] /\ u.releaseAt[m] = t.releaseAt[m]
      BY <1>2, <2>2, <2>7 DEF Leaf
    <3>2. m = l
      BY <2>1, <2>2, <3>1
    <3> QED BY <3>1, <3>2 DEF SameIn, HolderIn, UntilIn, l, m
  <2> QED BY <2>5, <2>6, <2>7
<1> QED BY <1>5, <1>6 DEF u

\* An allocating call gives free addresses to the node it is made for, or none.
LEMMA GrantAddresses ==
  ASSUME NEW t, WellFormed(t, Root), Marked(t),
         NEW choice, FromFree(t, choice), NEW n \in Nodes
  PROVE  /\ Marked(Grant(t, choice, n))
         /\ \A a \in Space :
              \/ SameIn(t, Grant(t, choice, n), a)
              \/ /\ HolderIn(t, a) = "Free"
                 /\ HolderIn(Grant(t, choice, n), a) = n /\ UntilIn(Grant(t, choice, n), a) = 0
<1>1. CASE choice = {}
  BY <1>1 DEF Grant, SameIn
<1>2. CASE choice # {}
  <2> DEFINE g == CHOOSE g \in choice : TRUE
  <2>1. g \in choice
    BY <1>2
  <2>2. Grant(t, choice, n) = Take(t, g.from, g.take, n)
    BY <1>2 DEF Grant
  <2> HIDE DEF g
  <2> QED BY <2>1, <2>2, TakeAddresses DEF FromFree
<1> QED BY <1>1, <1>2

\* Free under quarantine withholds the addresses of the block and no others.
LEMMA HoldAddresses ==
  ASSUME NEW t, WellFormed(t, Root), Marked(t),
         NEW b \in Blocks, t.state[b] = "Allocated", NEW at \in Nat
  PROVE  /\ Marked(Hold(t, b, at))
         /\ \A a \in Space :
              \/ LeafIn(t, a) # b /\ SameIn(t, Hold(t, b, at), a)
              \/ /\ LeafIn(t, a) = b
                 /\ HolderIn(Hold(t, b, at), a) = "Quarantined"
                 /\ UntilIn(Hold(t, b, at), a) = at
<1> DEFINE u == Hold(t, b, at)
<1>1. t \in Trees
  BY DEF WellFormed
<1>2. \A x \in Blocks :
        /\ u.state[x] = IF x = b THEN "Quarantined" ELSE t.state[x]
        /\ u.node[x] = IF x = b THEN NoNode ELSE t.node[x]
        /\ u.releaseAt[x] = IF x = b THEN at ELSE t.releaseAt[x]
  BY <1>1 DEF Hold, Trees
<1>3. WellFormed(u, Root)
  BY RootAssumption, HoldWellFormed
<1> HIDE DEF u
<1>4. Marked(u)
  BY <1>2 DEF Marked
<1>5. ASSUME NEW a \in Space
      PROVE  \/ LeafIn(t, a) # b /\ SameIn(t, u, a)
             \/ LeafIn(t, a) = b /\ HolderIn(u, a) = "Quarantined" /\ UntilIn(u, a) = at
  <2>1. /\ LeafIn(u, a) \in Blocks /\ Covers(LeafIn(u, a), a)
        /\ u.state[LeafIn(u, a)] \in Leaf
    BY <1>3, LeafIsUnique
  <2>2. t.state[LeafIn(u, a)] \in Leaf
    BY <1>2, <2>1 DEF Leaf
  <2>3. LeafIn(u, a) = LeafIn(t, a)
    BY <2>1, <2>2, LeafIsUnique
  <2> QED BY <1>2, <2>1, <2>3 DEF SameIn, HolderIn, UntilIn
<1> QED BY <1>4, <1>5 DEF u

-----------------------------------------------------------------------------

\* What the refinement needs to know of the allocator.
RInv == IInv /\ Marked(tree)

\* The refinement mapping reads the tree through these operators.
LEMMA MappingIsHolder ==
  /\ Space = Addresses \cap Subtree[Root]
  /\ AddrHolder = [a \in Space |-> HolderIn(tree, a)]
  /\ AddrUntil = [a \in Space |-> UntilIn(tree, a)]
BY DEF AddrHolder, AddrUntil, LeafOf, Space, HolderIn, UntilIn, LeafIn

\* And in the next state.
LEMMA MappingIsHolderNext ==
  /\ AddrHolder' = [a \in Space |-> HolderIn(tree', a)]
  /\ AddrUntil' = [a \in Space |-> UntilIn(tree', a)]
BY DEF AddrHolder, AddrUntil, LeafOf, Space, HolderIn, UntilIn, LeafIn

\* A new allocator is an address space with every address unused.
LEMMA InitIsASInit == Init => RInv /\ Abstract!ASInit
<1> SUFFICES ASSUME Init
             PROVE  RInv /\ Abstract!ASInit
  OBVIOUS
<1>1. IInv
  BY InitIInv
<1>2. /\ tree = NewTree(Root) /\ now = 0
      /\ \A b \in Blocks : /\ tree.state[b] \in {"Free", "Absent"}
                           /\ tree.releaseAt[b] = 0
  BY DEF Init, NewTree
<1>3. Marked(tree)
  BY <1>2 DEF Marked
<1>4. ASSUME NEW a \in Space
      PROVE  FreeIn(tree, a)
  BY <1>1, <1>2, LeafIsUnique DEF IInv, FreeIn, HolderIn, UntilIn, Leaf
<1>5. AddrHolder = [a \in Space |-> "Free"] /\ AddrUntil = [a \in Space |-> 0]
  BY <1>4, MappingIsHolder DEF FreeIn
<1> QED BY <1>1, <1>2, <1>3, <1>5, MappingIsHolder DEF RInv, Abstract!ASInit

\* What holds of the tree's addresses holds of the abstract ones.
LEMMA MappedAddress ==
  ASSUME NEW a \in Space
  PROVE  /\ AddrHolder[a] = HolderIn(tree, a) /\ AddrUntil[a] = UntilIn(tree, a)
         /\ AddrHolder'[a] = HolderIn(tree', a) /\ AddrUntil'[a] = UntilIn(tree', a)
         /\ SameIn(tree, tree', a) => Abstract!Keeps(a)
         /\ ExpiredIn(tree, a, now) => Abstract!Available(a)
         /\ ExpiredIn(tree, a, now) /\ FreeIn(tree', a) => Abstract!BecomesFree(a)
<1>1. /\ AddrHolder[a] = HolderIn(tree, a) /\ AddrUntil[a] = UntilIn(tree, a)
      /\ AddrHolder'[a] = HolderIn(tree', a) /\ AddrUntil'[a] = UntilIn(tree', a)
  BY MappingIsHolder, MappingIsHolderNext
<1>2. ExpiredIn(tree, a, now) => Abstract!Available(a)
  BY <1>1 DEF ExpiredIn, Abstract!Available
<1> QED BY <1>1, <1>2 DEF SameIn, FreeIn, Abstract!Keeps, Abstract!BecomesFree

\* A step that moves no address stutters.
LEMMA NoAddressMoves ==
  ASSUME \A a \in Space : SameIn(tree, tree', a), now' = now
  PROVE  UNCHANGED Abstract!asVars
<1>1. AddrHolder' = AddrHolder /\ AddrUntil' = AddrUntil
  BY MappingIsHolder, MappingIsHolderNext DEF SameIn
<1> QED BY <1>1 DEF Abstract!asVars

\* A call that allocates, after a sweep, is a Grant.
LEMMA AllocatingIsGrant ==
  ASSUME RInv, NEW n \in Nodes, NEW choice, FromFree(Swept, choice),
         tree' = Grant(Swept, choice, n), now' = now
  PROVE  Marked(tree') /\ Abstract!Grant(n)
<1>1. WellFormed(tree, Root) /\ Marked(tree)
  BY DEF RInv, IInv
<1>2. WellFormed(Swept, Root)
  BY <1>1, RootAssumption, SweepWellFormed DEF Swept
<1>3. /\ Marked(Swept)
      /\ \A a \in Space : \/ SameIn(tree, Swept, a)
                          \/ ExpiredIn(tree, a, now) /\ FreeIn(Swept, a)
  BY <1>1, SweepAddresses DEF Swept
<1>4. /\ Marked(tree')
      /\ \A a \in Space : \/ SameIn(Swept, tree', a)
                          \/ /\ HolderIn(Swept, a) = "Free"
                             /\ HolderIn(tree', a) = n /\ UntilIn(tree', a) = 0
  BY <1>2, <1>3, GrantAddresses
<1>5. ASSUME NEW a \in Space
      PROVE  \/ Abstract!Keeps(a)
             \/ Abstract!BecomesFree(a)
             \/ Abstract!Available(a) /\ AddrHolder'[a] = n /\ AddrUntil'[a] = 0
  <2>1. CASE SameIn(Swept, tree', a)
    BY <1>3, <2>1, MappedAddress DEF SameIn, FreeIn
  <2>2. CASE /\ HolderIn(Swept, a) = "Free"
             /\ HolderIn(tree', a) = n /\ UntilIn(tree', a) = 0
    <3>1. ExpiredIn(tree, a, now)
      BY <1>3, <2>2 DEF SameIn, ExpiredIn
    <3> QED BY <2>2, <3>1, MappedAddress
  <2> QED BY <1>4, <2>1, <2>2
<1> QED BY <1>4, <1>5 DEF Abstract!Grant, Space

\* Reserve is a Grant of addresses that are free now.
LEMMA ReserveIsGrant ==
  ASSUME RInv, NEW n \in Nodes, NEW c \in Blocks, Reserve(c, n)
  PROVE  Marked(tree') /\ Abstract!Grant(n)
<1>1. WellFormed(tree, Root) /\ Marked(tree)
  BY DEF RInv, IInv
<1>2. FromFree(tree, ReserveChoice(tree, c))
  BY ReserveFromFree
<1>3. /\ Marked(tree')
      /\ \A a \in Space : \/ SameIn(tree, tree', a)
                          \/ /\ HolderIn(tree, a) = "Free"
                             /\ HolderIn(tree', a) = n /\ UntilIn(tree', a) = 0
  BY <1>1, <1>2, GrantAddresses DEF Reserve
<1>4. ASSUME NEW a \in Space
      PROVE  \/ Abstract!Keeps(a)
             \/ Abstract!Available(a) /\ AddrHolder'[a] = n /\ AddrUntil'[a] = 0
  BY <1>3, MappedAddress DEF ExpiredIn
<1> QED BY <1>3, <1>4 DEF Abstract!Grant, Space, Reserve

\* A release is its holder's GiveBack of all the block's addresses at once.
LEMMA ReleaseIsGiveBack ==
  ASSUME RInv, NEW b \in Blocks, tree.state[b] = "Allocated",
         tree' = Release(tree, {b}), now' = now
  PROVE  /\ Marked(tree')
         /\ tree.node[b] \in Nodes /\ Abstract!GiveBack(tree.node[b])
<1>1. WellFormed(tree, Root) /\ Marked(tree)
  BY DEF RInv, IInv
<1>2. /\ Marked(tree')
      /\ \A a \in Space : SameIn(tree, tree', a) \/ (LeafIn(tree, a) = b /\ FreeIn(tree', a))
  BY <1>1, ReleaseAddresses
<1>3. ASSUME NEW a \in Space
      PROVE  \/ Abstract!Keeps(a)
             \/ AddrHolder[a] = tree.node[b] /\ AddrHolder'[a] = "Free" /\ AddrUntil'[a] = 0
  BY <1>2, MappedAddress DEF FreeIn, HolderIn
<1>4. tree.node[b] \in Nodes
  BY <1>1 DEF Marked
<1> QED BY <1>2, <1>3, <1>4 DEF Abstract!GiveBack, Space

\* Free under quarantine is its holder's GiveBack of the block into a quarantine.
LEMMA HoldIsGiveBack ==
  ASSUME RInv, NEW b \in Blocks, tree.state[b] = "Allocated", quarantine > 0,
         tree' = Hold(tree, b, now + quarantine), now' = now
  PROVE  /\ Marked(tree')
         /\ \/ tree.node[b] \in Nodes /\ Abstract!GiveBack(tree.node[b])
            \/ UNCHANGED Abstract!asVars
<1>1. WellFormed(tree, Root) /\ Marked(tree) /\ now \in Nat /\ quarantine \in Nat
  BY DEF RInv, IInv
<1> DEFINE at == now + quarantine
<1>2. at \in Nat /\ at > now
  BY <1>1
<1> HIDE DEF at
<1>3. tree' = Hold(tree, b, at)
  BY DEF at
<1>4. /\ Marked(tree')
      /\ \A a \in Space : \/ LeafIn(tree, a) # b /\ SameIn(tree, tree', a)
                          \/ /\ LeafIn(tree, a) = b
                             /\ HolderIn(tree', a) = "Quarantined" /\ UntilIn(tree', a) = at
  BY <1>1, <1>2, <1>3, HoldAddresses
<1>5. CASE \E a \in Space : LeafIn(tree, a) = b
  <2>1. PICK a \in Space : LeafIn(tree, a) = b
    BY <1>5
  <2>2. AddrUntil'[a] = at
    BY <1>4, <2>1, MappedAddress
  <2>3. ASSUME NEW c \in Space
        PROVE  \/ Abstract!Keeps(c)
               \/ /\ AddrHolder[c] = tree.node[b] /\ AddrHolder'[c] = "Quarantined"
                  /\ AddrUntil'[c] = AddrUntil'[a] /\ AddrUntil'[c] > now
    <3>1. CASE LeafIn(tree, c) # b
      BY <1>4, <3>1, MappedAddress
    <3>2. CASE LeafIn(tree, c) = b
      BY <1>2, <1>4, <2>2, <3>2, MappedAddress DEF HolderIn
    <3> QED BY <3>1, <3>2
  <2>4. tree.node[b] \in Nodes
    BY <1>1 DEF Marked
  <2> QED BY <1>4, <2>3, <2>4 DEF Abstract!GiveBack, Space
<1>6. CASE \A a \in Space : LeafIn(tree, a) # b
  BY <1>4, <1>6, NoAddressMoves
<1> QED BY <1>5, <1>6

\* A sweep is a Grant that grants nothing; without nodes it does nothing.
LEMMA SweepIsGrant ==
  ASSUME RInv, tree' = Swept, now' = now
  PROVE  /\ Marked(tree')
         /\ (\E o \in Nodes : Abstract!Grant(o)) \/ UNCHANGED Abstract!asVars
<1>1. WellFormed(tree, Root) /\ Marked(tree)
  BY DEF RInv, IInv
<1>2. /\ Marked(tree')
      /\ \A a \in Space : \/ SameIn(tree, tree', a)
                          \/ /\ ExpiredIn(tree, a, now) /\ FreeIn(tree', a)
                             /\ Nodes # {}
  BY <1>1, SweepAddresses DEF Swept
<1>3. CASE Nodes = {}
  BY <1>2, <1>3, NoAddressMoves
<1>4. CASE Nodes # {}
  <2>1. PICK o \in Nodes : TRUE
    BY <1>4
  <2>2. \A a \in Space : Abstract!Keeps(a) \/ Abstract!BecomesFree(a)
    BY <1>2, MappedAddress
  <2>3. Abstract!Grant(o)
    BY <2>2 DEF Abstract!Grant, Space
  <2> QED BY <1>2, <2>3
<1> QED BY <1>3, <1>4

\* Defragment merges what the sweep leaves and moves nothing more.
LEMMA DefragmentIsGrant ==
  ASSUME RInv, tree' = MergeAll(Swept), now' = now
  PROVE  /\ Marked(tree')
         /\ (\E o \in Nodes : Abstract!Grant(o)) \/ UNCHANGED Abstract!asVars
<1>1. WellFormed(tree, Root) /\ Marked(tree)
  BY DEF RInv, IInv
<1>2. WellFormed(Swept, Root)
  BY <1>1, RootAssumption, SweepWellFormed DEF Swept
<1>3. /\ Marked(Swept)
      /\ \A a \in Space : \/ SameIn(tree, Swept, a)
                          \/ /\ ExpiredIn(tree, a, now) /\ FreeIn(Swept, a)
                             /\ Nodes # {}
  BY <1>1, SweepAddresses DEF Swept
<1>4. Marked(tree') /\ \A a \in Space : SameIn(Swept, tree', a)
  BY <1>2, <1>3, MergeAllAddresses
<1>5. \A a \in Space : \/ SameIn(tree, tree', a)
                       \/ /\ ExpiredIn(tree, a, now) /\ FreeIn(tree', a)
                          /\ Nodes # {}
  BY <1>3, <1>4 DEF SameIn, FreeIn
<1>6. CASE Nodes = {}
  BY <1>4, <1>5, <1>6, NoAddressMoves
<1>7. CASE Nodes # {}
  <2>1. PICK o \in Nodes : TRUE
    BY <1>7
  <2>2. \A a \in Space : Abstract!Keeps(a) \/ Abstract!BecomesFree(a)
    BY <1>5, MappedAddress
  <2>3. Abstract!Grant(o)
    BY <2>2 DEF Abstract!Grant, Space
  <2> QED BY <1>4, <2>3
<1> QED BY <1>6, <1>7

\* Every step of the allocator is a step of the address space, or none.
LEMMA NextIsASNext ==
  RInv /\ [Next]_vars => RInv' /\ [Abstract!ASNext]_(Abstract!asVars)
<1> SUFFICES ASSUME RInv, [Next]_vars
             PROVE  Marked(tree') /\ (Abstract!ASNext \/ UNCHANGED Abstract!asVars)
  BY NextIInv DEF RInv
<1>1. WellFormed(tree, Root) /\ Marked(tree) /\ now \in Nat
  BY DEF RInv, IInv
<1>2. WellFormed(Swept, Root)
  BY <1>1, RootAssumption, SweepWellFormed DEF Swept
<1>3. ASSUME NEW o \in Nodes, Abstract!Grant(o) \/ Abstract!GiveBack(o)
      PROVE  Abstract!ASNext
  BY <1>3 DEF Abstract!ASNext
<1>4. ASSUME NEW n \in Nodes, NEW req \in Requests, Allocate(req, n) \/ AllocateSpread(req, n)
      PROVE  Marked(tree') /\ Abstract!ASNext
  <2>1. /\ FromFree(Swept, AllocateChoice(Root, Swept, req))
        /\ FromFree(Swept, SpreadChoice(Root, Swept, req))
    BY <1>2, RootAssumption, AllocateFromFree, SpreadFromFree
  <2> QED BY <1>3, <1>4, <2>1, AllocatingIsGrant DEF Allocate, AllocateSpread
<1>5. ASSUME NEW n \in Nodes, NEW l \in 0..Depth, AllocatePrefix(l, n)
      PROVE  Marked(tree') /\ Abstract!ASNext
  <2>1. FromFree(Swept, PrefixChoice(Root, Swept, l))
    BY <1>2, RootAssumption, PrefixFromFree
  <2> QED BY <1>3, <1>5, <2>1, AllocatingIsGrant DEF AllocatePrefix
<1>6. ASSUME NEW n \in Nodes, NEW b \in Blocks, AllocateBuddyOf(b, n)
      PROVE  Marked(tree') /\ Abstract!ASNext
  <2>1. FromFree(Swept, BuddyChoice(Swept, b))
    BY BuddyFromFree
  <2> QED BY <1>3, <1>6, <2>1, AllocatingIsGrant DEF AllocateBuddyOf
<1>7. ASSUME NEW n \in Nodes, NEW b \in Blocks, NEW req \in Requests, AllocateFromBuddy(b, req, n)
      PROVE  Marked(tree') /\ Abstract!ASNext
  <2>1. FromFree(Swept, FromBuddyChoice(Root, Swept, b, req, n))
    BY RootAssumption, FromBuddyFromFree
  <2> QED BY <1>3, <1>7, <2>1, AllocatingIsGrant DEF AllocateFromBuddy
<1>8. ASSUME NEW n \in Nodes, NEW c \in Blocks, Reserve(c, n)
      PROVE  Marked(tree') /\ Abstract!ASNext
  BY <1>3, <1>8, ReserveIsGrant
<1>9. ASSUME NEW b \in Blocks, Free(b)
      PROVE  Marked(tree') /\ (Abstract!ASNext \/ UNCHANGED Abstract!asVars)
  BY <1>3, <1>9, HoldIsGiveBack, ReleaseIsGiveBack DEF Free
<1>10. ASSUME NEW b \in Blocks, FreeNow(b)
       PROVE  Marked(tree') /\ Abstract!ASNext
  BY <1>3, <1>10, ReleaseIsGiveBack DEF FreeNow
<1>11. CASE SweepNow
  BY <1>3, <1>11, SweepIsGrant DEF SweepNow
<1>12. CASE Defragment
  BY <1>3, <1>12, DefragmentIsGrant DEF Defragment
<1>13. ASSUME NEW d \in Quarantines, SetQuarantine(d)
       PROVE  Marked(tree') /\ UNCHANGED Abstract!asVars
  BY <1>1, <1>13, NoAddressMoves DEF SetQuarantine, SameIn
<1>14. CASE Tick
  <2>1. AddrHolder' = AddrHolder /\ AddrUntil' = AddrUntil
    BY <1>14, MappingIsHolder, MappingIsHolderNext DEF Tick
  <2> QED BY <1>1, <1>14, <2>1 DEF Tick, ClockAdvances, Abstract!ASNext, Abstract!TimePasses
<1>15. CASE UNCHANGED vars
  BY <1>1, <1>15, NoAddressMoves DEF vars, SameIn
<1> QED
  BY <1>4, <1>5, <1>6, <1>7, <1>8, <1>9, <1>10, <1>11, <1>12, <1>13, <1>14, <1>15 DEF Next

\* Address by address the allocator does what an address space promises: through
\* any sequence of splits, merges, sweeps and quarantines no address changes hands
\* without being freed, and none leaves its quarantine early.
THEOREM AllocatorIsAddressSpace == Spec => ImplementsAddressSpace
BY InitIsASInit, NextIsASNext, PTL DEF Spec, ImplementsAddressSpace, Abstract!ASSpec

-----------------------------------------------------------------------------
(* Growing in place *)

\* x and y agree before bit k; x is below y, and they agree before bit k.
Agree(x, y, k) == \A i \in 1..(k - 1) : x[i] = y[i]
BelowFrom(x, y, k) == \E i \in k..Depth : x[i] < y[i] /\ Agree(x, y, i)

\* Of two paths of addresses that agree before bit k, one with the other above it
\* at k, all the addresses between agree with them before k.
LEMMA BetweenPaths ==
  ASSUME NEW x \in [1..Depth -> Bits], NEW a \in [1..Depth -> Bits], NEW y \in [1..Depth -> Bits],
         NEW k \in 1..Depth, Agree(x, y, k), Lower(x, a), Lower(a, y)
  PROVE  /\ Agree(a, x, k)
         /\ x[k] <= a[k] /\ a[k] <= y[k]
         /\ a[k] = x[k] => BelowFrom(x, a, k + 1)
         /\ a[k] = y[k] => BelowFrom(a, y, k + 1)
<1> USE DEF Agree, BelowFrom
<1>1. Depth \in Nat /\ Len(x) = Depth /\ Len(a) = Depth
  BY LevelsAssumption
<1>2. PICK i \in 1..Depth : x[i] < a[i] /\ \A j \in 1..(i - 1) : x[j] = a[j]
  BY <1>1 DEF Lower
<1>3. PICK m \in 1..Depth : a[m] < y[m] /\ \A j \in 1..(m - 1) : a[j] = y[j]
  BY <1>1 DEF Lower
<1>4. \A j \in 1..Depth : x[j] \in Int /\ a[j] \in Int /\ y[j] \in Int
  BY DEF Bits
<1>5. i >= k /\ m >= k
  <2>1. ASSUME i < k PROVE FALSE
    <3>1. i \in 1..(k - 1) /\ x[i] = y[i] /\ x[i] < a[i]
      BY <1>1, <1>2, <2>1
    <3>2. CASE m > i
      <4>1. a[i] = y[i]
        BY <1>1, <1>3, <3>2
      <4> QED BY <1>4, <3>1, <4>1
    <3>3. CASE m = i
      BY <1>3, <1>4, <3>1, <3>3
    <3>4. CASE m < i
      <4>1. x[m] = a[m] /\ x[m] = y[m]
        BY <1>1, <1>2, <2>1, <3>4
      <4> QED BY <1>3, <1>4, <4>1
    <3> QED BY <1>1, <3>2, <3>3, <3>4
  <2>2. ASSUME m < k, i >= k PROVE FALSE
    <3>1. x[m] = a[m] /\ x[m] = y[m]
      BY <1>1, <1>2, <2>2
    <3> QED BY <1>3, <1>4, <3>1
  <2> QED BY <1>1, <2>1, <2>2
<1>6. \A j \in 1..(k - 1) : a[j] = x[j]
  BY <1>1, <1>2, <1>5
<1>7. x[k] <= a[k] /\ (a[k] = x[k] => i > k)
  <2>1. CASE i = k
    BY <1>2, <1>4, <2>1
  <2>2. CASE i > k
    BY <1>1, <1>2, <1>4, <2>2
  <2> QED BY <1>1, <1>5, <2>1, <2>2
<1>8. a[k] <= y[k] /\ (a[k] = y[k] => m > k)
  <2>1. CASE m = k
    BY <1>3, <1>4, <2>1
  <2>2. CASE m > k
    BY <1>1, <1>3, <1>4, <2>2
  <2> QED BY <1>1, <1>5, <2>1, <2>2
<1> QED BY <1>1, <1>2, <1>3, <1>6, <1>7, <1>8

\* The addresses between b and the piece of Buddy(s) nearest to s lie in s.
LEMMA NearestIsNext ==
  ASSUME NEW b \in Blocks, NEW s \in Blocks, Covers(s, b), Len(s) > 0,
         NEW l \in 0..Depth, NEW c,
         c = IF Len(s) < l THEN Extend(Buddy(s), l, s[Len(s)]) ELSE Buddy(s),
         NEW a \in Addresses, Between(b, a, c)
  PROVE  Covers(s, a)
<1> DEFINE k == Len(s)
           x == Extend(b, Depth, 0)
           y == Extend(c, Depth, 0)
<1>1. /\ Depth \in Nat /\ k \in 1..Depth /\ Len(b) \in k..Depth
      /\ s \in [1..k -> Bits] /\ b \in [1..Len(b) -> Bits]
      /\ a \in [1..Depth -> Bits] /\ Len(a) = Depth
      /\ \A i \in 1..k : b[i] = s[i]
  BY BlockIsSeq, LevelsAssumption, AddressIsBlock DEF Covers, Addresses
<1>2. /\ Buddy(s) \in Blocks /\ Len(Buddy(s)) = k
      /\ \A i \in 1..k : Buddy(s)[i] = IF i = k THEN 1 - s[i] ELSE s[i]
  BY BuddyIsBlock
<1>3. /\ Len(c) \in k..Depth /\ c \in [1..Len(c) -> Bits]
      /\ \A i \in 1..k : c[i] = Buddy(s)[i]
      /\ \A i \in (k + 1)..Len(c) : c[i] = s[k]
  <2>1. CASE k < l
    <3>1. c = Extend(Buddy(s), l, s[k]) /\ s[k] \in Bits
      BY <1>1, <2>1
    <3>2. c \in Blocks /\ Len(c) = l /\ Covers(Buddy(s), c)
      BY <1>1, <1>2, <2>1, <3>1, ExtendIsBlock
    <3>3. \A i \in (k + 1)..l : c[i] = s[k]
      BY <1>1, <1>2, <3>1 DEF Extend
    <3>4. \A i \in 1..k : c[i] = Buddy(s)[i]
      BY <1>2, <3>2 DEF Covers
    <3>5. c \in [1..Len(c) -> Bits] /\ Len(c) \in k..Depth
      BY <1>1, <2>1, <3>2, BlockIsSeq
    <3> QED BY <3>2, <3>3, <3>4, <3>5
  <2>2. CASE ~(k < l)
    <3>1. c = Buddy(s)
      BY <2>2
    <3>2. c \in [1..Len(c) -> Bits] /\ Len(c) = k
      BY <1>2, <3>1, BlockIsSeq
    <3> QED BY <1>1, <3>1, <3>2
  <2> QED BY <2>1, <2>2
<1>4. /\ x \in [1..Depth -> Bits] /\ y \in [1..Depth -> Bits]
      /\ \A i \in 1..Depth : x[i] = IF i <= Len(b) THEN b[i] ELSE 0
      /\ \A i \in 1..Depth : y[i] = IF i <= Len(c) THEN c[i] ELSE 0
  BY <1>1, <1>3 DEF Extend, Bits
<1>5. /\ ~Covers(c, a)
      /\ (Lower(x, a) /\ Lower(a, y)) \/ (Lower(y, a) /\ Lower(a, x))
  BY DEF Between
<1> HIDE DEF x, y, k
<1>6. /\ \A i \in 1..(k - 1) : x[i] = s[i] /\ y[i] = s[i]
      /\ x[k] = s[k] /\ y[k] = 1 - s[k]
  <2>1. \A i \in 1..k : i \in 1..Depth /\ i <= Len(b) /\ i <= Len(c)
    BY <1>1, <1>3
  <2>2. \A i \in 1..k : x[i] = s[i] /\ y[i] = IF i = k THEN 1 - s[i] ELSE s[i]
    BY <1>1, <1>2, <1>3, <1>4, <2>1
  <2> QED BY <1>1, <2>2
<1>7. s[k] \in {0, 1} /\ a[k] \in {0, 1}
  BY <1>1 DEF Bits
<1>8. ASSUME \A i \in 1..(k - 1) : a[i] = s[i], a[k] = s[k]
      PROVE  Covers(s, a)
  BY <1>1, <1>8 DEF Covers, k
\* b lies below: c starts at the lowest address of the buddy.
<1>9. CASE Lower(x, a) /\ Lower(a, y)
  <2>1. /\ \A i \in 1..(k - 1) : a[i] = s[i]
        /\ x[k] <= a[k] /\ a[k] <= y[k]
        /\ a[k] = y[k] => \E i \in (k + 1)..Depth : a[i] < y[i]
    <3>1. Agree(x, y, k)
      BY <1>6 DEF Agree
    <3>2. a \in [1..Depth -> Bits] /\ k \in 1..Depth
      BY <1>1
    <3>3. Agree(a, x, k) /\ x[k] <= a[k] /\ a[k] <= y[k] /\ (a[k] = y[k] => BelowFrom(a, y, k + 1))
      BY <1>4, <1>9, <3>1, <3>2, BetweenPaths
    <3> QED BY <1>6, <3>3 DEF Agree, BelowFrom
  <2>2. s[k] = 0
    BY <1>6, <1>7, <2>1
  <2>3. \A i \in (k + 1)..Depth : y[i] = 0 /\ a[i] \in {0, 1}
    <3>1. \A i \in (k + 1)..Depth : i \in 1..Depth /\ (i <= Len(c) => c[i] = 0)
      BY <1>1, <1>3, <2>2
    <3> QED BY <1>1, <1>4, <3>1 DEF Bits
  <2>4. a[k] # y[k]
    BY <2>1, <2>3
  <2> QED BY <1>6, <1>7, <1>8, <2>1, <2>2, <2>4
\* b lies above: c reaches up to the highest address of the buddy.
<1>10. CASE Lower(y, a) /\ Lower(a, x)
  <2>1. /\ \A i \in 1..(k - 1) : a[i] = s[i]
        /\ y[k] <= a[k] /\ a[k] <= x[k]
        /\ a[k] = y[k] => \E i \in (k + 1)..Depth : y[i] < a[i] /\ \A j \in 1..(i - 1) : y[j] = a[j]
    <3>1. Agree(y, x, k)
      BY <1>6 DEF Agree
    <3>2. a \in [1..Depth -> Bits] /\ k \in 1..Depth
      BY <1>1
    <3>3. Agree(a, y, k) /\ y[k] <= a[k] /\ a[k] <= x[k] /\ (a[k] = y[k] => BelowFrom(y, a, k + 1))
      BY <1>4, <1>10, <3>1, <3>2, BetweenPaths
    <3> QED BY <1>6, <3>3 DEF Agree, BelowFrom
  <2>2. s[k] = 1
    BY <1>6, <1>7, <2>1
  <2>3. ASSUME a[k] = y[k] PROVE FALSE
    <3>1. PICK i \in (k + 1)..Depth : y[i] < a[i] /\ \A j \in 1..(i - 1) : y[j] = a[j]
      BY <2>1, <2>3
    <3>2. y[i] # 1
      BY <1>1, <3>1 DEF Bits
    <3>3. i > Len(c)
      BY <1>1, <1>3, <1>4, <2>2, <3>1, <3>2
    <3>4. \A j \in 1..Len(c) : c[j] = a[j]
      BY <1>1, <1>3, <1>4, <3>1, <3>3
    <3> QED BY <1>1, <1>3, <1>5, <3>4 DEF Covers
  <2> QED BY <1>6, <1>7, <1>8, <2>1, <2>2, <2>3
<1> QED BY <1>5, <1>9, <1>10

\* The sweep moves no block that is handed out.
LEMMA SweepKeepsAllocated ==
  ASSUME NEW t \in Trees, NEW at, NEW m \in Blocks, Sweep(t, at).state[m] = "Allocated"
  PROVE  t.state[m] = "Allocated" /\ Sweep(t, at).node[m] = t.node[m]
<1>1. CASE Due(t, at) = {}
  BY <1>1 DEF Sweep
<1>2. CASE Due(t, at) # {}
  <2> DEFINE W == {p \in UNION {Upward[d] : d \in Due(t, at)} : WhollyFree(t, Due(t, at), p)}
  <2>1. W \in SUBSET Blocks
    BY TablesAreCovers DEF Due, Trees
  <2>2. Sweep(t, at) = Collapse(t, W)
    BY <1>2 DEF Sweep, Release
  <2> HIDE DEF W
  <2>3. ~Inside(m, W) /\ m \notin W /\ t.state[m] = "Allocated"
    BY <2>1, <2>2, CollapseFields
  <2> QED BY <2>1, <2>2, <2>3, CollapseMarks
<1> QED BY <1>1, <1>2

\* Around b, inside the range Anchor finds, everything else is the node's.
LEMMA AnchorIsOwned ==
  ASSUME NEW t, WellFormed(t, Root), NEW b \in Blocks, NEW n, NEW s \in Anchor(t, b, n),
         NEW a \in Addresses, Covers(s, a), ~Covers(b, a)
  PROVE  \E m \in Blocks : Covers(m, a) /\ t.state[m] = "Allocated" /\ t.node[m] = n
<1>1. /\ s \in Blocks /\ Covers(s, b)
      /\ \A z \in Upward[b] \ Upward[s] : OwnedBy(t, Buddy(z), n)
  BY TablesAreCovers DEF Anchor
<1>2. PICK x \in Blocks : Beside(x, s, b) /\ Covers(x, a)
  BY <1>1, TakeCovers
<1>3. PICK z \in Blocks : Covers(z, b) /\ ~Covers(z, s) /\ x = Buddy(z)
  BY <1>2 DEF Beside
<1>4. OwnedBy(t, x, n)
  BY <1>1, <1>3, TablesAreCovers
<1>5. a \in Blocks /\ IsTree(t, Root) /\ Complete(t, Root) /\ Covers(Root, x)
  BY <1>4, AddressIsBlock DEF WellFormed, IsTree, OwnedBy
<1>6. Covers(Root, a)
  BY <1>2, <1>5, RootAssumption, CoversTransitive
<1>7. PICK m \in Blocks : Covers(m, a) /\ t.state[m] \in Leaf
  BY <1>5, <1>6 DEF Complete
<1>8. Covers(x, m)
  <2>1. Covers(x, m) \/ Covers(m, x)
    BY <1>2, <1>5, <1>7, CoversComparable
  <2>2. ASSUME Covers(m, x), m # x PROVE FALSE
    <3>1. Covers(Root, m)
      BY <1>5, <1>7 DEF IsTree, Leaf
    <3>2. t.state[m] = "Split"
      BY <1>4, <1>5, <2>2, <3>1 DEF IsTree, OwnedBy
    <3> QED BY <1>7, <3>2 DEF Leaf
  <2> QED BY <2>1, <2>2, CoversReflexive
<1>9. t.state[m] = "Allocated" /\ t.node[m] = n
  BY <1>4, <1>7, <1>8, TablesAreCovers DEF OwnedBy, Leaf
<1> QED BY <1>7, <1>9

\* AllocateSpread splits the block it takes off, and leaves its buddy.
LEMMA SpreadLeavesBuddy ==
  ASSUME IInv
  PROVE  SpreadLeavesBuddyFree
<1> USE RootAssumption
<1>1. WellFormed(Swept, Root)
  BY SweepWellFormed DEF Swept, IInv
<1> SUFFICES ASSUME NEW req \in Requests, NEW s \in SpreadChoice(Root, Swept, req), NEW n \in Nodes
             PROVE  LET after == Take(Swept, s.from, s.take, n)
                    IN  after.state[Buddy(s.take)] = "Free" /\ Buddy(s.take) \in after.freeBlocks
  BY DEF SpreadLeavesBuddyFree
<1>2. PICK l \in LevelFor(Root, req) : s \in Fit(Swept, l, l - 1)
  BY DEF SpreadChoice
<1>3. PICK b \in FirstFit(Swept, l - 1) : s = [from |-> b, take |-> Extend(b, l, 0)]
  BY <1>2 DEF Fit
<1>4. l \in 0..Depth /\ b \in Blocks /\ Len(b) <= l - 1 /\ Len(b) \in Nat
  BY <1>1, LevelsAreLevels, BlockIsSeq, LevelsAssumption DEF LevelFor, FirstFit, WellFormed, Trees
<1> DEFINE c == Extend(b, l, 0)
<1>5. c \in Blocks /\ Len(c) = l /\ Covers(b, c)
  BY <1>4, LevelsAssumption, ExtendIsBlock DEF Bits
<1>6. s.from = b /\ s.take = c
  BY <1>3
<1> HIDE DEF c
<1>7. Beside(Buddy(c), b, c)
  <2>1. Covers(c, c) /\ ~Covers(c, b)
    BY <1>4, <1>5, CoversReflexive, LevelsAssumption DEF Covers
  <2> QED BY <1>5, <2>1 DEF Beside
<1>8. /\ Buddy(c) \in Blocks /\ Buddy(c) # c /\ ~Covers(Buddy(c), c)
  BY <1>4, <1>5, <1>7, BesideIsInside, CoversReflexive
<1>9. /\ Take(Swept, b, c, n).state[Buddy(c)] = "Free"
      /\ Buddy(c) \in Take(Swept, b, c, n).freeBlocks
  BY <1>1, <1>4, <1>5, <1>7, <1>8, TakeFields DEF WellFormed
<1> QED BY <1>6, <1>9

\* AllocateSpread leaves room beside a block and AllocateFromBuddy fills it without
\* a gap: whatever lies between a node's block and the one it is given next is the
\* node's own already, so that its addresses stay one range.
THEOREM AllocatorGrowsInPlace == Spec => []GrowsInPlace
<1>1. ASSUME IInv PROVE GrowsInPlace
  <2> USE RootAssumption
  <2>1. tree \in Trees /\ WellFormed(Swept, Root)
    BY <1>1, SweepWellFormed DEF IInv, Swept, WellFormed
  <2>2. SpreadLeavesBuddyFree
    BY <1>1, SpreadLeavesBuddy
  <2>3. ASSUME NEW b \in Blocks, NEW req \in Requests,
               NEW g \in FromBuddyChoice(Root, Swept, b, req, tree.node[b]),
               NEW a \in Addresses, Between(b, a, g.take)
        PROVE  \E x \in Upward[a] : tree.state[x] = "Allocated" /\ tree.node[x] = tree.node[b]
    <3>1. PICK s \in Anchor(Swept, b, tree.node[b]), l \in LevelFor(Root, req) :
            /\ Len(s) > 0
            /\ g.take = IF Len(s) < l THEN Extend(Buddy(s), l, s[Len(s)]) ELSE Buddy(s)
      BY <2>3 DEF FromBuddyChoice, BuddyFree
    <3>2. s \in Blocks /\ Covers(s, b) /\ l \in 0..Depth
      BY TablesAreCovers, LevelsAreLevels DEF Anchor, LevelFor
    <3>3. Covers(s, a) /\ ~Covers(b, a)
      BY <2>3, <3>1, <3>2, NearestIsNext DEF Between
    <3>4. PICK m \in Blocks :
            Covers(m, a) /\ Swept.state[m] = "Allocated" /\ Swept.node[m] = tree.node[b]
      BY <2>1, <3>3, AnchorIsOwned
    <3>5. tree.state[m] = "Allocated" /\ tree.node[m] = tree.node[b]
      BY <2>1, <3>4, SweepKeepsAllocated DEF Swept
    <3>6. m \in Upward[a]
      BY <3>4, AddressIsBlock, TablesAreCovers
    <3> QED BY <3>5, <3>6
  <2> QED BY <2>2, <2>3 DEF GrowsInPlace
<1> QED BY <1>1, AllocatorInvariant, PTL
=============================================================================
