-------------------------- MODULE MCBuddyAllocator --------------------------
(* BuddyAllocator on small trees, and the loops of allocator.go as a        *)
(* reference for the closed forms that BuddyTree uses for them.             *)
EXTENDS BuddyAllocator, TLC

CONSTANTS n1, n2, none

\* Node names are only compared, so they can be permuted.
NodeSymmetry == Permutations(Nodes)

WholeSpace == <<>>

\* The loop of releaseLocked, one merge per iteration.
RECURSIVE ReleaseLoop(_, _)
ReleaseLoop(t, b) ==
  LET freed == [t EXCEPT !.state[b] = "Free", !.node[b] = NoNode, !.releaseAt[b] = 0,
                         !.quarantined = @ \ {b}, !.freeBlocks = @ \cup {b}]
      p == Parent(b)
  IN IF b = Root \/ freed.state[Buddy(b)] # "Free" THEN freed
     ELSE ReleaseLoop([freed EXCEPT !.state[b] = "Absent", !.state[Buddy(b)] = "Absent",
                                    !.freeBlocks = @ \ {b, Buddy(b)}], p)

\* The loop of sweepLocked: the due blocks in address order.
RECURSIVE SweepLoop(_, _)
SweepLoop(t, due) ==
  IF due = {} THEN t
  ELSE LET first == CHOOSE b \in due : \A c \in due : ~Lower(Extend(c, Depth, 0), Extend(b, Depth, 0))
       IN SweepLoop(ReleaseLoop(t, first), due \ {first})

\* The climb of AllocateFromBuddy.
RECURSIVE AnchorLoop(_, _, _)
AnchorLoop(t, a, n) ==
  IF a # Root /\ OwnedBy(t, Buddy(a), n) THEN AnchorLoop(t, Parent(a), n) ELSE a

\* The loop of the allocating methods on a free block b: split, one split per
\* iteration, go on in the half that c lies in, and give c itself to node n.
RECURSIVE TakeLoop(_, _, _, _)
TakeLoop(t, b, c, n) ==
  LET left  == Append(b, 0)
      right == Append(b, 1)
      split == [t EXCEPT !.state[b] = "Split", !.state[left] = "Free",
                         !.state[right] = "Free",
                         !.freeBlocks = (@ \ {b}) \cup {left, right}]
  IN IF b = c THEN [t EXCEPT !.state[c] = "Allocated", !.node[c] = n,
                             !.freeBlocks = @ \ {c}]
     ELSE TakeLoop(split, IF Covers(left, c) THEN left ELSE right, c, n)

\* The closed forms are what the loops compute.  Splitting a free block down to any
\* block inside it, half by half, gives what Take says.  Releasing blocks one after the
\* other, each climbing while its buddy is free, gives what Release and Sweep say,
\* and Defragment's walk finds nothing more to merge after them.  The range around
\* a block that AllocateFromBuddy climbs to, step by step, is the one Anchor describes.
ClosedFormsMatchLoops ==
  /\ \A b \in tree.freeBlocks, n \in Nodes : \A c \in Subtree[b] :
       Take(tree, b, c, n) = TakeLoop(tree, b, c, n)
  /\ \A b \in Blocks : tree.state[b] = "Allocated" => Release(tree, {b}) = ReleaseLoop(tree, b)
  /\ \A at \in 0..MaxNow : /\ Sweep(tree, at) = SweepLoop(tree, Due(tree, at))
                           /\ MergeAll(Sweep(tree, at)) = Sweep(tree, at)
  /\ \A b \in Handles(tree), n \in Nodes : Anchor(tree, b, n) = {AnchorLoop(tree, b, n)}
=============================================================================
