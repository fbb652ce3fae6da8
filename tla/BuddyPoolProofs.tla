--------------------------- MODULE BuddyPoolProofs ---------------------------
(***************************************************************************)
(* What the pool promises, for every set of CIDRs, nodes, requests and     *)
(* quarantines: nothing it hands out overlaps, AllocateDemand hands out    *)
(* exactly what was asked for whenever that much is free, and a quarantine *)
(* reaches every CIDR.  The facts about one tree come from the module      *)
(* about the allocator.  A call is summed up by Exact, a count of minimum  *)
(* blocks that adds up over calls, so that the proof follows the loops of  *)
(* allocatePrefixOrSplit and AllocateDemand round by round.                *)
(***************************************************************************)
EXTENDS BuddyPool, BuddyAllocatorProofs, FiniteSetTheorems

-----------------------------------------------------------------------------
(* Numbers, counted steps and powers of two *)

\* What holds at zero and is handed on holds up to N.
LEMMA UpTo ==
  ASSUME NEW N \in Nat, NEW G, 0 \in G, \A k \in 0..(N - 1) : k \in G => k + 1 \in G
  PROVE  \A k \in 0..N : k \in G
<1> DEFINE T == {k \in 0..N : k \notin G}
<1>1. ASSUME T # {} PROVE FALSE
  <2>1. T \in SUBSET Nat
    OBVIOUS
  <2>2. PICK m \in T : \A k \in T : m <= k
    BY <1>1, <2>1, LeastNatural
  <2>3. m # 0 /\ m \in 1..N
    BY <2>2
  <2>4. m - 1 \in 0..(N - 1) /\ (m - 1) + 1 = m
    BY <2>3
  <2>5. m - 1 \in G
    <3>1. m - 1 \notin T
      BY <2>2, <2>3
    <3> QED BY <2>4, <3>1
  <2>6. m \in G
    BY <2>4, <2>5
  <2> QED BY <2>2, <2>6
<1> QED BY <1>1

\* N steps, the k-th of them F[k], take s through a sequence of elements of S.
HasRun(N, S, s, F) ==
  \E f \in [0..N -> S] : f[0] = s /\ \A k \in 1..N : f[k] = F[k][f[k - 1]]

\* Steps that are functions on S can be taken one after the other.
LEMMA Iterates ==
  ASSUME NEW N \in Nat, NEW S, NEW s \in S, NEW F \in [1..N -> [S -> S]]
  PROVE  HasRun(N, S, s, F)
<1> DEFINE Good(m, f) == f[0] = s /\ \A k \in 1..m : f[k] = F[k][f[k - 1]]
           G == {m \in 0..N : \E f \in [0..N -> S] : Good(m, f)}
<1>1. 0 \in G
  <2> DEFINE f == [k \in 0..N |-> s]
  <2>1. f \in [0..N -> S] /\ f[0] = s
    OBVIOUS
  <2> HIDE DEF f
  <2>2. Good(0, f)
    BY <2>1
  <2> QED BY <2>1, <2>2
<1>2. ASSUME NEW m \in 0..(N - 1), m \in G PROVE m + 1 \in G
  <2>1. PICK f \in [0..N -> S] : Good(m, f)
    BY <1>2
  <2> DEFINE v == F[m + 1][f[m]]
             g == [k \in 0..N |-> IF k = m + 1 THEN v ELSE f[k]]
  <2>2. m + 1 \in 1..N /\ m \in 0..N
    OBVIOUS
  <2>3. v \in S
    BY <2>1, <2>2
  <2> HIDE DEF v
  <2>4. g \in [0..N -> S]
    BY <2>1, <2>3
  <2>5. g[0] = s /\ g[m + 1] = v /\ \A k \in 0..m : g[k] = f[k]
    BY <2>1, <2>2
  <2> HIDE DEF g
  <2>6. ASSUME NEW k \in 1..(m + 1) PROVE g[k] = F[k][g[k - 1]]
    <3>1. CASE k = m + 1
      <4>1. k - 1 = m
        BY <3>1
      <4>2. g[k - 1] = f[m]
        BY <2>5, <4>1
      <4> QED BY <2>5, <3>1, <4>2 DEF v
    <3>2. CASE k # m + 1
      <4>1. k \in 1..m /\ k \in 0..m /\ k - 1 \in 0..m
        BY <3>2
      <4> QED BY <2>1, <2>5, <4>1
    <3> QED BY <3>1, <3>2
  <2>7. Good(m + 1, g)
    BY <2>5, <2>6
  <2> HIDE DEF Good
  <2> QED BY <2>2, <2>4, <2>7
<1> HIDE DEF Good
<1>3. \A k \in 0..N : k \in G
  <2>1. \A k \in 0..(N - 1) : k \in G => k + 1 \in G
    BY <1>2
  <2> HIDE DEF G
  <2> QED BY <1>1, <2>1, UpTo
<1>4. PICK f \in [0..N -> S] : Good(N, f)
  BY <1>3
<1> QED BY <1>4 DEF Good, HasRun

\* Two finite sets with nothing in common.
LEMMA TwoParts ==
  ASSUME NEW A, IsFiniteSet(A), NEW B, IsFiniteSet(B), A \cap B = {}
  PROVE  IsFiniteSet(A \cup B) /\ Cardinality(A \cup B) = Cardinality(A) + Cardinality(B)
<1>1. /\ IsFiniteSet(A \cup B)
      /\ Cardinality(A \cup B) = Cardinality(A) + Cardinality(B) - Cardinality(A \cap B)
  BY FS_Union
<1>2. Cardinality(A \cap B) = 0
  BY FS_EmptySet
<1>3. Cardinality(A) \in Nat /\ Cardinality(B) \in Nat
  BY FS_CardinalityType
<1> QED BY <1>1, <1>2, <1>3

\* A set of m elements has 2^m subsets.
LEMMA PowerIsNat ==
  ASSUME NEW m \in Nat
  PROVE  2^m \in Nat
<1>1. IsFiniteSet(1..m) /\ Cardinality(1..m) = m
  BY FS_Interval
<1>2. IsFiniteSet(SUBSET (1..m)) /\ Cardinality(SUBSET (1..m)) = 2^m
  BY <1>1, FS_SUBSET
<1> QED BY <1>2, FS_CardinalityType

LEMMA PowerDoubles ==
  ASSUME NEW m \in Nat
  PROVE  2^(m + 1) = 2^m + 2^m /\ 2^m \in Nat /\ 2^m >= 1
<1> DEFINE A == SUBSET (1..m)
           B == {x \in SUBSET (1..(m + 1)) : m + 1 \in x}
<1>1. IsFiniteSet(1..m) /\ Cardinality(1..m) = m /\ IsFiniteSet(1..(m+1)) /\ Cardinality(1..(m+1)) = m + 1
  BY FS_Interval
<1>2. IsFiniteSet(A) /\ Cardinality(A) = 2^m
  BY <1>1, FS_SUBSET
<1>3. IsFiniteSet(SUBSET (1..(m + 1))) /\ Cardinality(SUBSET (1..(m + 1))) = 2^(m + 1)
  BY <1>1, FS_SUBSET
<1>4. SUBSET (1..(m + 1)) = A \cup B
  <2>1. ASSUME NEW x \in SUBSET (1..(m + 1)), m + 1 \notin x PROVE x \in A
    BY <2>1
  <2>2. 1..m \subseteq 1..(m + 1)
    OBVIOUS
  <2> QED BY <2>1, <2>2
<1>5. A \cap B = {}
  OBVIOUS
<1> DEFINE h == [x \in A |-> x \cup {m + 1}]
<1>6. h \in Bijection(A, B)
  <2>1. \A x \in A : h[x] \in B
    OBVIOUS
  <2>2. ASSUME NEW x \in A, NEW y \in A, h[x] = h[y] PROVE x = y
    <3>1. m + 1 \notin x /\ m + 1 \notin y
      OBVIOUS
    <3> QED BY <2>2, <3>1
  <2>3. ASSUME NEW y \in B PROVE \E x \in A : h[x] = y
    <3>1. y \ {m + 1} \in A
      OBVIOUS
    <3>2. h[y \ {m + 1}] = y
      BY <3>1
    <3> QED BY <3>1, <3>2
  <2> HIDE DEF A, B
  <2> QED BY <2>1, <2>2, <2>3 DEF Bijection, Injection, Surjection, IsInjective
<1> HIDE DEF A, B, h
<1>7. IsFiniteSet(B) /\ Cardinality(B) = Cardinality(A)
  BY <1>2, <1>6, FS_Bijection DEF ExistsBijection
<1>8. Cardinality(A \cup B) = Cardinality(A) + Cardinality(B)
  BY <1>2, <1>5, <1>7, TwoParts
<1>10. 2^m \in Nat
  BY <1>2, FS_CardinalityType
<1>11. {} \in A
  BY DEF A
<1>12. Cardinality(A) # 0
  BY <1>2, <1>11, FS_EmptySet
<1>13. 2^(m + 1) = 2^m + 2^m
  BY <1>2, <1>3, <1>4, <1>7, <1>8
<1>14. 2^m # 0
  BY <1>2, <1>12
<1> QED BY <1>10, <1>13, <1>14

\* Quotient and remainder.
LEMMA Division ==
  ASSUME NEW k \in Nat, NEW d \in Nat, d >= 1
  PROVE  k \div d \in Nat /\ k % d \in 0..(d - 1) /\ k = d * (k \div d) + (k % d)
OBVIOUS

-----------------------------------------------------------------------------
(* Minimum blocks *)

\* A minimum block is in UnitsIn(S) when a block of S covers it.
LEMMA UnitMembers ==
  ASSUME NEW S \in SUBSET Blocks, NEW u
  PROVE  u \in UnitsIn(S) <=> u \in Blocks /\ Len(u) = MinLevel /\ \E x \in S : Covers(x, u)
BY TablesAreCovers DEF UnitsIn

Half(x, bit) == Extend(x, Len(x) + 1, bit)

\* A block has two halves, and whatever lies strictly inside it lies in one of them.
LEMMA HalvesOfBlock ==
  ASSUME NEW x \in Blocks, Len(x) < Depth
  PROVE  /\ \A bit \in Bits : Half(x, bit) \in Blocks /\ Len(Half(x, bit)) = Len(x) + 1
         /\ \A y \in Blocks : Len(x) < Len(y) =>
              /\ Covers(x, y) <=> Covers(Half(x, 0), y) \/ Covers(Half(x, 1), y)
              /\ ~(Covers(Half(x, 0), y) /\ Covers(Half(x, 1), y))
<1>1. Len(x) \in Nat /\ Len(x) + 1 \in 0..Depth /\ Depth \in Nat
  BY BlockIsSeq, LevelsAssumption
<1>2. \A bit \in Bits : Half(x, bit) \in Blocks /\ Len(Half(x, bit)) = Len(x) + 1
  BY <1>1, ExtendIsBlock DEF Half
<1>3. \A bit \in Bits : \A i \in 1..(Len(x) + 1) :
        Half(x, bit)[i] = IF i <= Len(x) THEN x[i] ELSE bit
  BY <1>1 DEF Half, Extend
<1>4. 0 \in Bits /\ 1 \in Bits
  BY DEF Bits
<1>5. ASSUME NEW y \in Blocks, Len(x) < Len(y)
      PROVE  /\ Covers(x, y) <=> Covers(Half(x, 0), y) \/ Covers(Half(x, 1), y)
             /\ ~(Covers(Half(x, 0), y) /\ Covers(Half(x, 1), y))
  <2>1. Len(y) \in Nat /\ Len(x) + 1 <= Len(y) /\ y[Len(x) + 1] \in Bits
    BY <1>1, <1>5, BlockIsSeq, LevelsAssumption
  <2>2. ASSUME NEW bit \in Bits
        PROVE  Covers(Half(x, bit), y) <=> Covers(x, y) /\ y[Len(x) + 1] = bit
    <3>1. Covers(Half(x, bit), y) <=> \A i \in 1..(Len(x) + 1) : Half(x, bit)[i] = y[i]
      BY <1>2, <2>1 DEF Covers
    <3>2. Covers(x, y) <=> \A i \in 1..Len(x) : x[i] = y[i]
      BY <1>5, <1>1, <2>1 DEF Covers
    <3>3. \A i \in 1..(Len(x) + 1) : i \in 1..Len(x) \/ i = Len(x) + 1
      BY <1>1
    <3>4. Half(x, bit)[Len(x) + 1] = bit
      BY <1>1, <1>3
    <3>5. \A i \in 1..Len(x) : i \in 1..(Len(x) + 1) /\ Half(x, bit)[i] = x[i]
      BY <1>1, <1>3
    <3>6. Len(x) + 1 \in 1..(Len(x) + 1)
      BY <1>1
    <3> QED BY <3>1, <3>2, <3>3, <3>4, <3>5, <3>6
  <2> QED BY <1>4, <2>1, <2>2 DEF Bits
<1> QED BY <1>2, <1>5

\* A block holds as many minimum blocks as its level says.
LEMMA UnitsOfBlock ==
  ASSUME NEW x \in Blocks, Len(x) <= MinLevel
  PROVE  IsFiniteSet(UnitsIn({x})) /\ Cardinality(UnitsIn({x})) = 2^(MinLevel - Len(x))
<1> DEFINE Sized(y, k) == IsFiniteSet(UnitsIn({y})) /\ Cardinality(UnitsIn({y})) = 2^k
           G == {k \in 0..MinLevel : \A y \in Blocks : Len(y) = MinLevel - k => Sized(y, k)}
<1> USE LevelsAssumption
<1>1. 0 \in G
  <2>1. ASSUME NEW y \in Blocks, Len(y) = MinLevel PROVE Sized(y, 0)
    <3>1. \A u : u \in UnitsIn({y}) <=> u \in Blocks /\ Len(u) = MinLevel /\ Covers(y, u)
      BY UnitMembers
    <3>2. \A u \in Blocks : Len(u) = MinLevel /\ Covers(y, u) => u = y
      BY <2>1, CoversStrictly
    <3>3. UnitsIn({y}) = {y}
      BY <2>1, <3>1, <3>2, CoversReflexive
    <3>4. IsFiniteSet({y}) /\ Cardinality({y}) = 1
      BY FS_Singleton, Zenon
    <3>5. 2^0 = 1
      OBVIOUS
    <3> QED BY <3>3, <3>4, <3>5
  <2> HIDE DEF Sized
  <2> QED BY <2>1
<1>2. ASSUME NEW k \in 0..(MinLevel - 1), k \in G PROVE k + 1 \in G
  <2> SUFFICES ASSUME NEW y \in Blocks, Len(y) = MinLevel - (k + 1) PROVE Sized(y, k + 1)
    OBVIOUS
  <2>1. Len(y) < Depth /\ Len(y) < MinLevel /\ Len(y) + 1 = MinLevel - k
    BY BlockIsSeq
  <2> DEFINE l == Half(y, 0)
             r == Half(y, 1)
  <2>2. l \in Blocks /\ r \in Blocks /\ Len(l) = MinLevel - k /\ Len(r) = MinLevel - k
    BY <2>1, HalvesOfBlock DEF Bits
  <2>3. Sized(l, k) /\ Sized(r, k)
    BY <1>2, <2>2
  <2>4. \A u \in Blocks : Len(u) = MinLevel =>
          /\ Covers(y, u) <=> Covers(l, u) \/ Covers(r, u)
          /\ ~(Covers(l, u) /\ Covers(r, u))
    BY <2>1, HalvesOfBlock
  <2> HIDE DEF l, r
  <2>5. \A u : /\ u \in UnitsIn({y}) <=> u \in Blocks /\ Len(u) = MinLevel /\ Covers(y, u)
               /\ u \in UnitsIn({l}) <=> u \in Blocks /\ Len(u) = MinLevel /\ Covers(l, u)
               /\ u \in UnitsIn({r}) <=> u \in Blocks /\ Len(u) = MinLevel /\ Covers(r, u)
    BY <2>2, UnitMembers
  <2>6. UnitsIn({y}) = UnitsIn({l}) \cup UnitsIn({r}) /\ UnitsIn({l}) \cap UnitsIn({r}) = {}
    BY <2>4, <2>5
  <2>7. IsFiniteSet(UnitsIn({l})) /\ IsFiniteSet(UnitsIn({r}))
    BY <2>3
  <2>8. /\ IsFiniteSet(UnitsIn({y}))
        /\ Cardinality(UnitsIn({y})) = Cardinality(UnitsIn({l})) + Cardinality(UnitsIn({r}))
    <3> DEFINE L == UnitsIn({l})
               R == UnitsIn({r})
    <3> HIDE DEF L, R
    <3>1. IsFiniteSet(L \cup R) /\ Cardinality(L \cup R) = Cardinality(L) + Cardinality(R)
      BY <2>6, <2>7, TwoParts DEF L, R
    <3> QED BY <2>6, <3>1 DEF L, R
  <2>9. Cardinality(UnitsIn({y})) = 2^k + 2^k
    BY <2>3, <2>8
  <2>10. 2^(k + 1) = 2^k + 2^k
    BY PowerDoubles
  <2> QED BY <2>8, <2>9, <2>10
<1>3. \A k \in 0..MinLevel : k \in G
  <2>1. \A k \in 0..(MinLevel - 1) : k \in G => k + 1 \in G
    BY <1>2
  <2> HIDE DEF G
  <2> QED BY <1>1, <2>1, UpTo
<1>4. MinLevel - Len(x) \in 0..MinLevel /\ Len(x) = MinLevel - (MinLevel - Len(x))
  BY BlockIsSeq
<1> QED BY <1>3, <1>4

\* There are finitely many minimum blocks.
LEMMA UnitsAreFinite ==
  ASSUME NEW S \in SUBSET Blocks
  PROVE  IsFiniteSet(UnitsIn(S))
<1>1. <<>> \in Blocks /\ Len(<<>>) = 0
  <2>1. <<>> \in [1..0 -> Bits] /\ 0 \in 0..Depth
    BY LevelsAssumption
  <2> QED BY <2>1, SeqIsBlock
<1>2. IsFiniteSet(UnitsIn({<<>>}))
  BY <1>1, UnitsOfBlock, LevelsAssumption
<1>3. \A u \in Blocks : Covers(<<>>, u)
  BY <1>1, BlockIsSeq DEF Covers
<1>4. UnitsIn(S) \subseteq UnitsIn({<<>>})
  BY <1>1, <1>3, UnitMembers
<1> QED BY <1>2, <1>4, FS_Subset

\* Every block that is not smaller than the minimum holds a minimum block.
LEMMA UnitInside ==
  ASSUME NEW x \in Blocks, Len(x) <= MinLevel
  PROVE  \E u \in Blocks : Len(u) = MinLevel /\ Covers(x, u)
<1>1. Extend(x, MinLevel, 0) \in Blocks /\ Len(Extend(x, MinLevel, 0)) = MinLevel
      /\ Covers(x, Extend(x, MinLevel, 0))
  BY ExtendIsBlock, LevelsAssumption DEF Bits
<1> QED BY <1>1

-----------------------------------------------------------------------------
(* The first fit *)

\* Among blocks of one level one has the lowest address.
LEMMA LowestBlock ==
  ASSUME NEW V \in SUBSET Blocks, V # {}, NEW m \in Nat, \A x \in V : Len(x) = m
  PROVE  \E b \in V : \A c \in V : ~Lower(c, b)
<1> DEFINE Low(b, k) == \A c \in V : \A i \in 1..k :
                          (\A j \in 1..(i - 1) : c[j] = b[j]) => b[i] <= c[i]
           G == {k \in 0..m : \E b \in V : Low(b, k)}
<1>1. 0 \in G
  OBVIOUS
<1>2. ASSUME NEW k \in 0..(m - 1), k \in G PROVE k + 1 \in G
  <2>1. PICK b \in V : Low(b, k)
    BY <1>2
  <2>2. \A x \in V : \A i \in 1..m : x[i] \in {0, 1}
    BY BlockIsSeq DEF Bits
  <2>3. k + 1 \in 1..m /\ \A i \in 1..(k + 1) : i \in 1..k \/ i = k + 1
    OBVIOUS
  <2>4. CASE \E c \in V : (\A j \in 1..k : c[j] = b[j]) /\ c[k + 1] = 0
    <3>1. PICK d \in V : (\A j \in 1..k : d[j] = b[j]) /\ d[k + 1] = 0
      BY <2>4
    <3>2. ASSUME NEW c \in V, NEW i \in 1..(k + 1), \A j \in 1..(i - 1) : c[j] = d[j]
          PROVE  d[i] <= c[i]
      <4>1. CASE i = k + 1
        <5>1. c[k + 1] \in {0, 1}
          BY <2>2, <2>3
        <5> QED BY <3>1, <4>1, <5>1
      <4>2. CASE i \in 1..k
        <5>1. d[i] = b[i] /\ \A j \in 1..(i - 1) : c[j] = b[j]
          BY <3>1, <3>2, <4>2
        <5> QED BY <2>1, <4>2, <5>1
      <4> QED BY <2>3, <4>1, <4>2
    <3>3. Low(d, k + 1)
      BY <3>2
    <3> QED BY <3>3
  <2>5. CASE ~\E c \in V : (\A j \in 1..k : c[j] = b[j]) /\ c[k + 1] = 0
    <3>1. ASSUME NEW c \in V, NEW i \in 1..(k + 1), \A j \in 1..(i - 1) : c[j] = b[j]
          PROVE  b[i] <= c[i]
      <4>1. CASE i = k + 1
        <5>1. (k + 1) - 1 = k
          OBVIOUS
        <5>2. c[k + 1] \in {0, 1} /\ b[k + 1] \in {0, 1}
          BY <2>2, <2>3
        <5>3. c[k + 1] # 0
          BY <2>5, <3>1, <4>1, <5>1
        <5> QED BY <4>1, <5>2, <5>3
      <4>2. CASE i \in 1..k
        BY <2>1, <3>1, <4>2
      <4> QED BY <2>3, <4>1, <4>2
    <3>2. Low(b, k + 1)
      BY <3>1
    <3> QED BY <3>2
  <2> QED BY <2>4, <2>5
<1>3. \A k \in 0..m : k \in G
  <2>1. \A k \in 0..(m - 1) : k \in G => k + 1 \in G
    BY <1>2
  <2> HIDE DEF G
  <2> QED BY <1>1, <2>1, UpTo
<1>4. PICK b \in V : Low(b, m)
  <2> HIDE DEF Low
  <2>1. m \in G
    BY <1>3
  <2> QED BY <2>1
<1>5. ASSUME NEW c \in V, Lower(c, b) PROVE FALSE
  <2>1. PICK i \in 1..m : c[i] < b[i] /\ \A j \in 1..(i - 1) : c[j] = b[j]
    BY <1>5 DEF Lower
  <2>2. b[i] <= c[i]
    BY <1>4, <2>1
  <2>3. c[i] \in {0, 1} /\ b[i] \in {0, 1}
    BY BlockIsSeq DEF Bits
  <2> QED BY <2>1, <2>2, <2>3
<1> QED BY <1>5

\* Of two blocks of one level one has the lower address.
LEMMA LowerIsTotal ==
  ASSUME NEW x \in Blocks, NEW y \in Blocks, Len(x) = Len(y), x # y
  PROVE  Lower(x, y) \/ Lower(y, x)
<1> DEFINE T == {i \in 1..Len(x) : x[i] # y[i]}
<1>1. T \in SUBSET Nat /\ T # {}
  BY BlockEqual
<1>2. PICK i \in T : \A k \in T : i <= k
  BY <1>1, LeastNatural
<1>3. Len(x) \in Nat /\ i \in 1..Len(x) /\ x[i] # y[i] /\ x[i] \in {0, 1} /\ y[i] \in {0, 1}
  BY BlockIsSeq, LevelsAssumption DEF Bits
<1>4. \A j \in 1..(i - 1) : x[j] = y[j]
  BY <1>2, <1>3
<1>5. CASE x[i] < y[i]
  BY <1>3, <1>4, <1>5 DEF Lower
<1>6. CASE y[i] < x[i]
  BY <1>3, <1>4, <1>6 DEF Lower
<1> QED BY <1>3, <1>5, <1>6

\* There is exactly one first fit when some free block is large enough.
LEMMA FirstFitIsOne ==
  ASSUME NEW t \in Trees, NEW from \in Nat,
         NEW d \in t.freeBlocks, Len(d) <= from
  PROVE  \E b \in t.freeBlocks : Len(b) <= from /\ FirstFit(t, from) = {b}
<1> DEFINE L == {k \in 0..from : \E b \in t.freeBlocks : Len(b) = from - k}
<1>1. t.freeBlocks \in SUBSET Blocks
  BY DEF Trees
<1>2. \A b \in t.freeBlocks : Len(b) \in Nat
  BY <1>1, BlockIsSeq, LevelsAssumption
<1>3. from - Len(d) \in L /\ L \in SUBSET Nat
  BY <1>2
<1>4. PICK k \in L : \A j \in L : k <= j
  BY <1>3, LeastNatural
<1> DEFINE m == from - k
           V == {b \in t.freeBlocks : Len(b) = m}
<1>5. m \in Nat /\ m <= from
  BY <1>4
<1>6. ASSUME NEW c \in t.freeBlocks, Len(c) <= from PROVE Len(c) <= m
  <2>1. from - Len(c) \in L
    BY <1>2, <1>6
  <2>2. k <= from - Len(c) /\ k \in Nat
    BY <1>3, <1>4, <2>1
  <2> HIDE DEF L
  <2> QED BY <1>2, <2>2
<1>7. V \in SUBSET Blocks /\ V # {}
  BY <1>1, <1>4
<1> HIDE DEF m, L
<1>8. PICK b \in V : \A c \in V : ~Lower(c, b)
  <2>1. \A x \in V : Len(x) = m
    OBVIOUS
  <2> HIDE DEF V
  <2> QED BY <1>5, <1>7, <2>1, LowestBlock
<1>9. b \in FirstFit(t, from)
  <2>1. ASSUME NEW c \in t.freeBlocks, Len(c) <= from
        PROVE  Len(c) < Len(b) \/ (Len(c) = Len(b) /\ ~Lower(c, b))
    <3>1. Len(c) <= m /\ Len(c) \in Nat
      BY <1>2, <1>6, <2>1
    <3> QED BY <1>5, <1>8, <3>1
  <2> QED BY <1>5, <1>8, <2>1 DEF FirstFit
<1>10. ASSUME NEW c \in FirstFit(t, from) PROVE c = b
  <2>1. c \in t.freeBlocks /\ b \in t.freeBlocks /\ Len(c) <= from /\ Len(b) <= from
    BY <1>9 DEF FirstFit
  <2>2. Len(b) < Len(c) \/ (Len(b) = Len(c) /\ ~Lower(b, c))
    BY <1>10, <2>1 DEF FirstFit
  <2>3. Len(c) < Len(b) \/ (Len(c) = Len(b) /\ ~Lower(c, b))
    BY <1>9, <2>1 DEF FirstFit
  <2>4. Len(c) = Len(b) /\ ~Lower(c, b) /\ ~Lower(b, c)
    BY <1>2, <2>1, <2>2, <2>3
  <2> QED BY <1>1, <2>1, <2>4, LowerIsTotal
<1> QED BY <1>5, <1>8, <1>9, <1>10

\* AllocatePrefix takes its block from one free block that is large enough, and
\* fails only when there is none.
LEMMA PrefixPick ==
  ASSUME NEW t, NEW r \in Blocks, WellFormed(t, r), NEW l \in MaxLevel..MinLevel
  PROVE  \/ /\ PrefixChoice(r, t, l) = {}
            /\ \A b \in Blocks : t.state[b] = "Free" => Len(b) > l
         \/ \E b \in Blocks :
              /\ t.state[b] = "Free" /\ Len(b) <= l
              /\ Extend(b, l, 0) \in Blocks /\ Len(Extend(b, l, 0)) = l
              /\ Covers(b, Extend(b, l, 0))
              /\ PrefixChoice(r, t, l) = {[from |-> b, take |-> Extend(b, l, 0)]}
<1>1. t \in Trees /\ IsTree(t, r) /\ t.freeBlocks = {b \in Blocks : t.state[b] = "Free"}
  BY DEF WellFormed, Indexed
<1>2. l \in 0..Depth /\ l \in Nat /\ MaxLevel \in Nat
  BY LevelsAssumption
<1>3. CASE \A b \in Blocks : t.state[b] = "Free" => Len(b) > l
  <2>1. ASSUME NEW b \in FirstFit(t, l) PROVE FALSE
    <3>1. b \in Blocks /\ t.state[b] = "Free" /\ Len(b) <= l /\ Len(b) > l
      BY <1>1, <1>3 DEF FirstFit
    <3> QED BY <1>2, <3>1, BlockIsSeq, LevelsAssumption
  <2> QED BY <1>3, <2>1 DEF PrefixChoice, Fit
<1>4. CASE \E d \in Blocks : t.state[d] = "Free" /\ ~(Len(d) > l)
  <2>1. PICK d \in Blocks : t.state[d] = "Free" /\ ~(Len(d) > l)
    BY <1>4
  <2>2. d \in t.freeBlocks /\ Len(d) <= l
    BY <1>1, <1>2, <2>1, BlockIsSeq, LevelsAssumption
  <2>3. PICK b \in t.freeBlocks : Len(b) <= l /\ FirstFit(t, l) = {b}
    BY <1>1, <1>2, <2>2, FirstFitIsOne
  <2>4. b \in Blocks /\ t.state[b] = "Free" /\ Covers(r, b)
    BY <1>1 DEF IsTree
  <2>5. Len(r) <= l
    BY <1>2, <2>3, <2>4, BlockIsSeq, LevelsAssumption DEF Covers
  <2>6. l \in Levels(r)
    BY <1>2, <2>5, BlockIsSeq, LevelsAssumption DEF Levels
  <2>7. PrefixChoice(r, t, l) = {[from |-> b, take |-> Extend(b, l, 0)]}
    BY <2>3, <2>6 DEF PrefixChoice, Fit
  <2>8. Extend(b, l, 0) \in Blocks /\ Len(Extend(b, l, 0)) = l /\ Covers(b, Extend(b, l, 0))
    BY <1>2, <2>3, <2>4, ExtendIsBlock DEF Bits
  <2> QED BY <2>3, <2>4, <2>7, <2>8
<1> QED BY <1>3, <1>4

-----------------------------------------------------------------------------
(* What a sweep and a grant do to the free minimum blocks of one tree *)

\* The free minimum blocks of a tree.
FreeIn1(t) == UnitsIn({b \in Blocks : t.state[b] = "Free"})

\* Two leaves of a tree do not lie inside each other.
LEMMA LeavesApart ==
  ASSUME NEW t, NEW r \in Blocks, IsTree(t, r),
         NEW x \in Blocks, t.state[x] \in Leaf, NEW y \in Blocks, t.state[y] \in Leaf,
         NEW z \in Blocks, Covers(x, z), Covers(y, z)
  PROVE  x = y
<1>1. Covers(r, x) /\ Covers(r, y)
  BY DEF IsTree, Leaf
<1>2. ~(Covers(x, y) /\ x # y) /\ ~(Covers(y, x) /\ x # y)
  BY <1>1 DEF IsTree, Leaf
<1> QED BY <1>2, CoversComparable

\* What is in use in a tree is found only once.
LEMMA UsedIsNotFree ==
  ASSUME NEW t, NEW r \in Blocks, IsTree(t, r),
         NEW x \in Blocks, t.state[x] = "Allocated" \/ t.state[x] = "Quarantined",
         NEW y \in Blocks, Covers(x, y) \/ Covers(y, x)
  PROVE  t.state[y] # "Free"
BY LeavesApart, CoversReflexive DEF Leaf

\* The sweep of a tree is a tree, whatever its fields say.
LEMMA SweepIsTree ==
  ASSUME NEW t \in Trees, NEW at
  PROVE  Sweep(t, at) \in Trees
<1>1. Due(t, at) \in SUBSET Blocks
  BY DEF Due, Trees
<1> DEFINE W == {p \in UNION {Upward[d] : d \in Due(t, at)} : WhollyFree(t, Due(t, at), p)}
<1>2. W \in SUBSET Blocks
  BY <1>1, TablesAreCovers
<1>3. Collapse(t, W) \in Trees
  BY <1>2, CollapseFields
<1> QED BY <1>3 DEF Sweep, Release

\* A release of any blocks leaves a tree, whatever its fields say.
LEMMA ReleaseIsTree ==
  ASSUME NEW t \in Trees, NEW D \in SUBSET Blocks
  PROVE  Release(t, D) \in Trees
<1> DEFINE W == {p \in UNION {Upward[d] : d \in D} : WhollyFree(t, D, p)}
<1>1. W \in SUBSET Blocks
  BY TablesAreCovers
<1>2. Collapse(t, W) \in Trees
  BY <1>1, CollapseFields
<1> QED BY <1>2 DEF Release

\* The sweep leaves what is handed out, and nothing else becomes handed out.
LEMMA SweepSameAllocated ==
  ASSUME NEW t, NEW r \in Blocks, WellFormed(t, r), NEW at, NEW m \in Blocks
  PROVE  Sweep(t, at).state[m] = "Allocated" <=> t.state[m] = "Allocated"
<1>1. t \in Trees /\ IsTree(t, r) /\ t.quarantined = {b \in Blocks : t.state[b] = "Quarantined"}
  BY DEF WellFormed, Indexed
<1>2. ASSUME t.state[m] = "Allocated", Due(t, at) # {} PROVE Sweep(t, at).state[m] = "Allocated"
  <2> DEFINE D == Due(t, at)
             W == {p \in UNION {Upward[d] : d \in D} : WhollyFree(t, D, p)}
  <2>1. D \in SUBSET Blocks /\ \A d \in D : t.state[d] = "Quarantined"
    BY <1>1 DEF Due
  <2>2. W \in SUBSET Blocks
    BY <2>1, TablesAreCovers
  <2>3. Sweep(t, at) = Collapse(t, W)
    BY <1>2 DEF Sweep, Release
  <2>4. \A p \in W : WhollyFree(t, D, p)
    OBVIOUS
  <2> HIDE DEF W
  <2>5. m \notin D
    BY <1>2, <2>1
  <2> HIDE DEF D
  <2>6. ASSUME NEW p \in W, Covers(p, m) PROVE FALSE
    <3>1. m \in Subtree[p]
      BY <2>2, <2>6, TablesAreCovers
    <3> QED BY <1>2, <2>4, <2>5, <3>1 DEF WhollyFree
  <2>7. ~Inside(m, W) /\ m \notin W
    BY <2>6, CoversReflexive DEF Inside
  <2> QED BY <1>1, <1>2, <2>2, <2>3, <2>7, CollapseFields
<1>3. ASSUME t.state[m] = "Allocated", Due(t, at) = {} PROVE Sweep(t, at).state[m] = "Allocated"
  BY <1>3 DEF Sweep
<1> QED BY <1>1, <1>2, <1>3, SweepKeepsAllocated

\* After a sweep nothing is due.
LEMMA SweepLeavesNothingDue ==
  ASSUME NEW t, NEW r \in Blocks, WellFormed(t, r), NEW at
  PROVE  Due(Sweep(t, at), at) = {}
<1>1. t \in Trees /\ IsTree(t, r) /\ t.quarantined = {b \in Blocks : t.state[b] = "Quarantined"}
  BY DEF WellFormed, Indexed
<1>2. CASE Due(t, at) = {}
  BY <1>2 DEF Sweep
<1>3. CASE Due(t, at) # {}
  <2> DEFINE D == Due(t, at)
             W == {p \in UNION {Upward[d] : d \in D} : WhollyFree(t, D, p)}
  <2>1. /\ D \in SUBSET Blocks
        /\ \A d \in Blocks : d \in D <=> t.state[d] = "Quarantined" /\ t.releaseAt[d] <= at
    BY <1>1 DEF Due
  <2>2. W \in SUBSET Blocks
    BY <2>1, TablesAreCovers
  <2>3. Sweep(t, at) = Collapse(t, W)
    BY <1>3 DEF Sweep, Release
  <2>4. ASSUME NEW d \in D PROVE d \in W
    <3>1. d \in Blocks /\ t.state[d] = "Quarantined" /\ Covers(r, d)
      BY <1>1, <2>1 DEF IsTree
    <3>2. ASSUME NEW x \in Subtree[d] PROVE x \in D \/ t.state[x] = "Absent"
      <4>1. x \in Blocks /\ Covers(d, x)
        BY <3>1, TablesAreCovers
      <4> QED BY <1>1, <3>1, <4>1 DEF IsTree
    <3>3. WhollyFree(t, D, d)
      BY <3>1, <3>2 DEF WhollyFree
    <3>4. d \in Upward[d]
      BY <3>1, TablesAreCovers, CoversReflexive
    <3> QED BY <3>3, <3>4
  <2> HIDE DEF W, D
  <2> DEFINE u == Collapse(t, W)
  <2>5. /\ u \in Trees
        /\ \A x \in Blocks : x \in u.quarantined <=>
              x \in t.quarantined /\ x \notin W /\ ~Inside(x, W)
    BY <1>1, <2>2, CollapseFields
  <2>6. \A x \in Blocks : u.releaseAt[x] = IF x \in W \/ Inside(x, W) THEN 0 ELSE t.releaseAt[x]
    BY <1>1, <2>2, CollapseMarks
  <2> HIDE DEF u
  <2>7. u.quarantined \subseteq Blocks
    BY <2>5 DEF Trees
  <2>8. ASSUME NEW x \in u.quarantined, u.releaseAt[x] <= at PROVE FALSE
    <3>1. x \in Blocks /\ x \in t.quarantined /\ x \notin W /\ ~Inside(x, W)
      BY <2>5, <2>7
    <3>2. t.releaseAt[x] <= at
      BY <2>6, <2>8, <3>1
    <3> QED BY <1>1, <2>1, <2>4, <3>1, <3>2
  <2>9. Due(u, at) = {}
    BY <2>8 DEF Due
  <2> QED BY <2>3, <2>9 DEF u
<1> QED BY <1>2, <1>3

\* A second sweep at the same time does nothing, and neither does one after a grant.
LEMMA SweepAgain ==
  ASSUME NEW t, NEW at, Due(t, at) = {}
  PROVE  /\ Sweep(t, at) = t
         /\ \A b, c, n : Sweep(Take(t, b, c, n), at) = Take(t, b, c, n)
<1>1. \A b, c, n : /\ Take(t, b, c, n).quarantined = t.quarantined
                   /\ Take(t, b, c, n).releaseAt = t.releaseAt
  BY DEF Take
<1>2. \A b, c, n : Due(Take(t, b, c, n), at) = {}
  BY <1>1 DEF Due
<1> QED BY <1>2 DEF Sweep

\* v is t after the block c was handed out.
Taken(t, v, c) ==
  /\ UnitsIn({c}) \subseteq FreeIn1(t)
  /\ FreeIn1(v) = FreeIn1(t) \ UnitsIn({c})
  /\ \A x \in Blocks : v.state[x] = "Allocated" <=> x = c \/ t.state[x] = "Allocated"
  /\ t.state[c] # "Allocated"

\* Taking c takes the minimum blocks of c, and no others.
LEMMA TakeUnits ==
  ASSUME NEW t, NEW r \in Blocks, WellFormed(t, r),
         NEW b \in Blocks, t.state[b] = "Free", NEW c \in Blocks, Covers(b, c),
         Len(c) <= MinLevel, NEW n \in Nodes \cup {NoNode}
  PROVE  Taken(t, Take(t, b, c, n), c)
<1> DEFINE v == Take(t, b, c, n)
<1>1. t \in Trees /\ IsTree(t, r)
  BY DEF WellFormed
<1>2. \A x \in Blocks : v.state[x] =
        IF x = c THEN "Allocated"
        ELSE IF Covers(b, x) /\ Covers(x, c) THEN "Split"
        ELSE IF Beside(x, b, c) THEN "Free" ELSE t.state[x]
  BY <1>1, TakeFields
<1>3. WellFormed(v, r)
  BY TakeWellFormed
<1> HIDE DEF v
<1>4. IsTree(v, r)
  BY <1>3 DEF WellFormed
<1>5. \A x : Beside(x, b, c) => x \in Blocks /\ Covers(b, x) /\ x # b /\ ~Covers(x, c)
  BY BesideIsInside
<1>6. \A x \in Blocks : Covers(b, x) /\ t.state[x] \in Leaf => x = b
  BY <1>1, LeavesApart, CoversReflexive DEF Leaf
<1>7. /\ \A u : u \in FreeIn1(t) <=> /\ u \in Blocks /\ Len(u) = MinLevel
                                      /\ \E x \in Blocks : t.state[x] = "Free" /\ Covers(x, u)
      /\ \A u : u \in FreeIn1(v) <=> /\ u \in Blocks /\ Len(u) = MinLevel
                                      /\ \E x \in Blocks : v.state[x] = "Free" /\ Covers(x, u)
      /\ \A u : u \in UnitsIn({c}) <=> u \in Blocks /\ Len(u) = MinLevel /\ Covers(c, u)
  <2>1. /\ {x \in Blocks : t.state[x] = "Free"} \in SUBSET Blocks
        /\ {x \in Blocks : v.state[x] = "Free"} \in SUBSET Blocks
        /\ {c} \in SUBSET Blocks
    OBVIOUS
  <2> QED BY <2>1, UnitMembers DEF FreeIn1
<1>8. UnitsIn({c}) \subseteq FreeIn1(t)
  BY <1>7, CoversTransitive
<1>9. ASSUME NEW u \in FreeIn1(v) PROVE u \in FreeIn1(t) /\ u \notin UnitsIn({c})
  <2>1. PICK x \in Blocks : v.state[x] = "Free" /\ Covers(x, u)
    BY <1>7
  <2>2. u \in Blocks /\ Len(u) = MinLevel
    BY <1>7
  <2>3. ~Covers(c, u)
    <3>1. v.state[c] = "Allocated"
      BY <1>2
    <3> QED BY <1>4, <2>1, <2>2, <3>1, LeavesApart DEF Leaf
  <2>4. Beside(x, b, c) \/ t.state[x] = "Free"
    BY <1>2, <2>1
  <2>5. CASE Beside(x, b, c)
    <3>1. Covers(b, u)
      BY <1>5, <2>1, <2>2, <2>5, CoversTransitive
    <3> QED BY <1>7, <2>2, <2>3, <3>1
  <2>6. CASE t.state[x] = "Free"
    BY <1>7, <2>1, <2>2, <2>3, <2>6
  <2> QED BY <2>4, <2>5, <2>6
<1>10. ASSUME NEW u \in FreeIn1(t), u \notin UnitsIn({c}) PROVE u \in FreeIn1(v)
  <2>1. PICK x \in Blocks : t.state[x] = "Free" /\ Covers(x, u)
    BY <1>7
  <2>2. u \in Blocks /\ Len(u) = MinLevel /\ ~Covers(c, u)
    BY <1>7, <1>10
  <2>3. CASE x = b
    <3> DEFINE a == Extend(u, Depth, 0)
    <3>1. a \in Blocks /\ Len(a) = Depth /\ Covers(u, a)
      BY <2>2, ExtendIsBlock, LevelsAssumption DEF Bits
    <3>2. a \in Addresses
      BY <3>1, BlockIsSeq DEF Addresses
    <3> HIDE DEF a
    <3>3. Covers(b, a)
      BY <2>1, <2>2, <2>3, <3>1, CoversTransitive
    <3>4. ~Covers(c, a)
      BY <2>2, <3>1, CoversComparable
    <3>5. PICK y \in Blocks : Beside(y, b, c) /\ Covers(y, a)
      BY <3>2, <3>3, <3>4, TakeCovers
    <3>6. Len(y) <= Len(c)
      <4>1. PICK z \in Blocks : Covers(z, c) /\ y = Buddy(z)
        BY <3>5 DEF Beside
      <4> QED BY <4>1, BuddyIsBlock DEF Covers
    <3>7. Len(y) <= Len(u)
      BY <2>2, <3>6, BlockIsSeq, LevelsAssumption
    <3>8. Covers(y, u)
      BY <2>2, <3>1, <3>5, <3>7, CoversComparable
    <3>9. v.state[y] = "Free"
      BY <1>2, <1>5, <3>5, CoversReflexive
    <3> QED BY <1>7, <2>2, <3>8, <3>9
  <2>4. CASE x # b
    <3>1. ~Covers(b, x)
      BY <1>6, <2>1, <2>4 DEF Leaf
    <3>2. v.state[x] = "Free"
      BY <1>2, <1>5, <2>1, <3>1
    <3> QED BY <1>7, <2>1, <2>2, <3>2
  <2> QED BY <2>3, <2>4
<1>11. FreeIn1(v) = FreeIn1(t) \ UnitsIn({c})
  BY <1>9, <1>10
<1>12. ASSUME NEW x \in Blocks
       PROVE  v.state[x] = "Allocated" <=> x = c \/ t.state[x] = "Allocated"
  <2>1. CASE t.state[x] = "Allocated"
    <3>1. ~Covers(b, x)
      BY <1>6, <2>1 DEF Leaf
    <3> QED BY <1>2, <1>5, <2>1, <3>1
  <2>2. CASE t.state[x] # "Allocated"
    BY <1>2, <2>2
  <2> QED BY <2>1, <2>2
<1>13. t.state[c] # "Allocated"
  BY <1>6 DEF Leaf
<1> QED BY <1>8, <1>11, <1>12, <1>13 DEF v, Taken

-----------------------------------------------------------------------------
(* Lists of allocators *)

Results == [as : Pools, got : SUBSET Blocks, ok : BOOLEAN]

\* bs has the CIDRs and the quarantines of xs.
SameShape(xs, bs) ==
  /\ DOMAIN bs = DOMAIN xs
  /\ \A i \in DOMAIN xs : bs[i].root = xs[i].root /\ bs[i].quarantine = xs[i].quarantine

\* Every tree is well formed and no two CIDRs overlap.
PoolOK(xs) ==
  /\ xs \in Pools
  /\ \A i \in DOMAIN xs : WellFormed(xs[i].tree, xs[i].root) /\ Len(xs[i].root) <= MinLevel
  /\ \A i, j \in DOMAIN xs : overlaps(xs[i].root, xs[j].root) => i = j

\* The allocators xs, their trees replaced by those of T.
Retreed(xs, T) == [i \in DOMAIN xs |-> [root |-> xs[i].root, tree |-> T[i], quarantine |-> xs[i].quarantine]]

\* A function on 1..m is a sequence, and so on.
LEMMA FunctionIsSeq ==
  ASSUME NEW m \in Nat, NEW S, NEW f \in [1..m -> S]
  PROVE  f \in Seq(S)
OBVIOUS

\* The entries of a list of allocators.
LEMMA PoolEntries ==
  ASSUME NEW xs \in Pools
  PROVE  /\ Len(xs) \in Nat /\ DOMAIN xs = 1..Len(xs)
         /\ \A i \in DOMAIN xs :
              /\ xs[i].root \in Blocks /\ xs[i].tree \in Trees /\ xs[i].quarantine \in Nat
              /\ xs[i] = [root |-> xs[i].root, tree |-> xs[i].tree, quarantine |-> xs[i].quarantine]
<1> DEFINE S == [root : Blocks, tree : Trees, quarantine : Nat]
<1>1. xs \in Seq(S)
  BY DEF Pools
<1>2. Len(xs) \in Nat /\ DOMAIN xs = 1..Len(xs) /\ \A i \in 1..Len(xs) : xs[i] \in S
  <2> HIDE DEF S
  <2>1. xs \in [1..Len(xs) -> S] /\ Len(xs) \in Nat
    BY <1>1, LenProperties
  <2> QED BY <2>1
<1>3. \A a \in S : /\ a.root \in Blocks /\ a.tree \in Trees /\ a.quarantine \in Nat
                   /\ a = [root |-> a.root, tree |-> a.tree, quarantine |-> a.quarantine]
  OBVIOUS
<1> HIDE DEF S
<1> QED BY <1>2, <1>3

\* An allocator with another tree.
LEMMA OtherTree ==
  ASSUME NEW xs \in Pools, NEW i \in DOMAIN xs, NEW w
  PROVE  [xs[i] EXCEPT !.tree = w] = [root |-> xs[i].root, tree |-> w, quarantine |-> xs[i].quarantine]
<1> DEFINE a == xs[i]
<1>1. a = [root |-> a.root, tree |-> a.tree, quarantine |-> a.quarantine]
  BY PoolEntries
<1> HIDE DEF a
<1>2. [a EXCEPT !.tree = w] = [root |-> a.root, tree |-> w, quarantine |-> a.quarantine]
  BY <1>1
<1> QED BY <1>2 DEF a

\* Replacing the trees by trees gives a list of allocators.
LEMMA RetreedIsPool ==
  ASSUME NEW xs \in Pools, NEW T, \A i \in DOMAIN xs : T[i] \in Trees
  PROVE  /\ Retreed(xs, T) \in Pools
         /\ SameShape(xs, Retreed(xs, T))
         /\ \A i \in DOMAIN xs : Retreed(xs, T)[i].tree = T[i]
<1> DEFINE bs == Retreed(xs, T)
<1>1. Len(xs) \in Nat /\ DOMAIN xs = 1..Len(xs)
  BY PoolEntries
<1>2. DOMAIN bs = DOMAIN xs
  BY DEF Retreed
<1>3. \A i \in DOMAIN xs :
        bs[i] = [root |-> xs[i].root, tree |-> T[i], quarantine |-> xs[i].quarantine]
  BY DEF Retreed
<1>4. bs \in [1..Len(xs) -> [root : Blocks, tree : Trees, quarantine : Nat]]
  <2>1. \A i \in DOMAIN xs : xs[i].root \in Blocks /\ xs[i].quarantine \in Nat
    BY PoolEntries
  <2> QED BY <1>1, <2>1 DEF Retreed
<1> HIDE DEF bs
<1>5. bs \in Pools
  BY <1>1, <1>4, FunctionIsSeq DEF Pools
<1>6. \A i \in DOMAIN xs : /\ bs[i].root = xs[i].root /\ bs[i].quarantine = xs[i].quarantine
                           /\ bs[i].tree = T[i]
  <2> SUFFICES ASSUME NEW i \in DOMAIN xs
               PROVE  /\ bs[i].root = xs[i].root /\ bs[i].quarantine = xs[i].quarantine
                      /\ bs[i].tree = T[i]
    OBVIOUS
  <2> DEFINE b == bs[i]
             x == xs[i].root
             y == xs[i].quarantine
             w == T[i]
  <2>1. b = [root |-> x, tree |-> w, quarantine |-> y]
    BY <1>3
  <2> HIDE DEF b, x, y, w
  <2>2. b.root = x /\ b.quarantine = y /\ b.tree = w
    BY <2>1
  <2> QED BY <2>2 DEF b, x, y, w
<1>7. SameShape(xs, bs)
  BY <1>2, <1>6 DEF SameShape
<1> QED BY <1>5, <1>6, <1>7 DEF bs

\* Replacing them by well-formed trees keeps the pool in order.
LEMMA RetreedIsOK ==
  ASSUME NEW xs, PoolOK(xs), NEW T, \A i \in DOMAIN xs : WellFormed(T[i], xs[i].root)
  PROVE  PoolOK(Retreed(xs, T))
<1>1. xs \in Pools /\ \A i \in DOMAIN xs : T[i] \in Trees
  BY DEF PoolOK, WellFormed
<1>2. /\ Retreed(xs, T) \in Pools
      /\ SameShape(xs, Retreed(xs, T))
      /\ \A i \in DOMAIN xs : Retreed(xs, T)[i].tree = T[i]
  BY <1>1, RetreedIsPool
<1> QED BY <1>2 DEF PoolOK, SameShape

\* The sweep of an allocator's tree is well formed.
LEMMA SweptIsOK ==
  ASSUME NEW xs, PoolOK(xs), NEW i \in DOMAIN xs
  PROVE  /\ SweptTree(xs[i]) \in Trees /\ xs[i].root \in Blocks
         /\ WellFormed(SweptTree(xs[i]), xs[i].root)
<1>1. xs[i].root \in Blocks /\ WellFormed(xs[i].tree, xs[i].root)
  BY PoolEntries DEF PoolOK
<1>2. WellFormed(SweptTree(xs[i]), xs[i].root)
  BY <1>1, SweepWellFormed DEF SweptTree
<1> QED BY <1>1, <1>2 DEF WellFormed

\* Every choice is a part of some block.
Sound(choice) ==
  \A g \in choice : g.from \in Blocks /\ g.take \in Blocks /\ Covers(g.from, g.take)

\* A grant leaves a tree, whatever the fields of the tree say.
LEMMA GrantIsTree ==
  ASSUME NEW t \in Trees, NEW choice, Sound(choice), NEW n \in Nodes \cup {NoNode}
  PROVE  Grant(t, choice, n) \in Trees
<1>1. CASE choice = {}
  BY <1>1 DEF Grant
<1>2. CASE choice # {}
  <2> DEFINE g == CHOOSE g \in choice : TRUE
  <2>1. g \in choice
    BY <1>2
  <2> HIDE DEF g
  <2>2. Take(t, g.from, g.take, n) \in Trees
    BY <2>1, TakeFields DEF Sound
  <2> QED BY <1>2, <2>2 DEF Grant, g
<1> QED BY <1>1, <1>2

\* AllocatePrefix takes a part of a block, whatever the fields of the tree say.
LEMMA PrefixIsSound ==
  ASSUME NEW t \in Trees, NEW r \in Blocks, NEW l
  PROVE  Sound(PrefixChoice(r, t, l))
<1>1. CASE l \in Levels(r)
  <2>1. l \in 0..Depth
    BY <1>1, LevelsAreLevels
  <2>2. ASSUME NEW b \in FirstFit(t, l)
        PROVE  b \in Blocks /\ Extend(b, l, 0) \in Blocks /\ Covers(b, Extend(b, l, 0))
    <3>1. b \in Blocks /\ Len(b) <= l
      BY DEF FirstFit, Trees
    <3> QED BY <2>1, <3>1, ExtendIsBlock DEF Bits
  <2> QED BY <1>1, <2>2 DEF Sound, PrefixChoice, Fit
<1>2. CASE l \notin Levels(r)
  BY <1>2 DEF PrefixChoice, Sound
<1> QED BY <1>1, <1>2

\* The call on each CIDR in turn: those up to the first that can serve it are
\* swept, and that one grants.
LEMMA FirstOfOutcome ==
  ASSUME NEW xs \in Pools, NEW choices, NEW n \in Nodes \cup {NoNode},
         \A i \in DOMAIN xs : Sound(choices[i])
  PROVE  /\ FirstOf(xs, choices, n) \in Results
         /\ SameShape(xs, FirstOf(xs, choices, n).as)
         /\ \E last \in Nat :
              /\ \A i \in DOMAIN xs : FirstOf(xs, choices, n).as[i].tree =
                   IF i > last THEN xs[i].tree ELSE Grant(SweptTree(xs[i]), choices[i], n)
              /\ \A i \in DOMAIN xs : i < last => choices[i] = {}
              /\ \/ /\ FirstOf(xs, choices, n).ok
                    /\ last \in DOMAIN xs /\ choices[last] # {}
                    /\ FirstOf(xs, choices, n).got = {g.take : g \in choices[last]}
                 \/ /\ ~FirstOf(xs, choices, n).ok
                    /\ last = Len(xs) /\ \A i \in DOMAIN xs : choices[i] = {}
                    /\ FirstOf(xs, choices, n).got = {}
<1> DEFINE able  == {i \in DOMAIN xs : choices[i] # {}}
           last  == IF able = {} THEN Len(xs) ELSE Min(able)
           taken == UNION {choices[i] : i \in 1..last}
           T     == [i \in DOMAIN xs |-> IF i > last THEN xs[i].tree
                                         ELSE Grant(SweptTree(xs[i]), choices[i], n)]
           r     == FirstOf(xs, choices, n)
<1>1. Len(xs) \in Nat /\ DOMAIN xs = 1..Len(xs)
  BY PoolEntries
<1>2. \A i : i \in able <=> i \in 1..Len(xs) /\ choices[i] # {}
  BY <1>1
<1> HIDE DEF able, taken, T, r
<1>3. able # {} => last \in able /\ \A k \in able : last <= k
  <2>1. ASSUME able # {} PROVE \E m \in able : \A k \in able : m <= k
    <3>1. able \in SUBSET Nat
      BY <1>1, <1>2
    <3> QED BY <2>1, <3>1, LeastNatural
  <2> QED BY <2>1 DEF Min
<1>4. able = {} => last = Len(xs)
  OBVIOUS
<1> HIDE DEF last
<1>5. last \in Nat /\ last <= Len(xs) /\ \A i \in 1..last : i \in 1..Len(xs)
  BY <1>1, <1>2, <1>3, <1>4
<1>6. \A i \in 1..Len(xs) : i < last => choices[i] = {}
  <2>1. ASSUME NEW i \in 1..Len(xs), i < last, i \in able PROVE FALSE
    BY <1>3, <1>5, <2>1
  <2> QED BY <1>2, <2>1
<1>7. /\ r.as = [i \in DOMAIN xs |-> IF i > last THEN xs[i]
                     ELSE [xs[i] EXCEPT !.tree = Grant(SweptTree(xs[i]), choices[i], n)]]
      /\ r.got = {g.take : g \in taken}
      /\ r.ok = (able # {})
      /\ r = [as |-> r.as, got |-> r.got, ok |-> r.ok]
  BY DEF FirstOf, able, last, taken, r
<1>8. \A i \in DOMAIN xs :
        T[i] = IF i > last THEN xs[i].tree ELSE Grant(SweptTree(xs[i]), choices[i], n)
  BY DEF T
<1>9. r.as = Retreed(xs, T)
  <2>1. ASSUME NEW i \in DOMAIN xs
        PROVE  (IF i > last THEN xs[i]
                ELSE [xs[i] EXCEPT !.tree = Grant(SweptTree(xs[i]), choices[i], n)])
               = [root |-> xs[i].root, tree |-> T[i], quarantine |-> xs[i].quarantine]
    <3>1. xs[i] = [root |-> xs[i].root, tree |-> xs[i].tree, quarantine |-> xs[i].quarantine]
      BY PoolEntries
    <3>2. CASE i > last
      BY <1>8, <3>1, <3>2
    <3>3. CASE ~(i > last)
      <4> DEFINE G == Grant(SweptTree(xs[i]), choices[i], n)
      <4>1. T[i] = G
        BY <1>8, <3>3
      <4>2. [xs[i] EXCEPT !.tree = G] = [root |-> xs[i].root, tree |-> G, quarantine |-> xs[i].quarantine]
        BY OtherTree
      <4> QED BY <3>3, <4>1, <4>2
    <3> QED BY <3>2, <3>3
  <2> QED BY <1>7, <2>1, Zenon DEF Retreed
<1>10. \A i \in DOMAIN xs : T[i] \in Trees
  <2> SUFFICES ASSUME NEW i \in DOMAIN xs PROVE T[i] \in Trees
    OBVIOUS
  <2>1. xs[i].tree \in Trees
    BY PoolEntries
  <2>2. SweptTree(xs[i]) \in Trees
    BY <2>1, SweepIsTree DEF SweptTree
  <2>3. Grant(SweptTree(xs[i]), choices[i], n) \in Trees
    BY <2>2, GrantIsTree
  <2> QED BY <1>8, <2>1, <2>3
<1>11. /\ r.as \in Pools /\ SameShape(xs, r.as)
       /\ \A i \in DOMAIN xs : r.as[i].tree = T[i]
  <2>1. /\ Retreed(xs, T) \in Pools
        /\ SameShape(xs, Retreed(xs, T))
        /\ \A i \in DOMAIN xs : Retreed(xs, T)[i].tree = T[i]
    BY <1>10, RetreedIsPool
  <2> QED BY <1>9, <2>1
<1>12. \A g \in taken : \E i \in 1..last : g \in choices[i]
  BY DEF taken
<1>13. r.got \subseteq Blocks
  <2>1. \A g \in taken : g.take \in Blocks
    BY <1>1, <1>5, <1>12 DEF Sound
  <2> QED BY <1>7, <2>1
<1>14. r \in Results
  <2>1. r.ok \in BOOLEAN
    BY <1>7
  <2> QED BY <1>7, <1>11, <1>13, <2>1 DEF Results
<1>15. CASE able # {}
  <2>1. last \in DOMAIN xs /\ choices[last] # {} /\ last \in 1..last
    BY <1>1, <1>2, <1>3, <1>15
  <2>2. \A i \in 1..last : i = last \/ choices[i] = {}
    BY <1>1, <1>5, <1>6
  <2>3. taken = choices[last]
    BY <2>1, <2>2 DEF taken
  <2>4. r.ok /\ r.got = {g.take : g \in choices[last]}
    BY <1>7, <1>15, <2>3
  <2> QED BY <1>1, <1>5, <1>6, <1>8, <1>11, <1>14, <2>1, <2>4 DEF r
<1>16. CASE able = {}
  <2>1. last = Len(xs) /\ \A i \in DOMAIN xs : choices[i] = {}
    BY <1>1, <1>2, <1>4, <1>16
  <2>2. taken = {}
    BY <1>1, <1>5, <2>1 DEF taken
  <2>3. ~r.ok /\ r.got = {}
    BY <1>7, <1>16, <2>2
  <2> QED BY <1>1, <1>5, <1>6, <1>8, <1>11, <1>14, <2>1, <2>3 DEF r
<1> QED BY <1>15, <1>16

\* If every allocator takes a part of a free block, the pool stays in order.
LEMMA FirstOfIsOK ==
  ASSUME NEW xs, PoolOK(xs), NEW choices, NEW n \in Nodes \cup {NoNode},
         \A i \in DOMAIN xs : FromFree(SweptTree(xs[i]), choices[i])
  PROVE  PoolOK(FirstOf(xs, choices, n).as)
<1> DEFINE r == FirstOf(xs, choices, n)
<1>1. xs \in Pools /\ \A i \in DOMAIN xs : Sound(choices[i])
  BY DEF PoolOK, FromFree, Sound
<1>2. /\ r \in Results /\ SameShape(xs, r.as)
      /\ \E last \in Nat : \A i \in DOMAIN xs : r.as[i].tree =
           IF i > last THEN xs[i].tree ELSE Grant(SweptTree(xs[i]), choices[i], n)
  <2>1. \E last \in Nat :
              /\ \A i \in DOMAIN xs : r.as[i].tree =
                   IF i > last THEN xs[i].tree ELSE Grant(SweptTree(xs[i]), choices[i], n)
              /\ \A i \in DOMAIN xs : i < last => choices[i] = {}
              /\ \/ /\ r.ok
                    /\ last \in DOMAIN xs /\ choices[last] # {}
                    /\ r.got = {g.take : g \in choices[last]}
                 \/ /\ ~r.ok
                    /\ last = Len(xs) /\ \A i \in DOMAIN xs : choices[i] = {}
                    /\ r.got = {}
    BY <1>1, FirstOfOutcome, Zenon
  <2>2. r \in Results /\ SameShape(xs, r.as)
    BY <1>1, FirstOfOutcome, Zenon
  <2> HIDE DEF r
  <2> QED BY <2>1, <2>2, Zenon
<1> HIDE DEF r
<1>3. ASSUME NEW i \in DOMAIN xs
      PROVE  WellFormed(r.as[i].tree, xs[i].root) /\ Len(xs[i].root) <= MinLevel
  <2>1. WellFormed(xs[i].tree, xs[i].root) /\ xs[i].root \in Blocks /\ Len(xs[i].root) <= MinLevel
    BY PoolEntries DEF PoolOK
  <2>2. WellFormed(Grant(SweptTree(xs[i]), choices[i], n), xs[i].root)
    BY SweptIsOK, GrantWellFormed
  <2> QED BY <1>2, <2>1, <2>2
<1>4. r.as \in Pools
  BY <1>2 DEF Results
<1>5. PoolOK(r.as)
  BY <1>2, <1>3, <1>4 DEF PoolOK, SameShape
<1> QED BY <1>5 DEF r

-----------------------------------------------------------------------------
(* What a call takes out of a pool *)

\* A minimum block is free in a pool when it is free in one of its swept trees.
LEMMA FreeUnitsMember ==
  ASSUME NEW xs, NEW u
  PROVE  u \in FreeUnits(xs) <=> \E i \in DOMAIN xs : u \in FreeIn1(SweptTree(xs[i]))
<1> DEFINE F(i) == {b \in Blocks : SweptTree(xs[i]).state[b] = "Free"}
<1>1. \A i : F(i) \in SUBSET Blocks
  OBVIOUS
<1>2. UNION {F(i) : i \in DOMAIN xs} \in SUBSET Blocks
  BY <1>1
<1>3. FreeUnits(xs) = UnitsIn(UNION {F(i) : i \in DOMAIN xs})
  BY DEF FreeUnits
<1>4. \A i : FreeIn1(SweptTree(xs[i])) = UnitsIn(F(i))
  BY DEF FreeIn1
<1> HIDE DEF F
<1> QED BY <1>1, <1>2, <1>3, <1>4, UnitMembers

\* The blocks of a pool in a state.
LEMMA InStateMember ==
  ASSUME NEW xs, NEW s, NEW x
  PROVE  x \in InState(xs, s) <=> \E i \in DOMAIN xs : x \in Blocks /\ xs[i].tree.state[x] = s
BY DEF InState

\* No block lies in two CIDRs.
LEMMA RootsApart ==
  ASSUME NEW xs, PoolOK(xs), NEW i \in DOMAIN xs, NEW j \in DOMAIN xs,
         NEW z \in Blocks, Covers(xs[i].root, z), Covers(xs[j].root, z)
  PROVE  i = j
<1>1. xs[i].root \in Blocks /\ xs[j].root \in Blocks
  BY PoolEntries DEF PoolOK
<1>2. Covers(xs[i].root, xs[j].root) \/ Covers(xs[j].root, xs[i].root)
  BY <1>1, CoversComparable
<1> QED BY <1>1, <1>2, TablesAreCovers DEF PoolOK, overlaps

\* A free minimum block of an allocator lies in its CIDR.
LEMMA FreeUnder ==
  ASSUME NEW xs, PoolOK(xs), NEW i \in DOMAIN xs, NEW u \in FreeIn1(SweptTree(xs[i]))
  PROVE  u \in Blocks /\ Len(u) = MinLevel /\ Covers(xs[i].root, u)
<1> DEFINE t == SweptTree(xs[i])
           F == {b \in Blocks : t.state[b] = "Free"}
<1>1. xs[i].root \in Blocks /\ IsTree(t, xs[i].root)
  BY SweptIsOK DEF WellFormed
<1>2. u \in UnitsIn(F) /\ F \in SUBSET Blocks
  BY DEF FreeIn1
<1>3. PICK b \in F : u \in Blocks /\ Len(u) = MinLevel /\ Covers(b, u)
  <2> HIDE DEF F
  <2> QED BY <1>2, UnitMembers
<1>4. Covers(xs[i].root, b)
  BY <1>1 DEF IsTree
<1> QED BY <1>1, <1>3, <1>4, CoversTransitive

\* Sweeping some of the trees changes neither what is free after a sweep nor what
\* is handed out.
LEMMA SweptOnly ==
  ASSUME NEW xs, PoolOK(xs), NEW i \in DOMAIN xs, NEW y,
         y.tree = xs[i].tree \/ y.tree = SweptTree(xs[i])
  PROVE  /\ SweptTree(y) = SweptTree(xs[i])
         /\ \A x \in Blocks : y.tree.state[x] = "Allocated" <=> xs[i].tree.state[x] = "Allocated"
<1>1. xs[i].root \in Blocks /\ WellFormed(xs[i].tree, xs[i].root)
  BY PoolEntries DEF PoolOK
<1>2. Sweep(Sweep(xs[i].tree, now), now) = Sweep(xs[i].tree, now)
  BY <1>1, SweepLeavesNothingDue, SweepAgain
<1>3. \A x \in Blocks : Sweep(xs[i].tree, now).state[x] = "Allocated"
                        <=> xs[i].tree.state[x] = "Allocated"
  BY <1>1, SweepSameAllocated
<1> QED BY <1>2, <1>3 DEF SweptTree

\* Sweeping some of the trees takes nothing out of a pool.
LEMMA NothingTaken ==
  ASSUME NEW xs, PoolOK(xs), NEW ys, SameShape(xs, ys),
         \A i \in DOMAIN xs : ys[i].tree = xs[i].tree \/ ys[i].tree = SweptTree(xs[i])
  PROVE  /\ FreeUnits(ys) = FreeUnits(xs)
         /\ InState(ys, "Allocated") = InState(xs, "Allocated")
<1>1. \A i \in DOMAIN xs :
        /\ SweptTree(ys[i]) = SweptTree(xs[i])
        /\ \A x \in Blocks : ys[i].tree.state[x] = "Allocated" <=> xs[i].tree.state[x] = "Allocated"
  BY SweptOnly
<1>2. DOMAIN ys = DOMAIN xs
  BY DEF SameShape
<1>3. \A u : u \in FreeUnits(ys) <=> u \in FreeUnits(xs)
  BY <1>1, <1>2, FreeUnitsMember
<1>4. \A x : x \in InState(ys, "Allocated") <=> x \in InState(xs, "Allocated")
  BY <1>1, <1>2, InStateMember
<1> QED BY <1>3, <1>4

\* The pool ys is xs after the block c was handed out.
HandedOut(xs, ys, c) ==
  /\ InState(ys, "Allocated") = InState(xs, "Allocated") \cup {c}
  /\ c \notin InState(xs, "Allocated")
  /\ UnitsIn({c}) \subseteq FreeUnits(xs)
  /\ FreeUnits(ys) = FreeUnits(xs) \ UnitsIn({c})

\* Taking c in one CIDR hands out c, takes its minimum blocks, and nothing else.
LEMMA OneTaken ==
  ASSUME NEW xs, PoolOK(xs), NEW ys, SameShape(xs, ys),
         NEW k \in DOMAIN xs, NEW b \in Blocks, SweptTree(xs[k]).state[b] = "Free",
         NEW c \in Blocks, Covers(b, c), Len(c) <= MinLevel, NEW n \in Nodes \cup {NoNode},
         ys[k].tree = Take(SweptTree(xs[k]), b, c, n),
         \A i \in DOMAIN xs : i # k => ys[i].tree = xs[i].tree \/ ys[i].tree = SweptTree(xs[i])
  PROVE  HandedOut(xs, ys, c)
<1> DEFINE t == SweptTree(xs[k])
           r == xs[k].root
<1>1. r \in Blocks /\ WellFormed(t, r) /\ IsTree(t, r)
  BY SweptIsOK DEF WellFormed
<1>2. Covers(r, c)
  <2>1. Covers(r, b)
    BY <1>1 DEF IsTree
  <2> QED BY <1>1, <2>1, CoversTransitive
<1> HIDE DEF r
<1>15. t.state[b] = "Free" /\ ys[k].tree = Take(t, b, c, n)
  OBVIOUS
<1> HIDE DEF t
<1>16. Taken(t, ys[k].tree, c)
  BY <1>1, <1>15, TakeUnits
<1>3. /\ UnitsIn({c}) \subseteq FreeIn1(t)
      /\ FreeIn1(ys[k].tree) = FreeIn1(t) \ UnitsIn({c})
      /\ \A x \in Blocks : ys[k].tree.state[x] = "Allocated" <=> x = c \/ t.state[x] = "Allocated"
      /\ t.state[c] # "Allocated"
  BY <1>16 DEF Taken
<1>4. SweptTree(ys[k]) = ys[k].tree
  <2>1. xs[k].root \in Blocks /\ WellFormed(xs[k].tree, xs[k].root)
    BY PoolEntries DEF PoolOK
  <2>2. Due(t, now) = {}
    BY <2>1, SweepLeavesNothingDue DEF SweptTree, t
  <2>3. Sweep(Take(t, b, c, n), now) = Take(t, b, c, n)
    BY <2>2, SweepAgain
  <2> QED BY <1>15, <2>3 DEF SweptTree
<1>5. \A i \in DOMAIN xs : i # k =>
        /\ SweptTree(ys[i]) = SweptTree(xs[i])
        /\ \A x \in Blocks : ys[i].tree.state[x] = "Allocated" <=> xs[i].tree.state[x] = "Allocated"
  BY SweptOnly
<1>6. \A x \in Blocks : t.state[x] = "Allocated" <=> xs[k].tree.state[x] = "Allocated"
  <2>1. xs[k].root \in Blocks /\ WellFormed(xs[k].tree, xs[k].root)
    BY PoolEntries DEF PoolOK
  <2> QED BY <2>1, SweepSameAllocated DEF SweptTree, t
<1>7. DOMAIN ys = DOMAIN xs
  BY DEF SameShape
<1>8. ASSUME NEW i \in DOMAIN xs, NEW u \in FreeIn1(SweptTree(xs[i])), u \in UnitsIn({c})
      PROVE  i = k
  <2>1. u \in Blocks /\ Covers(xs[i].root, u) /\ Covers(xs[k].root, u)
    BY <1>3, <1>8, FreeUnder DEF t
  <2> QED BY <2>1, RootsApart
<1>9. \A i \in DOMAIN xs : FreeIn1(SweptTree(ys[i])) = FreeIn1(SweptTree(xs[i])) \ UnitsIn({c})
  <2> SUFFICES ASSUME NEW i \in DOMAIN xs
               PROVE  FreeIn1(SweptTree(ys[i])) = FreeIn1(SweptTree(xs[i])) \ UnitsIn({c})
    OBVIOUS
  <2>1. CASE i = k
    BY <1>3, <1>4, <2>1 DEF t
  <2>2. CASE i # k
    <3>1. FreeIn1(SweptTree(xs[i])) \cap UnitsIn({c}) = {}
      BY <1>8, <2>2
    <3> QED BY <1>5, <2>2, <3>1
  <2> QED BY <2>1, <2>2
<1>10. FreeUnits(ys) = FreeUnits(xs) \ UnitsIn({c})
  <2>1. \A u : u \in FreeUnits(ys) <=> u \in FreeUnits(xs) /\ u \notin UnitsIn({c})
    <3>1. \A u : u \in FreeUnits(ys) <=> \E i \in DOMAIN xs : u \in FreeIn1(SweptTree(xs[i])) \ UnitsIn({c})
      <4>1. \A u : u \in FreeUnits(ys) <=> \E i \in DOMAIN xs : u \in FreeIn1(SweptTree(ys[i]))
        BY <1>7, FreeUnitsMember
      <4>2. \A u : (\E i \in DOMAIN xs : u \in FreeIn1(SweptTree(ys[i])))
                   <=> (\E i \in DOMAIN xs : u \in FreeIn1(SweptTree(xs[i])) \ UnitsIn({c}))
        <5>1. ASSUME NEW u, NEW i \in DOMAIN xs
              PROVE  u \in FreeIn1(SweptTree(ys[i])) <=> u \in FreeIn1(SweptTree(xs[i])) \ UnitsIn({c})
          BY <1>9
        <5> HIDE DEF FreeIn1
        <5> QED BY <5>1, Zenon
      <4> QED BY <4>1, <4>2, Zenon
    <3> QED BY <3>1, FreeUnitsMember
  <2> QED BY <2>1
<1>11. UnitsIn({c}) \subseteq FreeUnits(xs)
  BY <1>3, FreeUnitsMember DEF t
<1>12. c \notin InState(xs, "Allocated")
  <2>1. ASSUME NEW i \in DOMAIN xs, xs[i].tree.state[c] = "Allocated" PROVE FALSE
    <3>1. IsTree(xs[i].tree, xs[i].root)
      BY DEF PoolOK, WellFormed
    <3>2. Covers(xs[i].root, c)
      BY <2>1, <3>1 DEF IsTree
    <3>3. i = k
      BY <1>2, <3>2, RootsApart DEF r
    <3> QED BY <1>3, <1>6, <2>1, <3>3
  <2> QED BY <2>1, InStateMember
<1>13. \A x \in Blocks : ys[k].tree.state[x] = "Allocated"
                         <=> x = c \/ xs[k].tree.state[x] = "Allocated"
  BY <1>3, <1>6
<1>14. InState(ys, "Allocated") = InState(xs, "Allocated") \cup {c}
  <2>1. \A x : x \in InState(ys, "Allocated") <=> x \in InState(xs, "Allocated") \/ x = c
    <3> SUFFICES ASSUME NEW x \in Blocks
                 PROVE  (\E i \in DOMAIN xs : ys[i].tree.state[x] = "Allocated")
                        <=> (\E i \in DOMAIN xs : xs[i].tree.state[x] = "Allocated") \/ x = c
      BY <1>7, InStateMember
    <3> QED BY <1>5, <1>13
  <2> QED BY <2>1
<1> QED BY <1>10, <1>11, <1>12, <1>14 DEF HandedOut

\* The call that made r out of xs was for w minimum blocks: it succeeds exactly
\* when that many are free, and then hands out just that many that were.
Exact(xs, w, r) ==
  /\ r \in Results /\ PoolOK(r.as) /\ SameShape(xs, r.as)
  /\ r.ok <=> Cardinality(FreeUnits(xs)) >= w
  /\ r.ok => /\ InState(r.as, "Allocated") = InState(xs, "Allocated") \cup r.got
             /\ InState(xs, "Allocated") \cap r.got = {}
             /\ \A x \in r.got : Len(x) \in MaxLevel..MinLevel
             /\ UnitsIn(r.got) \subseteq FreeUnits(xs)
             /\ FreeUnits(r.as) = FreeUnits(xs) \ UnitsIn(r.got)
             /\ Cardinality(UnitsIn(r.got)) = w

\* What is free in a pool is a finite set.
LEMMA FreeUnitsAreFinite ==
  ASSUME NEW xs
  PROVE  IsFiniteSet(FreeUnits(xs)) /\ Cardinality(FreeUnits(xs)) \in Nat
<1> DEFINE F(i) == {b \in Blocks : SweptTree(xs[i]).state[b] = "Free"}
<1>1. UNION {F(i) : i \in DOMAIN xs} \in SUBSET Blocks
  OBVIOUS
<1>2. FreeUnits(xs) = UnitsIn(UNION {F(i) : i \in DOMAIN xs})
  BY DEF FreeUnits
<1> HIDE DEF F
<1>3. IsFiniteSet(FreeUnits(xs))
  BY <1>1, <1>2, UnitsAreFinite
<1> QED BY <1>3, FS_CardinalityType

\* AllocatePrefix for one level.
LEMMA PrefixOutcome ==
  ASSUME NEW xs, PoolOK(xs), NEW l \in MaxLevel..MinLevel, NEW n \in Nodes \cup {NoNode}
  PROVE  /\ PrefixResult(xs, l, n) \in Results
         /\ PoolOK(PrefixResult(xs, l, n).as)
         /\ SameShape(xs, PrefixResult(xs, l, n).as)
         /\ PrefixResult(xs, l, n).ok => Exact(xs, 2^(MinLevel - l), PrefixResult(xs, l, n))
         /\ ~PrefixResult(xs, l, n).ok =>
              /\ FreeUnits(PrefixResult(xs, l, n).as) = FreeUnits(xs)
              /\ InState(PrefixResult(xs, l, n).as, "Allocated") = InState(xs, "Allocated")
              /\ l = MinLevel => FreeUnits(xs) = {}
<1> DEFINE C == [i \in DOMAIN xs |-> PrefixChoice(xs[i].root, SweptTree(xs[i]), l)]
           r == FirstOf(xs, C, n)
<1>1. PrefixResult(xs, l, n) = r
  BY DEF PrefixResult
<1>2. \A i \in DOMAIN xs : C[i] = PrefixChoice(xs[i].root, SweptTree(xs[i]), l)
  OBVIOUS
<1> HIDE DEF C
<1>3. \A i \in DOMAIN xs : /\ xs[i].root \in Blocks /\ WellFormed(SweptTree(xs[i]), xs[i].root)
                           /\ FromFree(SweptTree(xs[i]), C[i])
  BY <1>2, SweptIsOK, PrefixFromFree
<1>4. xs \in Pools /\ \A i \in DOMAIN xs : Sound(C[i])
  BY <1>3 DEF PoolOK, FromFree, Sound
<1>5. r \in Results /\ SameShape(xs, r.as)
  BY <1>4, FirstOfOutcome, Zenon
<1>6. PICK last \in Nat :
        /\ \A i \in DOMAIN xs : r.as[i].tree =
             IF i > last THEN xs[i].tree ELSE Grant(SweptTree(xs[i]), C[i], n)
        /\ \A i \in DOMAIN xs : i < last => C[i] = {}
        /\ \/ /\ r.ok
              /\ last \in DOMAIN xs /\ C[last] # {}
              /\ r.got = {g.take : g \in C[last]}
           \/ /\ ~r.ok
              /\ last = Len(xs) /\ \A i \in DOMAIN xs : C[i] = {}
              /\ r.got = {}
  BY <1>4, FirstOfOutcome, Zenon
<1>7. PoolOK(r.as)
  BY <1>3, FirstOfIsOK, Zenon
<1> HIDE DEF r
<1>8. \A i \in DOMAIN xs :
        \/ /\ C[i] = {}
           /\ \A b \in Blocks : SweptTree(xs[i]).state[b] = "Free" => Len(b) > l
        \/ \E b \in Blocks :
             /\ SweptTree(xs[i]).state[b] = "Free" /\ Len(b) <= l
             /\ Extend(b, l, 0) \in Blocks /\ Len(Extend(b, l, 0)) = l
             /\ Covers(b, Extend(b, l, 0))
             /\ C[i] = {[from |-> b, take |-> Extend(b, l, 0)]}
  BY <1>2, <1>3, PrefixPick
<1>9. \A i \in DOMAIN xs : C[i] = {} => r.as[i].tree = xs[i].tree \/ r.as[i].tree = SweptTree(xs[i])
  BY <1>6 DEF Grant
<1>10. DOMAIN xs \subseteq Nat
  BY <1>4, PoolEntries
<1>11. CASE r.ok
  <2>1. last \in DOMAIN xs /\ C[last] # {} /\ r.got = {g.take : g \in C[last]}
    BY <1>6, <1>11
  <2>2. PICK b \in Blocks :
             /\ SweptTree(xs[last]).state[b] = "Free" /\ Len(b) <= l
             /\ Extend(b, l, 0) \in Blocks /\ Len(Extend(b, l, 0)) = l
             /\ Covers(b, Extend(b, l, 0))
             /\ C[last] = {[from |-> b, take |-> Extend(b, l, 0)]}
    BY <1>8, <2>1
  <2> DEFINE c == Extend(b, l, 0)
  <2>3. c \in Blocks /\ Len(c) = l /\ Covers(b, c) /\ Len(c) <= MinLevel
    BY <2>2, LevelsAssumption
  <2>4. C[last] = {[from |-> b, take |-> c]} /\ r.got = {c}
    BY <2>1, <2>2
  <2> HIDE DEF c
  <2>5. r.as[last].tree = Take(SweptTree(xs[last]), b, c, n)
    <3>1. r.as[last].tree = Grant(SweptTree(xs[last]), C[last], n)
      BY <1>6, <1>10, <2>1
    <3>2. (CHOOSE g \in C[last] : TRUE) = [from |-> b, take |-> c]
      BY <2>4
    <3> QED BY <2>4, <3>1, <3>2 DEF Grant
  <2>6. ASSUME NEW i \in DOMAIN xs, i # last
        PROVE  r.as[i].tree = xs[i].tree \/ r.as[i].tree = SweptTree(xs[i])
    <3>1. i > last \/ i < last
      BY <1>10, <2>6
    <3> QED BY <1>6, <1>9, <3>1
  <2>7. HandedOut(xs, r.as, c)
    <3>1. SweptTree(xs[last]).state[b] = "Free"
      BY <2>2
    <3>2. \A i \in DOMAIN xs : i # last =>
            r.as[i].tree = xs[i].tree \/ r.as[i].tree = SweptTree(xs[i])
      BY <2>6
    <3> QED BY <1>5, <2>1, <2>3, <2>5, <3>1, <3>2, OneTaken, Zenon
  <2>8. IsFiniteSet(UnitsIn({c})) /\ Cardinality(UnitsIn({c})) = 2^(MinLevel - l)
    BY <2>3, UnitsOfBlock
  <2>9. Cardinality(FreeUnits(xs)) >= 2^(MinLevel - l)
    <3>1. Cardinality(UnitsIn({c})) <= Cardinality(FreeUnits(xs))
      BY <2>7, FreeUnitsAreFinite, FS_Subset DEF HandedOut
    <3>2. Cardinality(FreeUnits(xs)) \in Nat /\ 2^(MinLevel - l) \in Nat
      <4>1. MinLevel - l \in Nat
        BY LevelsAssumption
      <4> QED BY <4>1, FreeUnitsAreFinite, PowerIsNat
    <3> QED BY <2>8, <3>1, <3>2
  <2>10. \A x \in {c} : Len(x) \in MaxLevel..MinLevel
    BY <2>3
  <2>11. Exact(xs, 2^(MinLevel - l), r)
    <3> DEFINE w == 2^(MinLevel - l)
    <3>1. r.got = {c} /\ Cardinality(UnitsIn({c})) = w /\ Cardinality(FreeUnits(xs)) >= w
      BY <2>4, <2>8, <2>9
    <3> HIDE DEF w
    <3>2. /\ InState(r.as, "Allocated") = InState(xs, "Allocated") \cup r.got
          /\ InState(xs, "Allocated") \cap r.got = {}
          /\ UnitsIn(r.got) \subseteq FreeUnits(xs)
          /\ FreeUnits(r.as) = FreeUnits(xs) \ UnitsIn(r.got)
      BY <2>7, <3>1 DEF HandedOut
    <3>3. Cardinality(UnitsIn(r.got)) = w
      BY <3>1
    <3>4. \A x \in r.got : Len(x) \in MaxLevel..MinLevel
      BY <2>10, <3>1
    <3>5. Exact(xs, w, r)
      BY <1>5, <1>7, <1>11, <3>1, <3>2, <3>3, <3>4 DEF Exact
    <3> QED BY <3>5 DEF w
  <2> QED BY <1>1, <1>5, <1>7, <1>11, <2>11
<1>12. CASE ~r.ok
  <2>1. \A i \in DOMAIN xs : C[i] = {}
    BY <1>6, <1>12
  <2>2. FreeUnits(r.as) = FreeUnits(xs) /\ InState(r.as, "Allocated") = InState(xs, "Allocated")
    BY <1>5, <1>9, <2>1, NothingTaken
  <2>3. ASSUME l = MinLevel PROVE FreeUnits(xs) = {}
    <3>1. ASSUME NEW u \in FreeUnits(xs) PROVE FALSE
      <4>1. PICK i \in DOMAIN xs : u \in FreeIn1(SweptTree(xs[i]))
        BY FreeUnitsMember
      <4> DEFINE F == {b \in Blocks : SweptTree(xs[i]).state[b] = "Free"}
      <4>2. u \in UnitsIn(F) /\ F \in SUBSET Blocks
        BY <4>1 DEF FreeIn1
      <4>3. \A b \in F : b \in Blocks /\ SweptTree(xs[i]).state[b] = "Free"
        OBVIOUS
      <4> HIDE DEF F
      <4>4. PICK b \in F : u \in Blocks /\ Len(u) = MinLevel /\ Covers(b, u)
        BY <4>2, UnitMembers
      <4>5. Len(b) > l
        BY <1>8, <2>1, <4>3
      <4>6. Len(b) <= MinLevel /\ Len(b) \in Nat
        BY <4>3, <4>4, BlockIsSeq, LevelsAssumption DEF Covers
      <4> QED BY <2>3, <4>5, <4>6, LevelsAssumption
    <3> QED BY <3>1
  <2> QED BY <1>1, <1>5, <1>7, <1>12, <2>2, <2>3
<1> QED BY <1>11, <1>12

-----------------------------------------------------------------------------
(* Falling back to smaller blocks *)

\* A result is a list of allocators, a set of blocks and a flag.
LEMMA ResultFields ==
  ASSUME NEW r \in Results
  PROVE  /\ r.as \in Pools /\ r.got \subseteq Blocks /\ r.ok \in BOOLEAN
         /\ \A S \in SUBSET Blocks : /\ [r EXCEPT !.got = S] \in Results
                                     /\ [r EXCEPT !.got = S].as = r.as
                                     /\ [r EXCEPT !.got = S].got = S
                                     /\ [r EXCEPT !.got = S].ok = r.ok
BY DEF Results

\* AllocatePrefix on any list of allocators.
LEMMA PrefixIsResult ==
  ASSUME NEW xs \in Pools, NEW l, NEW n \in Nodes \cup {NoNode}
  PROVE  PrefixResult(xs, l, n) \in Results
<1> DEFINE C == [i \in DOMAIN xs |-> PrefixChoice(xs[i].root, SweptTree(xs[i]), l)]
<1>1. ASSUME NEW i \in DOMAIN xs PROVE Sound(C[i])
  <2>1. xs[i].root \in Blocks /\ SweptTree(xs[i]) \in Trees
    BY PoolEntries, SweepIsTree DEF SweptTree
  <2> QED BY <2>1, PrefixIsSound
<1> HIDE DEF C
<1>2. FirstOf(xs, C, n) \in Results
  BY <1>1, FirstOfOutcome, Zenon
<1> QED BY <1>2 DEF PrefixResult, C

\* So does the call that may fall back to two halves.
LEMMA OneOrTwoIsResult ==
  ASSUME NEW xs \in Pools, NEW l, NEW n \in Nodes \cup {NoNode}, NEW half \in [Pools -> Results]
  PROVE  OneOrTwo(xs, l, n, half) \in Results
<1> DEFINE one    == PrefixResult(xs, l, n)
           first  == half[one.as]
           second == half[first.as]
<1>1. one \in Results
  BY PrefixIsResult
<1>2. one.as \in Pools
  BY <1>1, ResultFields
<1>3. OneOrTwo(xs, l, n, half) = IF one.ok THEN one
                                ELSE IF ~first.ok THEN [first EXCEPT !.got = {}]
                                ELSE [second EXCEPT !.got = @ \cup first.got]
  BY DEF OneOrTwo
<1> HIDE DEF one
<1>4. first \in Results
  BY <1>2
<1>5. first.as \in Pools /\ first.got \subseteq Blocks
  BY <1>4, ResultFields
<1> HIDE DEF first
<1>6. second \in Results
  BY <1>5
<1> HIDE DEF second
<1>7. second.got \cup first.got \in SUBSET Blocks
  BY <1>5, <1>6, ResultFields
<1>8. [second EXCEPT !.got = @ \cup first.got] = [second EXCEPT !.got = second.got \cup first.got]
  BY <1>6 DEF Results
<1>9. [second EXCEPT !.got = @ \cup first.got] \in Results
  BY <1>6, <1>7, <1>8, ResultFields
<1>10. [first EXCEPT !.got = {}] \in Results
  BY <1>4, ResultFields
<1> QED BY <1>1, <1>3, <1>9, <1>10

\* The recursion of allocatePrefixOrSplit, from the minimum level upwards.
LEMMA OrSplitSteps ==
  ASSUME NEW n \in Nodes \cup {NoNode}
  PROVE  \E h : /\ \A xs, l : allocatePrefixOrSplit(xs, l, n) = h[MinLevel - l][xs]
                /\ h[0] = [xs \in Pools |-> PrefixResult(xs, MinLevel, n)]
                /\ \A k \in 1..MinLevel :
                     h[k] = [xs \in Pools |-> OneOrTwo(xs, MinLevel - k, n, h[k - 1])]
<1> DEFINE S == [Pools -> Results]
           s == [xs \in Pools |-> PrefixResult(xs, MinLevel, n)]
           up(k, g) == [xs \in Pools |-> OneOrTwo(xs, MinLevel - k, n, g)]
           F == [k \in 1..MinLevel |-> [g \in S |-> up(k, g)]]
           atOrBelow[k \in 0..MinLevel] ==
             IF k = 0 THEN [xs \in Pools |-> PrefixResult(xs, MinLevel, n)]
             ELSE [xs \in Pools |-> OneOrTwo(xs, MinLevel - k, n, atOrBelow[k - 1])]
<1>1. MinLevel \in Nat
  BY LevelsAssumption
<1>2. s \in S
  BY PrefixIsResult
<1>3. \A k, g : g \in S => up(k, g) \in S
  BY OneOrTwoIsResult
<1>4. \A xs, l : allocatePrefixOrSplit(xs, l, n) = atOrBelow[MinLevel - l][xs]
  BY DEF allocatePrefixOrSplit, atOrBelow
<1>5. atOrBelow = CHOOSE g : g = [k \in 0..MinLevel |-> IF k = 0 THEN s ELSE up(k, g[k - 1])]
  BY DEF atOrBelow
<1> HIDE DEF atOrBelow, s, up
<1>6. F \in [1..MinLevel -> [S -> S]] /\ \A k \in 1..MinLevel : \A g \in S : F[k][g] = up(k, g)
  BY <1>3
<1> HIDE DEF S, F
<1>7. PICK f \in [0..MinLevel -> S] : f[0] = s /\ \A k \in 1..MinLevel : f[k] = F[k][f[k - 1]]
  <2>1. F \in [1..MinLevel -> [S -> S]]
    BY <1>6
  <2>2. HasRun(MinLevel, S, s, F)
    BY <1>1, <1>2, <2>1, Iterates
  <2> QED BY <2>2 DEF HasRun
<1>8. f = [k \in 0..MinLevel |-> IF k = 0 THEN s ELSE up(k, f[k - 1])]
  <2>1. ASSUME NEW k \in 1..MinLevel PROVE f[k] = up(k, f[k - 1])
    <3>1. k - 1 \in 0..MinLevel
      BY <1>1
    <3> QED BY <1>6, <1>7, <3>1
  <2>2. \A k \in 0..MinLevel : f[k] = IF k = 0 THEN s ELSE up(k, f[k - 1])
    BY <1>1, <1>7, <2>1
  <2> QED BY <2>2
<1>9. atOrBelow = [k \in 0..MinLevel |-> IF k = 0 THEN s ELSE up(k, atOrBelow[k - 1])]
  BY <1>5, <1>8
<1>10. /\ atOrBelow[0] = s
       /\ \A k \in 1..MinLevel : atOrBelow[k] = up(k, atOrBelow[k - 1])
  BY <1>1, <1>9
<1> QED BY <1>4, <1>10 DEF s, up

-----------------------------------------------------------------------------
(* Calls one after the other *)

\* The size of what was taken and of what is left.
LEMMA TakenAndLeft ==
  ASSUME NEW A, IsFiniteSet(A), NEW B \in SUBSET A
  PROVE  /\ IsFiniteSet(B) /\ IsFiniteSet(A \ B)
         /\ Cardinality(A) \in Nat /\ Cardinality(B) \in Nat
         /\ Cardinality(A \ B) = Cardinality(A) - Cardinality(B)
<1> DEFINE D == A \ B
<1>1. IsFiniteSet(B) /\ IsFiniteSet(D)
  BY FS_Subset
<1>2. B \cup D = A /\ B \cap D = {}
  OBVIOUS
<1> HIDE DEF D
<1>3. Cardinality(A) \in Nat /\ Cardinality(B) \in Nat /\ Cardinality(D) \in Nat
  BY <1>1, FS_CardinalityType
<1>4. Cardinality(A) = Cardinality(B) + Cardinality(D)
  BY <1>1, <1>2, TwoParts
<1>5. Cardinality(D) = Cardinality(A) - Cardinality(B)
  BY <1>3, <1>4
<1> QED BY <1>1, <1>3, <1>5 DEF D

\* The shape of a pool after two calls.
LEMMA ShapeTwice ==
  ASSUME NEW xs, NEW ys, NEW zs, SameShape(xs, ys), SameShape(ys, zs)
  PROVE  SameShape(xs, zs)
BY DEF SameShape

\* A second call takes what the first one left.
LEMMA ExactThen ==
  ASSUME NEW xs, NEW v \in Nat, NEW w \in Nat, NEW a, NEW b,
         Exact(xs, v, a), a.ok, Exact(a.as, w, b)
  PROVE  /\ b.ok <=> Cardinality(FreeUnits(xs)) >= v + w
         /\ \A c : c \in Results /\ c.as = b.as /\ c.ok = b.ok /\ (b.ok => c.got = a.got \cup b.got)
                   => Exact(xs, v + w, c)
<1>1. /\ UnitsIn(a.got) \subseteq FreeUnits(xs)
      /\ FreeUnits(a.as) = FreeUnits(xs) \ UnitsIn(a.got)
      /\ Cardinality(UnitsIn(a.got)) = v
      /\ a.got \in SUBSET Blocks
  BY ResultFields DEF Exact
<1>2. IsFiniteSet(FreeUnits(xs)) /\ Cardinality(FreeUnits(xs)) \in Nat
  BY FreeUnitsAreFinite
<1>3. Cardinality(FreeUnits(a.as)) = Cardinality(FreeUnits(xs)) - v
  BY <1>1, <1>2, TakenAndLeft
<1>4. b.ok <=> Cardinality(FreeUnits(a.as)) >= w
  BY DEF Exact
<1>5. b.ok <=> Cardinality(FreeUnits(xs)) >= v + w
  BY <1>2, <1>3, <1>4
<1>6. ASSUME NEW c \in Results, c.as = b.as, c.ok = b.ok, b.ok => c.got = a.got \cup b.got
      PROVE  Exact(xs, v + w, c)
  <2>1. PoolOK(c.as) /\ SameShape(xs, c.as)
    BY <1>6, ShapeTwice DEF Exact
  <2>2. CASE ~b.ok
    BY <1>5, <1>6, <2>1, <2>2 DEF Exact
  <2>3. CASE b.ok
    <3>1. /\ UnitsIn(b.got) \subseteq FreeUnits(a.as)
          /\ FreeUnits(b.as) = FreeUnits(a.as) \ UnitsIn(b.got)
          /\ Cardinality(UnitsIn(b.got)) = w
          /\ b.got \in SUBSET Blocks
      BY <2>3, ResultFields DEF Exact
    <3>2. UnitsIn(a.got \cup b.got) = UnitsIn(a.got) \cup UnitsIn(b.got)
      <4>1. \A u : u \in UnitsIn(a.got \cup b.got) <=> u \in UnitsIn(a.got) \/ u \in UnitsIn(b.got)
        BY DEF UnitsIn
      <4> QED BY <4>1
    <3>3. UnitsIn(a.got) \cap UnitsIn(b.got) = {}
      BY <1>1, <3>1
    <3>4. Cardinality(UnitsIn(a.got \cup b.got)) = v + w
      <4>1. IsFiniteSet(UnitsIn(a.got)) /\ IsFiniteSet(UnitsIn(b.got))
        BY <1>1, <3>1, UnitsAreFinite
      <4>2. Cardinality(UnitsIn(a.got) \cup UnitsIn(b.got)) =
              Cardinality(UnitsIn(a.got)) + Cardinality(UnitsIn(b.got))
        BY <3>3, <4>1, TwoParts
      <4> QED BY <1>1, <3>1, <3>2, <4>2
    <3>5. UnitsIn(a.got \cup b.got) \subseteq FreeUnits(xs)
      BY <1>1, <3>1, <3>2
    <3>6. FreeUnits(b.as) = FreeUnits(xs) \ UnitsIn(a.got \cup b.got)
      BY <1>1, <3>1, <3>2
    <3>7. /\ InState(b.as, "Allocated") = InState(xs, "Allocated") \cup (a.got \cup b.got)
          /\ InState(xs, "Allocated") \cap (a.got \cup b.got) = {}
      <4>1. /\ InState(a.as, "Allocated") = InState(xs, "Allocated") \cup a.got
            /\ InState(xs, "Allocated") \cap a.got = {}
            /\ InState(b.as, "Allocated") = InState(a.as, "Allocated") \cup b.got
            /\ InState(a.as, "Allocated") \cap b.got = {}
        BY <2>3 DEF Exact
      <4> QED BY <4>1
    <3>8. \A x \in a.got \cup b.got : Len(x) \in MaxLevel..MinLevel
      BY <2>3 DEF Exact
    <3>9. c.got = a.got \cup b.got
      BY <1>6, <2>3
    <3> QED BY <1>5, <1>6, <2>1, <3>4, <3>5, <3>6, <3>7, <3>8, <3>9 DEF Exact
  <2> QED BY <2>2, <2>3
<1> QED BY <1>5, <1>6

\* A call that takes nothing does not change what the next one can take.
LEMMA ExactFrom ==
  ASSUME NEW xs, NEW ys, NEW w, NEW r, SameShape(xs, ys),
         FreeUnits(ys) = FreeUnits(xs), InState(ys, "Allocated") = InState(xs, "Allocated"),
         Exact(ys, w, r)
  PROVE  Exact(xs, w, r)
BY ShapeTwice DEF Exact

\* A block or two halves: if a half is exact, so is the whole.
LEMMA HalvesAreExact ==
  ASSUME NEW xs, PoolOK(xs), NEW l \in MaxLevel..MinLevel, l < MinLevel,
         NEW n \in Nodes \cup {NoNode}, NEW half \in [Pools -> Results],
         NEW w \in Nat, w + w = 2^(MinLevel - l),
         \A ys : PoolOK(ys) => Exact(ys, w, half[ys])
  PROVE  Exact(xs, w + w, OneOrTwo(xs, l, n, half))
<1> DEFINE one    == PrefixResult(xs, l, n)
           first  == half[one.as]
           second == half[first.as]
           r      == OneOrTwo(xs, l, n, half)
<1>1. xs \in Pools
  BY DEF PoolOK
<1>2. r \in Results
  BY <1>1, OneOrTwoIsResult
<1>3. r = IF one.ok THEN one
          ELSE IF ~first.ok THEN [first EXCEPT !.got = {}]
          ELSE [second EXCEPT !.got = @ \cup first.got]
  BY DEF OneOrTwo
<1>4. /\ one \in Results /\ PoolOK(one.as) /\ SameShape(xs, one.as)
      /\ one.ok => Exact(xs, 2^(MinLevel - l), one)
      /\ ~one.ok => /\ FreeUnits(one.as) = FreeUnits(xs)
                    /\ InState(one.as, "Allocated") = InState(xs, "Allocated")
  BY PrefixOutcome
<1> HIDE DEF one, r
<1>5. CASE one.ok
  <2>1. Exact(xs, w + w, one)
    BY <1>4, <1>5, Zenon
  <2>2. r = one
    BY <1>3, <1>5
  <2> QED BY <2>1, <2>2 DEF r
<1>6. CASE ~one.ok
  <2>1. Exact(one.as, w, first)
    BY <1>4
  <2>2. first \in Results /\ PoolOK(first.as)
    BY <2>1 DEF Exact
  <2> HIDE DEF first
  <2>3. Exact(one.as, w + w, r)
    <3>1. CASE ~first.ok
      <4>1. r = [first EXCEPT !.got = {}] /\ {} \in SUBSET Blocks
        BY <1>3, <1>6, <3>1
      <4>2. r.as = first.as /\ r.ok = first.ok
        BY <2>2, <4>1, ResultFields
      <4>3. Cardinality(FreeUnits(one.as)) \in Nat
        BY FreeUnitsAreFinite
      <4>4. ~(Cardinality(FreeUnits(one.as)) >= w + w)
        BY <2>1, <3>1, <4>3 DEF Exact
      <4> QED BY <1>2, <2>1, <3>1, <4>2, <4>4 DEF Exact
    <3>2. CASE first.ok
      <4>1. Exact(first.as, w, second)
        BY <2>2
      <4>2. second \in Results
        BY <4>1 DEF Exact
      <4>3. r = [second EXCEPT !.got = @ \cup first.got]
        BY <1>3, <1>6, <3>2
      <4> HIDE DEF second
      <4>4. r.as = second.as /\ r.ok = second.ok /\ r.got = first.got \cup second.got
        BY <4>2, <4>3 DEF Results
      <4> QED BY <1>2, <2>1, <3>2, <4>1, <4>4, ExactThen
    <3> QED BY <3>1, <3>2
  <2>4. Exact(xs, w + w, r)
    <3>1. /\ SameShape(xs, one.as) /\ FreeUnits(one.as) = FreeUnits(xs)
          /\ InState(one.as, "Allocated") = InState(xs, "Allocated")
      BY <1>4, <1>6
    <3> QED BY <2>3, <3>1, ExactFrom, Zenon
  <2> QED BY <2>4 DEF r
<1> QED BY <1>5, <1>6

\* allocatePrefixOrSplit on any list of allocators.
LEMMA OrSplitIsResult ==
  ASSUME NEW xs \in Pools, NEW l \in MaxLevel..MinLevel, NEW n \in Nodes \cup {NoNode}
  PROVE  allocatePrefixOrSplit(xs, l, n) \in Results
<1>1. PICK h : /\ \A ys, m : allocatePrefixOrSplit(ys, m, n) = h[MinLevel - m][ys]
               /\ h[0] = [ys \in Pools |-> PrefixResult(ys, MinLevel, n)]
               /\ \A k \in 1..MinLevel :
                    h[k] = [ys \in Pools |-> OneOrTwo(ys, MinLevel - k, n, h[k - 1])]
  BY OrSplitSteps
<1> DEFINE G == {k \in 0..MinLevel : h[k] \in [Pools -> Results]}
<1>2. MinLevel \in Nat /\ MinLevel - l \in 0..MinLevel
  BY LevelsAssumption
<1>3. 0 \in G
  BY <1>1, <1>2, PrefixIsResult
<1>4. ASSUME NEW k \in 0..(MinLevel - 1), k \in G PROVE k + 1 \in G
  <2>1. k + 1 \in 1..MinLevel /\ k + 1 \in 0..MinLevel /\ (k + 1) - 1 = k
    BY <1>2
  <2>2. h[k + 1] = [ys \in Pools |-> OneOrTwo(ys, MinLevel - (k + 1), n, h[(k + 1) - 1])]
    BY <1>1, <2>1
  <2>3. h[k] \in [Pools -> Results]
    BY <1>4
  <2>4. \A ys \in Pools : OneOrTwo(ys, MinLevel - (k + 1), n, h[(k + 1) - 1]) \in Results
    BY <2>1, <2>3, OneOrTwoIsResult
  <2> QED BY <2>1, <2>2, <2>4
<1> HIDE DEF G
<1>5. MinLevel - l \in G
  BY <1>2, <1>3, <1>4, UpTo
<1> QED BY <1>1, <1>5 DEF G

\* allocatePrefixOrSplit gets its block, in one piece or in several, exactly
\* when as many minimum blocks as it holds are free.
LEMMA OrSplitExact ==
  ASSUME NEW xs, PoolOK(xs), NEW l \in MaxLevel..MinLevel, NEW n \in Nodes \cup {NoNode}
  PROVE  Exact(xs, 2^(MinLevel - l), allocatePrefixOrSplit(xs, l, n))
<1>1. PICK h : /\ \A ys, m : allocatePrefixOrSplit(ys, m, n) = h[MinLevel - m][ys]
               /\ h[0] = [ys \in Pools |-> PrefixResult(ys, MinLevel, n)]
               /\ \A k \in 1..MinLevel :
                    h[k] = [ys \in Pools |-> OneOrTwo(ys, MinLevel - k, n, h[k - 1])]
  BY OrSplitSteps
<1> DEFINE G == {k \in 0..(MinLevel - MaxLevel) : \A ys : PoolOK(ys) => Exact(ys, 2^k, h[k][ys])}
<1>2. /\ MinLevel \in Nat /\ MaxLevel \in Nat /\ MinLevel - MaxLevel \in Nat
      /\ MinLevel - l \in 0..(MinLevel - MaxLevel)
  BY LevelsAssumption
<1>3. 0 \in G
  <2> SUFFICES ASSUME NEW ys, PoolOK(ys) PROVE Exact(ys, 2^0, h[0][ys])
    BY <1>2
  <2> DEFINE r == PrefixResult(ys, MinLevel, n)
  <2>1. h[0][ys] = r
    BY <1>1 DEF PoolOK
  <2>2. MinLevel \in MaxLevel..MinLevel /\ MinLevel - MinLevel = 0
    BY <1>2
  <2>3. /\ r \in Results /\ PoolOK(r.as) /\ SameShape(ys, r.as)
        /\ r.ok => Exact(ys, 2^0, r)
        /\ ~r.ok => FreeUnits(ys) = {}
    BY <2>2, PrefixOutcome
  <2> HIDE DEF r
  <2>4. CASE ~r.ok
    <3>1. 2^0 = 1
      OBVIOUS
    <3>2. Cardinality(FreeUnits(ys)) = 0
      BY <2>3, <2>4, FS_EmptySet
    <3>3. ~(Cardinality(FreeUnits(ys)) >= 2^0)
      BY <3>1, <3>2
    <3> QED BY <2>1, <2>3, <2>4, <3>3 DEF Exact
  <2> QED BY <2>1, <2>3, <2>4
<1>4. ASSUME NEW k \in 0..(MinLevel - MaxLevel - 1), k \in G PROVE k + 1 \in G
  <2> DEFINE m == MinLevel - (k + 1)
             w == 2^k
  <2>1. /\ m \in MaxLevel..MinLevel /\ m < MinLevel /\ MinLevel - m = k + 1
        /\ k + 1 \in 1..MinLevel /\ k + 1 \in 0..(MinLevel - MaxLevel) /\ (k + 1) - 1 = k
        /\ k \in Nat
    BY <1>2
  <2>2. h[k + 1] = [ys \in Pools |-> OneOrTwo(ys, m, n, h[k])]
    BY <1>1, <2>1
  <2>3. 2^(k + 1) = w + w /\ w \in Nat
    BY <2>1, PowerDoubles
  <2>4. \A ys : PoolOK(ys) => Exact(ys, w, h[k][ys])
    BY <1>4
  <2>5. h[k] \in [Pools -> Results]
    <3>1. MinLevel - k \in MaxLevel..MinLevel /\ MinLevel - (MinLevel - k) = k
      BY <1>2, <2>1
    <3>2. \A ys \in Pools : h[k][ys] \in Results
      <4>1. \A ys \in Pools : allocatePrefixOrSplit(ys, MinLevel - k, n) \in Results
        BY <3>1, OrSplitIsResult
      <4>2. \A ys : allocatePrefixOrSplit(ys, MinLevel - k, n) = h[k][ys]
        BY <1>1, <3>1
      <4> QED BY <4>1, <4>2
    <3>3. CASE k = 0
      BY <1>1, <3>2, <3>3
    <3>4. CASE k # 0
      <4>1. k \in 1..MinLevel
        BY <1>2, <2>1, <3>4
      <4> QED BY <1>1, <3>2, <4>1
    <3> QED BY <3>3, <3>4
  <2> HIDE DEF m, w
  <2>6. ASSUME NEW ys, PoolOK(ys) PROVE Exact(ys, 2^(k + 1), h[k + 1][ys])
    <3>1. w + w = 2^(MinLevel - m)
      BY <2>1, <2>3
    <3>2. Exact(ys, w + w, OneOrTwo(ys, m, n, h[k]))
      BY <2>1, <2>3, <2>4, <2>5, <2>6, <3>1, HalvesAreExact
    <3>3. h[k + 1][ys] = OneOrTwo(ys, m, n, h[k])
      BY <2>2, <2>6 DEF PoolOK
    <3> QED BY <2>3, <3>2, <3>3
  <2> QED BY <2>1, <2>6
<1> HIDE DEF G
<1>5. MinLevel - l \in G
  BY <1>2, <1>3, <1>4, UpTo
<1> QED BY <1>1, <1>5 DEF G

-----------------------------------------------------------------------------
(* The rounds of AllocateDemand *)

\* Giving blocks back leaves a list of allocators.
LEMMA FreeAllIsPool ==
  ASSUME NEW xs \in Pools, NEW bs \in SUBSET Blocks
  PROVE  /\ FreeAllNow(xs, bs) \in Pools
         /\ PoolOK(xs) => PoolOK(FreeAllNow(xs, bs)) /\ SameShape(xs, FreeAllNow(xs, bs))
<1> DEFINE D(i) == {b \in bs : i \in Owner(xs, b)}
           T == [i \in DOMAIN xs |-> Release(xs[i].tree, D(i))]
<1>1. \A i : D(i) \in SUBSET Blocks
  OBVIOUS
<1>2. FreeAllNow(xs, bs) = [i \in DOMAIN xs |-> [xs[i] EXCEPT !.tree = Release(@, D(i))]]
  BY DEF FreeAllNow
<1>3. \A i \in DOMAIN xs : T[i] = Release(xs[i].tree, D(i))
  OBVIOUS
<1> HIDE DEF D, T
<1>4. FreeAllNow(xs, bs) = Retreed(xs, T)
  <2>1. ASSUME NEW i \in DOMAIN xs
        PROVE  [xs[i] EXCEPT !.tree = Release(@, D(i))]
               = [root |-> xs[i].root, tree |-> T[i], quarantine |-> xs[i].quarantine]
    <3> DEFINE a == xs[i]
    <3>1. a = [root |-> a.root, tree |-> a.tree, quarantine |-> a.quarantine]
      BY PoolEntries
    <3> HIDE DEF a
    <3>2. [a EXCEPT !.tree = Release(@, D(i))]
            = [root |-> a.root, tree |-> Release(a.tree, D(i)), quarantine |-> a.quarantine]
      BY <3>1
    <3> QED BY <1>3, <3>2 DEF a
  <2> QED BY <1>2, <2>1, Zenon DEF Retreed
<1>5. \A i \in DOMAIN xs : T[i] \in Trees
  BY <1>1, <1>3, PoolEntries, ReleaseIsTree
<1>6. ASSUME PoolOK(xs), NEW i \in DOMAIN xs PROVE WellFormed(T[i], xs[i].root)
  <2>1. xs[i].root \in Blocks /\ WellFormed(xs[i].tree, xs[i].root)
    BY <1>6, PoolEntries DEF PoolOK
  <2> QED BY <1>1, <1>3, <2>1, ReleaseWellFormed
<1> QED BY <1>4, <1>5, <1>6, RetreedIsPool, RetreedIsOK

\* One more round on any list of allocators.
LEMMA RoundIsResult ==
  ASSUME NEW done \in Results, NEW l \in MaxLevel..MinLevel, NEW n \in Nodes \cup {NoNode}
  PROVE  DemandRound(done, l, n) \in Results
<1> DEFINE r   == allocatePrefixOrSplit(done.as, l, n)
           got == done.got \cup r.got
<1>1. r \in Results
  BY ResultFields, OrSplitIsResult
<1>2. DemandRound(done, l, n) =
        IF r.ok THEN [r EXCEPT !.got = got]
        ELSE [as |-> FreeAllNow(r.as, got), got |-> {}, ok |-> FALSE]
  BY DEF DemandRound
<1> HIDE DEF r
<1>3. got \in SUBSET Blocks /\ r.as \in Pools
  BY <1>1, ResultFields
<1> HIDE DEF got
<1>4. [r EXCEPT !.got = got] \in Results
  BY <1>1, <1>3, ResultFields
<1>5. [as |-> FreeAllNow(r.as, got), got |-> {}, ok |-> FALSE] \in Results
  <2>1. FreeAllNow(r.as, got) \in Pools
    BY <1>3, FreeAllIsPool
  <2> QED BY <2>1 DEF Results
<1> QED BY <1>2, <1>4, <1>5

\* A round adds the minimum blocks of its level to what is asked for.
LEMMA RoundExact ==
  ASSUME NEW xs, NEW v \in Nat, NEW done, Exact(xs, v, done), done.ok,
         NEW l \in MaxLevel..MinLevel, NEW n \in Nodes \cup {NoNode}
  PROVE  Exact(xs, v + 2^(MinLevel - l), DemandRound(done, l, n))
<1> DEFINE r   == allocatePrefixOrSplit(done.as, l, n)
           got == done.got \cup r.got
           w   == 2^(MinLevel - l)
           d   == DemandRound(done, l, n)
<1>1. done \in Results /\ PoolOK(done.as) /\ SameShape(xs, done.as)
  BY DEF Exact
<1>2. Exact(done.as, w, r)
  BY <1>1, OrSplitExact
<1>3. w \in Nat
  <2>1. MinLevel - l \in Nat
    BY LevelsAssumption
  <2> QED BY <2>1, PowerIsNat
<1>4. d = IF r.ok THEN [r EXCEPT !.got = got]
          ELSE [as |-> FreeAllNow(r.as, got), got |-> {}, ok |-> FALSE]
  BY DEF DemandRound
<1>5. d \in Results
  BY <1>1, RoundIsResult
<1> HIDE DEF r, w, d
<1>6. r \in Results /\ PoolOK(r.as) /\ SameShape(done.as, r.as)
  BY <1>2 DEF Exact
<1>7. got \in SUBSET Blocks
  BY <1>1, <1>6, ResultFields
<1>8. /\ r.ok <=> Cardinality(FreeUnits(xs)) >= v + w
      /\ \A c : c \in Results /\ c.as = r.as /\ c.ok = r.ok /\ (r.ok => c.got = done.got \cup r.got)
                => Exact(xs, v + w, c)
  BY <1>2, <1>3, ExactThen
<1> HIDE DEF got
<1>9. CASE r.ok
  <2>1. d = [r EXCEPT !.got = got]
    BY <1>4, <1>9
  <2>2. d.as = r.as /\ d.ok = r.ok /\ d.got = got
    BY <1>6, <1>7, <2>1, ResultFields
  <2>3. Exact(xs, v + w, d)
    BY <1>5, <1>8, <2>2 DEF got
  <2> QED BY <2>3 DEF d, w
<1>10. CASE ~r.ok
  <2>1. d.as = FreeAllNow(r.as, got) /\ d.ok = FALSE
    BY <1>4, <1>10
  <2>2. PoolOK(d.as) /\ SameShape(r.as, d.as)
    <3>1. r.as \in Pools
      BY <1>6 DEF PoolOK
    <3> QED BY <1>6, <1>7, <2>1, <3>1, FreeAllIsPool
  <2>3. SameShape(xs, d.as)
    BY <1>1, <1>6, <2>2, ShapeTwice
  <2>4. Exact(xs, v + w, d)
    BY <1>5, <1>8, <1>10, <2>1, <2>2, <2>3 DEF Exact
  <2> QED BY <2>4 DEF d, w
<1> QED BY <1>9, <1>10

-----------------------------------------------------------------------------
(* Splitting a demand into levels *)

\* The blocks of the levels s hold w minimum blocks together; sum[i] is what the
\* first i of them hold.
Weighs(s, w) ==
  /\ s \in Seq(MaxLevel..MinLevel)
  /\ \E sum \in [0..Len(s) -> Nat] :
       /\ sum[0] = 0 /\ sum[Len(s)] = w
       /\ \A i \in 1..Len(s) : sum[i] = sum[i - 1] + 2^(MinLevel - s[i])

\* No block holds nothing.
LEMMA NoneWeighs == Weighs(<<>>, 0)
<1> DEFINE sum == [i \in 0..0 |-> 0]
<1>1. /\ <<>> \in Seq(MaxLevel..MinLevel) /\ Len(<<>>) = 0
      /\ sum \in [0..0 -> Nat] /\ sum[0] = 0
  OBVIOUS
<1> HIDE DEF sum
<1> QED BY <1>1 DEF Weighs

\* One block.
LEMMA OneWeighs ==
  ASSUME NEW l \in MaxLevel..MinLevel, NEW w \in Nat, w = 2^(MinLevel - l)
  PROVE  Weighs(<<l>>, w)
<1> DEFINE sum == [i \in 0..1 |-> IF i = 0 THEN 0 ELSE w]
           s == <<l>>
<1>1. s \in Seq(MaxLevel..MinLevel) /\ Len(s) = 1 /\ s[1] = l
  OBVIOUS
<1>2. sum \in [0..1 -> Nat] /\ sum[0] = 0 /\ sum[1] = w
  OBVIOUS
<1> HIDE DEF sum, s
<1>3. ASSUME NEW i \in 1..1 PROVE sum[i] = sum[i - 1] + 2^(MinLevel - s[i])
  <2>1. i = 1 /\ i - 1 = 0
    OBVIOUS
  <2>2. 2^(MinLevel - s[i]) = w
    BY <1>1, <2>1
  <2> QED BY <1>2, <2>1, <2>2
<1>4. Weighs(s, w)
  BY <1>1, <1>2, <1>3 DEF Weighs
<1> QED BY <1>4 DEF s

\* Two lists of blocks one after the other.
LEMMA BothWeigh ==
  ASSUME NEW s, NEW v \in Nat, Weighs(s, v), NEW u, NEW w \in Nat, Weighs(u, w)
  PROVE  Weighs(s \o u, v + w)
<1>1. PICK p \in [0..Len(s) -> Nat] :
        /\ p[0] = 0 /\ p[Len(s)] = v
        /\ \A i \in 1..Len(s) : p[i] = p[i - 1] + 2^(MinLevel - s[i])
  BY DEF Weighs
<1>2. PICK q \in [0..Len(u) -> Nat] :
        /\ q[0] = 0 /\ q[Len(u)] = w
        /\ \A i \in 1..Len(u) : q[i] = q[i - 1] + 2^(MinLevel - u[i])
  BY DEF Weighs
<1> DEFINE m == Len(s)
           k == Len(u)
           t == s \o u
           sum == [i \in 0..(m + k) |-> IF i <= m THEN p[i] ELSE v + q[i - m]]
<1>3. s \in Seq(MaxLevel..MinLevel) /\ u \in Seq(MaxLevel..MinLevel) /\ m \in Nat /\ k \in Nat
  BY DEF Weighs
<1>4. /\ t \in Seq(MaxLevel..MinLevel) /\ Len(t) = m + k
      /\ \A i \in 1..m : t[i] = s[i]
      /\ \A i \in (m + 1)..(m + k) : t[i] = u[i - m]
  BY <1>3, ConcatProperties
<1> HIDE DEF t
<1>5. sum \in [0..(m + k) -> Nat]
  BY <1>1, <1>2, <1>3
<1>6. /\ \A i \in 0..m : sum[i] = p[i]
      /\ \A i \in m..(m + k) : sum[i] = v + q[i - m]
  <2>1. p[m] = v + q[m - m]
    BY <1>1, <1>2, <1>3
  <2> QED BY <1>3, <2>1
<1> HIDE DEF sum
<1>7. ASSUME NEW i \in 1..(m + k) PROVE sum[i] = sum[i - 1] + 2^(MinLevel - t[i])
  <2>1. CASE i <= m
    <3>1. i \in 1..m /\ i \in 0..m /\ i - 1 \in 0..m
      BY <1>3, <2>1
    <3>2. t[i] = s[i] /\ sum[i] = p[i] /\ sum[i - 1] = p[i - 1]
      BY <1>4, <1>6, <3>1
    <3> QED BY <1>1, <3>1, <3>2
  <2>2. CASE ~(i <= m)
    <3> DEFINE j == i - m
    <3>1. j \in 1..k /\ j - 1 \in 0..k /\ j \in 0..k /\ (i - 1) - m = j - 1
          /\ i \in (m + 1)..(m + k) /\ i \in m..(m + k) /\ i - 1 \in m..(m + k)
      BY <1>3, <2>2
    <3>2. t[i] = u[j] /\ sum[i] = v + q[j] /\ sum[i - 1] = v + q[j - 1]
      BY <1>4, <1>6, <3>1
    <3> HIDE DEF j, k
    <3> DEFINE e == 2^(MinLevel - u[j])
    <3>3. q[j] = q[j - 1] + e
      BY <1>2, <3>1 DEF k
    <3>4. e \in Nat
      <4>1. u[j] \in MaxLevel..MinLevel
        BY <1>3, <3>1, ElementOfSeq, Zenon DEF k
      <4>2. MinLevel - u[j] \in Nat
        BY <4>1, LevelsAssumption
      <4> QED BY <4>2, PowerIsNat
    <3>5. q[j] \in Nat /\ q[j - 1] \in Nat
      BY <1>2, <3>1 DEF k
    <3>6. 2^(MinLevel - t[i]) = e
      BY <3>2
    <3> HIDE DEF e
    <3> QED BY <3>2, <3>3, <3>4, <3>5, <3>6
  <2> QED BY <2>1, <2>2
<1>8. sum[0] = 0 /\ sum[m + k] = v + w
  <2>1. 0 \in 0..m /\ m + k \in m..(m + k) /\ (m + k) - m = k
    BY <1>3
  <2> QED BY <1>1, <1>2, <1>6, <2>1
<1>9. Weighs(t, v + w)
  BY <1>4, <1>5, <1>7, <1>8 DEF Weighs
<1> QED BY <1>9 DEF t

\* q of the largest blocks.
LEMMA LargestWeigh ==
  ASSUME NEW q \in Nat
  PROVE  Weighs([i \in 1..q |-> MaxLevel], q * 2^(MinLevel - MaxLevel))
<1> DEFINE e == 2^(MinLevel - MaxLevel)
           s == [i \in 1..q |-> MaxLevel]
           sum == [i \in 0..q |-> i * e]
<1>1. e \in Nat
  <2>1. MinLevel - MaxLevel \in Nat
    BY LevelsAssumption
  <2> QED BY <2>1, PowerIsNat
<1>2. s \in Seq(MaxLevel..MinLevel) /\ Len(s) = q /\ \A i \in 1..q : s[i] = MaxLevel
  BY LevelsAssumption
<1> HIDE DEF e, s
<1>3. \A i \in 0..q : i * e \in Nat
  BY <1>1
<1>4. \A i \in 1..q : i * e = (i - 1) * e + e
  BY <1>1
<1>5. 0 * e = 0
  BY <1>1
<1>6. /\ sum \in [0..q -> Nat] /\ sum[0] = 0 /\ sum[q] = q * e
      /\ \A i \in 1..q : sum[i] = sum[i - 1] + e
  <2>1. \A i \in 1..q : i \in 0..q /\ i - 1 \in 0..q
    OBVIOUS
  <2>2. \A i \in 0..q : sum[i] = i * e
    OBVIOUS
  <2>3. sum \in [0..q -> Nat]
    BY <1>3
  <2> HIDE DEF sum
  <2> QED BY <1>4, <1>5, <2>1, <2>2, <2>3
<1> HIDE DEF sum
<1>7. \A i \in 1..q : 2^(MinLevel - s[i]) = e
  BY <1>2 DEF e
<1>8. Weighs(s, q * e)
  BY <1>2, <1>6, <1>7 DEF Weighs
<1> QED BY <1>8 DEF s, e

\* A number has one remainder.
LEMMA RemainderIsUnique ==
  ASSUME NEW d \in Nat, NEW h \in Nat, NEW r \in 0..(d - 1), NEW i \in Nat, NEW s \in 0..(d - 1),
         d * h + r = d * i + s
  PROVE  r = s
<1>1. ASSUME h < i PROVE FALSE
  <2>1. d * i >= d * h + d
    <3>1. PICK j \in Nat : i = h + 1 + j
      <4>1. i - h - 1 \in Nat /\ i = h + 1 + (i - h - 1)
        BY <1>1
      <4> QED BY <4>1
    <3>2. d * i = d * h + d + d * j /\ d * j >= 0
      BY <3>1
    <3> QED BY <3>2
  <2> QED BY <2>1
<1>2. ASSUME i < h PROVE FALSE
  <2>1. d * h >= d * i + d
    <3>1. PICK j \in Nat : h = i + 1 + j
      <4>1. h - i - 1 \in Nat /\ h = i + 1 + (h - i - 1)
        BY <1>2
      <4> QED BY <4>1
    <3>2. d * h = d * i + d + d * j /\ d * j >= 0
      BY <3>1
    <3> QED BY <3>2
  <2> QED BY <2>1
<1> QED BY <1>1, <1>2

\* The remainder gains one binary digit when the divisor doubles.
LEMMA NextDigit ==
  ASSUME NEW a \in Nat, NEW d \in Nat, d >= 1
  PROVE  a % (d + d) = IF (a \div d) % 2 = 1 THEN d + (a % d) ELSE a % d
<1> DEFINE q == a \div d
           r == a % d
           h == q \div 2
           b == q % 2
           i == a \div (d + d)
           s == a % (d + d)
<1>1. q \in Nat /\ r \in 0..(d - 1) /\ a = d * q + r
  BY Division
<1>2. d + d \in Nat /\ d + d >= 1
  OBVIOUS
<1>3. i \in Nat /\ s \in 0..(d + d - 1) /\ a = (d + d) * i + s
  <2> DEFINE D == d + d
  <2>1. D \in Nat /\ D >= 1
    BY <1>2
  <2> HIDE DEF D
  <2>2. a \div D \in Nat /\ a % D \in 0..(D - 1) /\ a = D * (a \div D) + (a % D)
    BY <2>1, Division
  <2> QED BY <2>2 DEF D
<1> HIDE DEF q, r, i, s
<1>4. h \in Nat /\ b \in 0..1 /\ q = 2 * h + b
  BY <1>1
<1> HIDE DEF h, b
<1>5. ASSUME b = 1 PROVE s = d + r
  <2>1. d * q = (d + d) * h + d
    <3>1. q = 2 * h + 1
      BY <1>4, <1>5
    <3>2. d * (2 * h + 1) = (d + d) * h + d
      BY <1>4
    <3> QED BY <3>1, <3>2
  <2>2. d + r \in 0..(d + d - 1)
    BY <1>1
  <2> DEFINE y == (d + d) * h
  <2>3. y \in Nat
    BY <1>4
  <2>4. a = (d + d) * h + (d + r)
    BY <1>1, <2>1, <2>3
  <2>5. s = d + r
    <3>1. (d + d) * h + (d + r) = (d + d) * i + s
      BY <1>3, <2>4
    <3> HIDE DEF y
    <3> DEFINE D == d + d
               R == d + r
    <3>2. D \in Nat /\ R \in 0..(D - 1) /\ s \in 0..(D - 1) /\ D * h + R = D * i + s
      BY <1>2, <1>3, <2>2, <3>1
    <3> HIDE DEF D, R
    <3>3. R = s
      BY <1>3, <1>4, <3>2, RemainderIsUnique
    <3> QED BY <3>3 DEF R
  <2> QED BY <2>5
<1>6. ASSUME b # 1 PROVE s = r
  <2>1. d * q = (d + d) * h
    <3>1. b = 0 /\ q = 2 * h
      BY <1>4, <1>6
    <3>2. d * (2 * h) = (d + d) * h
      BY <1>4
    <3> QED BY <3>1, <3>2
  <2>2. r \in 0..(d + d - 1)
    BY <1>1
  <2>3. s = r
    <3>1. (d + d) * h + r = (d + d) * i + s
      BY <1>1, <1>3, <2>1
    <3> DEFINE D == d + d
    <3>2. D \in Nat /\ r \in 0..(D - 1) /\ s \in 0..(D - 1) /\ D * h + r = D * i + s
      BY <1>2, <1>3, <2>2, <3>1
    <3> HIDE DEF D
    <3> QED BY <1>3, <1>4, <3>2, RemainderIsUnique
  <2> QED BY <2>3
<1>7. s = IF b = 1 THEN d + r ELSE r
  BY <1>5, <1>6
<1> QED BY <1>7, Zenon DEF q, r, s, b

\* A demand needs at least one minimum block.
LEMMA UnitsAreNat ==
  ASSUME NEW req \in Nat
  PROVE  Units(req) \in Nat /\ Units(req) >= 1
<1> DEFINE unit == 2^(Depth - MinLevel)
           u    == (req + unit - 1) \div unit
<1>1. unit \in Nat /\ unit >= 1
  <2>1. Depth - MinLevel \in Nat
    BY LevelsAssumption
  <2> QED BY <2>1, PowerDoubles
<1>2. Units(req) = IF u < 1 THEN 1 ELSE u
  BY DEF Units
<1> HIDE DEF unit
<1>3. req + unit - 1 \in Nat
  BY <1>1
<1>4. u \in Nat
  <2> DEFINE a == req + unit - 1
  <2>1. a \in Nat
    BY <1>3
  <2> HIDE DEF a
  <2>2. a \div unit \in Nat
    BY <1>1, <2>1, Division
  <2> QED BY <2>2 DEF a
<1> HIDE DEF u
<1> QED BY <1>2, <1>4

\* The digits of a rest below the largest block hold the rest.
LEMMA DigitsWeigh ==
  ASSUME NEW req \in Nat
  PROVE  \E s : /\ Weighs(s, Units(req) % 2^(MinLevel - MaxLevel))
                /\ SplitDemand(req) = LargestThenDigits(req, s)
<1> DEFINE N == MinLevel - MaxLevel
           rest == Units(req) % 2^N
           S == Seq(MaxLevel..MinLevel)
           down(k, g) == IF (rest \div 2^(k - 1)) % 2 = 1 THEN <<MinLevel - (k - 1)>> \o g ELSE g
           F == [k \in 1..N |-> [g \in S |-> down(k, g)]]
           digits[k \in 0..N] ==
             IF k = 0 THEN <<>>
             ELSE IF (rest \div 2^(k - 1)) % 2 = 1 THEN <<MinLevel - (k - 1)>> \o digits[k - 1]
             ELSE digits[k - 1]
<1>1. N \in Nat /\ MinLevel \in Nat /\ MaxLevel \in Nat
  BY LevelsAssumption
<1>2. SplitDemand(req) = LargestThenDigits(req, digits[N])
  BY DEF SplitDemand, digits
<1>3. digits = CHOOSE g : g = [k \in 0..N |-> IF k = 0 THEN <<>> ELSE down(k, g[k - 1])]
  BY DEF digits
<1> HIDE DEF digits
<1>4. rest \in Nat /\ rest \in 0..(2^N - 1)
  <2>1. 2^N \in Nat /\ 2^N >= 1
    BY <1>1, PowerDoubles
  <2>2. Units(req) \in Nat
    BY UnitsAreNat
  <2> DEFINE a == Units(req)
             d == 2^N
  <2> HIDE DEF a, d
  <2>3. a % d \in 0..(d - 1)
    BY <2>1, <2>2, Division DEF a, d
  <2>4. a % d \in Nat
    BY <2>1, <2>3 DEF d
  <2> QED BY <2>3, <2>4 DEF a, d
<1>5. ASSUME NEW k \in 1..N PROVE MinLevel - (k - 1) \in MaxLevel..MinLevel
  BY <1>1
<1> HIDE DEF rest
<1>6. \A k \in 1..N : \A g \in S : down(k, g) \in S
  <2> SUFFICES ASSUME NEW k \in 1..N, NEW g \in S PROVE down(k, g) \in S
    OBVIOUS
  <2>1. <<MinLevel - (k - 1)>> \in S
    BY <1>5
  <2>2. <<MinLevel - (k - 1)>> \o g \in S
    BY <2>1, ConcatProperties
  <2> QED BY <2>2
<1>7. <<>> \in S
  OBVIOUS
<1> HIDE DEF S, N, down
<1>8. F \in [1..N -> [S -> S]] /\ \A k \in 1..N : \A g \in S : F[k][g] = down(k, g)
  BY <1>6
<1> HIDE DEF F
<1>9. PICK f \in [0..N -> S] : f[0] = <<>> /\ \A k \in 1..N : f[k] = F[k][f[k - 1]]
  <2>1. HasRun(N, S, <<>>, F)
    BY <1>1, <1>7, <1>8, Iterates
  <2> QED BY <2>1 DEF HasRun
<1>10. \A k \in 1..N : k - 1 \in 0..N /\ f[k] = down(k, f[k - 1])
  <2> SUFFICES ASSUME NEW k \in 1..N PROVE k - 1 \in 0..N /\ f[k] = down(k, f[k - 1])
    OBVIOUS
  <2>1. k - 1 \in 0..N
    BY <1>1
  <2> QED BY <1>8, <1>9, <2>1
<1>11. f = [k \in 0..N |-> IF k = 0 THEN <<>> ELSE down(k, f[k - 1])]
  <2>1. \A k \in 0..N : f[k] = IF k = 0 THEN <<>> ELSE down(k, f[k - 1])
    BY <1>1, <1>9, <1>10
  <2> QED BY <2>1
<1>12. digits = [k \in 0..N |-> IF k = 0 THEN <<>> ELSE down(k, digits[k - 1])]
  BY <1>3, <1>11
<1> DEFINE G == {k \in 0..N : Weighs(digits[k], rest % 2^k)}
<1>13. 0 \in G
  <2>1. 2^0 = 1
    OBVIOUS
  <2>2. rest % 1 = 0
    BY <1>4
  <2>3. digits[0] = <<>> /\ 0 \in 0..N
    BY <1>1, <1>12
  <2>4. rest % 2^0 = 0
    BY <2>1, <2>2
  <2> QED BY <2>3, <2>4, NoneWeighs
<1>14. ASSUME NEW k \in 0..(N - 1), k \in G PROVE k + 1 \in G
  <2> DEFINE d == 2^k
             l == MinLevel - k
             s == digits[k]
             v == rest % d
  <2>1. /\ k \in Nat /\ k + 1 \in 1..N /\ k + 1 \in 0..N /\ (k + 1) - 1 = k
        /\ l \in MaxLevel..MinLevel /\ MinLevel - l = k
    BY <1>1 DEF N
  <2>2. d \in Nat /\ d >= 1 /\ 2^(k + 1) = d + d
    BY <2>1, PowerDoubles
  <2>3. digits[k + 1] = down(k + 1, s)
    BY <1>1, <1>12, <2>1
  <2>4. down(k + 1, s) = IF (rest \div d) % 2 = 1 THEN <<l>> \o s ELSE s
    BY <2>1, Zenon DEF down
  <2>5. Weighs(s, v)
    BY <1>14
  <2>55. 2^(MinLevel - l) = d
    BY <2>1
  <2> HIDE DEF d, l, s
  <2>6. v \in Nat
    <3>1. rest % d \in 0..(d - 1)
      BY <1>4, <2>2, Division
    <3> QED BY <2>2, <3>1
  <2>7. rest % (d + d) = IF (rest \div d) % 2 = 1 THEN d + v ELSE v
    BY <1>4, <2>2, NextDigit
  <2> HIDE DEF v
  <2>8. CASE (rest \div d) % 2 = 1
    <3>1. Weighs(<<l>>, d)
      BY <2>1, <2>2, <2>55, OneWeighs
    <3>2. Weighs(<<l>> \o s, d + v)
      BY <2>2, <2>5, <2>6, <3>1, BothWeigh
    <3>3. digits[k + 1] = <<l>> \o s /\ rest % 2^(k + 1) = d + v
      BY <2>2, <2>3, <2>4, <2>7, <2>8
    <3> QED BY <2>1, <3>2, <3>3
  <2>9. CASE (rest \div d) % 2 # 1
    <3>1. digits[k + 1] = s /\ rest % 2^(k + 1) = v
      BY <2>2, <2>3, <2>4, <2>7, <2>9
    <3> QED BY <2>1, <2>5, <3>1
  <2> QED BY <2>8, <2>9
<1> HIDE DEF G
<1>15. N \in G
  <2>1. \A k \in 0..N : k \in G
    BY <1>1, <1>13, <1>14, UpTo
  <2> QED BY <1>1, <2>1
<1>16. rest % 2^N = rest
  <2> DEFINE d == 2^N
  <2>1. d \in Nat /\ rest \in 0..(d - 1)
    BY <1>1, <1>4, PowerIsNat
  <2> HIDE DEF d
  <2>2. rest % d = rest
    BY <2>1
  <2> QED BY <2>2 DEF d
<1>17. Weighs(digits[N], rest)
  BY <1>15, <1>16 DEF G
<1> QED BY <1>2, <1>17 DEF rest, N

\* SplitDemand lists levels whose blocks hold the demand in minimum blocks.
LEMMA SplitWeighs ==
  ASSUME NEW req \in Nat
  PROVE  Weighs(SplitDemand(req), Units(req))
<1> DEFINE d == 2^(MinLevel - MaxLevel)
           a == Units(req)
<1>1. d \in Nat /\ d >= 1
  <2>1. MinLevel - MaxLevel \in Nat
    BY LevelsAssumption
  <2> QED BY <2>1, PowerDoubles
<1>2. a \in Nat
  BY UnitsAreNat
<1>3. PICK s : Weighs(s, a % d) /\ SplitDemand(req) = LargestThenDigits(req, s)
  BY DigitsWeigh
<1> DEFINE q == a \div d
           u == [i \in 1..q |-> MaxLevel]
<1>4. SplitDemand(req) = u \o s
  BY <1>3 DEF LargestThenDigits
<1>45. Weighs([i \in 1..(a \div d) |-> MaxLevel], (a \div d) * 2^(MinLevel - MaxLevel))
  <2>1. a \div d \in Nat
    <3> HIDE DEF a, d
    <3> QED BY <1>1, <1>2, Division
  <2> HIDE DEF a, d
  <2> QED BY <2>1, LargestWeigh
<1> HIDE DEF a, d
<1>5. q \in Nat /\ a % d \in Nat /\ a = d * q + (a % d)
  <2>1. a \div d \in Nat /\ a % d \in 0..(d - 1) /\ a = d * (a \div d) + (a % d)
    BY <1>1, <1>2, Division
  <2>2. a % d \in Nat
    BY <1>1, <2>1
  <2> QED BY <2>1, <2>2
<1>6. Weighs(u, q * d)
  BY <1>45 DEF d
<1> HIDE DEF u, q
<1>7. q * d \in Nat /\ q * d + (a % d) = a
  BY <1>1, <1>5
<1>8. Weighs(u \o s, q * d + (a % d))
  <2> DEFINE v == a % d
             w == q * d
  <2>1. v \in Nat /\ w \in Nat /\ Weighs(s, v) /\ Weighs(u, w)
    BY <1>3, <1>5, <1>6, <1>7
  <2> HIDE DEF v, w
  <2>2. Weighs(u \o s, w + v)
    BY <2>1, BothWeigh
  <2> QED BY <2>2 DEF v, w
<1> QED BY <1>4, <1>7, <1>8 DEF a

\* Asking for nothing succeeds and takes nothing.
LEMMA NothingIsExact ==
  ASSUME NEW xs, PoolOK(xs), NEW r, r = [as |-> xs, got |-> {}, ok |-> TRUE]
  PROVE  Exact(xs, 0, r)
<1>1. r.as = xs /\ r.got = {} /\ r.ok = TRUE /\ xs \in Pools
  BY DEF PoolOK
<1>2. r \in Results
  BY <1>1 DEF Results
<1>3. SameShape(xs, xs)
  BY DEF SameShape
<1>4. UnitsIn({}) = {} /\ Cardinality({}) = 0
  BY FS_EmptySet DEF UnitsIn
<1>5. Cardinality(FreeUnits(xs)) >= 0
  BY FreeUnitsAreFinite
<1> HIDE DEF Exact
<1>6. Cardinality(UnitsIn(r.got)) = 0
  BY <1>1, <1>4
<1> QED BY <1>1, <1>2, <1>3, <1>4, <1>5, <1>6 DEF Exact

\* AllocateDemand succeeds exactly when as many minimum blocks are free as the
\* demand needs, and then hands out just that many.
LEMMA DemandIsExact ==
  ASSUME NEW xs, PoolOK(xs), NEW req \in Nat, NEW n \in Nodes \cup {NoNode}
  PROVE  Exact(xs, Units(req), DemandResult(xs, req, n))
<1> DEFINE levels == SplitDemand(req)
           m == Len(levels)
           w == Units(req)
           s == [as |-> xs, got |-> {}, ok |-> xs # <<>>]
           round(k, g) == IF g.ok THEN DemandRound(g, levels[k], n) ELSE g
           F == [k \in 1..m |-> [g \in Results |-> round(k, g)]]
           after[k \in 0..m] ==
             IF k = 0 THEN [as |-> xs, got |-> {}, ok |-> xs # <<>>]
             ELSE IF after[k - 1].ok THEN DemandRound(after[k - 1], levels[k], n)
             ELSE after[k - 1]
<1>1. DemandResult(xs, req, n) = after[m]
  BY DEF DemandResult, after
<1>2. after = CHOOSE g : g = [k \in 0..m |-> IF k = 0 THEN s ELSE round(k, g[k - 1])]
  BY DEF after
<1> HIDE DEF after
<1>3. Weighs(levels, w)
  BY SplitWeighs
<1>35. w \in Nat /\ w >= 1
  BY UnitsAreNat
<1> HIDE DEF levels, w
<1>4. PICK sum \in [0..m -> Nat] :
        /\ sum[0] = 0 /\ sum[m] = w
        /\ \A i \in 1..m : sum[i] = sum[i - 1] + 2^(MinLevel - levels[i])
  BY <1>3 DEF Weighs
<1>5. levels \in Seq(MaxLevel..MinLevel) /\ m \in Nat
  BY <1>3 DEF Weighs
<1>6. \A i \in 1..m : levels[i] \in MaxLevel..MinLevel
  BY <1>5, ElementOfSeq, Zenon
<1>7. xs \in Pools
  BY DEF PoolOK
<1>8. s \in Results
  BY <1>7 DEF Results
<1>9. \A k \in 1..m : \A g \in Results : round(k, g) \in Results
  BY <1>6, RoundIsResult
<1> HIDE DEF m, s, round
<1>10. F \in [1..m -> [Results -> Results]] /\ \A k \in 1..m : \A g \in Results : F[k][g] = round(k, g)
  BY <1>9
<1> HIDE DEF F
<1>11. PICK f \in [0..m -> Results] : f[0] = s /\ \A k \in 1..m : f[k] = F[k][f[k - 1]]
  <2>1. HasRun(m, Results, s, F)
    BY <1>5, <1>8, <1>10, Iterates
  <2> QED BY <2>1 DEF HasRun
<1>12. \A k \in 1..m : k - 1 \in 0..m /\ f[k] = round(k, f[k - 1])
  <2> SUFFICES ASSUME NEW k \in 1..m PROVE k - 1 \in 0..m /\ f[k] = round(k, f[k - 1])
    OBVIOUS
  <2>1. k - 1 \in 0..m
    BY <1>5
  <2> QED BY <1>10, <1>11, <2>1
<1>13. f = [k \in 0..m |-> IF k = 0 THEN s ELSE round(k, f[k - 1])]
  <2>1. \A k \in 0..m : f[k] = IF k = 0 THEN s ELSE round(k, f[k - 1])
    BY <1>5, <1>11, <1>12
  <2> QED BY <2>1
<1>14. after = [k \in 0..m |-> IF k = 0 THEN s ELSE round(k, after[k - 1])]
  BY <1>2, <1>13
<1>15. after[0] = s /\ \A k \in 1..m : after[k] = round(k, after[k - 1])
  BY <1>5, <1>14
<1>16. CASE xs # <<>>
  <2> DEFINE G == {k \in 0..m : Exact(xs, sum[k], after[k])}
  <2>1. 0 \in G
    <3>1. s = [as |-> xs, got |-> {}, ok |-> TRUE]
      BY <1>16 DEF s
    <3>2. Exact(xs, 0, s)
      BY <3>1, NothingIsExact
    <3> QED BY <1>4, <1>5, <1>15, <3>2
  <2>2. ASSUME NEW k \in 0..(m - 1), k \in G PROVE k + 1 \in G
    <3> DEFINE a == after[k]
               l == levels[k + 1]
               v == sum[k]
               p == 2^(MinLevel - l)
    <3>1. k + 1 \in 1..m /\ k + 1 \in 0..m /\ k \in 0..m /\ (k + 1) - 1 = k
      BY <1>5
    <3>2. after[k + 1] = IF a.ok THEN DemandRound(a, l, n) ELSE a
      BY <1>15, <3>1 DEF round
    <3>3. Exact(xs, v, a)
      BY <2>2
    <3>4. l \in MaxLevel..MinLevel
      BY <1>6, <3>1
    <3>5. p \in Nat
      <4>1. MinLevel - l \in Nat
        BY <3>4, LevelsAssumption
      <4> HIDE DEF l
      <4> QED BY <4>1, PowerIsNat
    <3>6. sum[k + 1] = v + p /\ v \in Nat
      BY <1>4, <3>1
    <3> HIDE DEF a, l, v
    <3>7. CASE a.ok
      <4>1. Exact(xs, v + p, DemandRound(a, l, n))
        BY <3>3, <3>4, <3>6, <3>7, RoundExact
      <4>2. after[k + 1] = DemandRound(a, l, n)
        BY <3>2, <3>7
      <4>3. Exact(xs, sum[k + 1], after[k + 1])
        BY <3>6, <4>1, <4>2
      <4> QED BY <3>1, <4>3
    <3>8. CASE ~a.ok
      <4>1. Cardinality(FreeUnits(xs)) \in Nat
        BY FreeUnitsAreFinite
      <4> HIDE DEF p
      <4>2. ~(Cardinality(FreeUnits(xs)) >= v + p)
        BY <3>3, <3>5, <3>6, <3>8, <4>1 DEF Exact
      <4>3. Exact(xs, v + p, a)
        BY <3>3, <3>8, <4>2 DEF Exact
      <4>4. after[k + 1] = a
        BY <3>2, <3>8
      <4>5. Exact(xs, sum[k + 1], after[k + 1])
        BY <3>6, <4>3, <4>4
      <4> QED BY <3>1, <4>5
    <3> QED BY <3>7, <3>8
  <2> HIDE DEF G
  <2>3. m \in G
    <3>1. \A k \in 0..m : k \in G
      BY <1>5, <2>1, <2>2, UpTo
    <3> QED BY <1>5, <3>1
  <2>4. Exact(xs, w, after[m])
    BY <1>4, <2>3 DEF G
  <2> QED BY <1>1, <2>4 DEF w
<1>17. CASE xs = <<>>
  <2> DEFINE G == {k \in 0..m : after[k] = s}
  <2>1. s.as = xs /\ ~s.ok
    BY <1>17 DEF s
  <2>2. 0 \in G
    BY <1>5, <1>15
  <2>3. ASSUME NEW k \in 0..(m - 1), k \in G PROVE k + 1 \in G
    <3>1. k + 1 \in 1..m /\ k + 1 \in 0..m /\ (k + 1) - 1 = k
      BY <1>5
    <3>2. after[k + 1] = s
      BY <1>15, <2>1, <2>3, <3>1 DEF round
    <3> QED BY <3>1, <3>2
  <2> HIDE DEF G
  <2>4. m \in G
    <3>1. \A k \in 0..m : k \in G
      BY <1>5, <2>2, <2>3, UpTo
    <3> QED BY <1>5, <3>1
  <2>5. after[m] = s
    BY <2>4 DEF G
  <2>6. FreeUnits(xs) = {}
    <3>1. DOMAIN xs = {}
      BY <1>17
    <3> QED BY <3>1, FreeUnitsMember
  <2>7. ~(Cardinality(FreeUnits(xs)) >= w)
    BY <1>35, <2>6, FS_EmptySet
  <2>8. PoolOK(s.as) /\ SameShape(xs, s.as)
    BY <2>1 DEF SameShape
  <2>9. Exact(xs, w, s)
    BY <1>8, <2>1, <2>7, <2>8 DEF Exact
  <2> QED BY <1>1, <2>5, <2>9 DEF w
<1> QED BY <1>16, <1>17

-----------------------------------------------------------------------------
(* What the pool's other methods do to its list of allocators *)

\* Every allocator has the quarantine d.
QuarantinedFor(xs, d) == \A i \in DOMAIN xs : xs[i].quarantine = d

\* Every tree of the pool is well formed, the CIDRs are apart, and every
\* allocator has the pool's quarantine.
PoolInv ==
  /\ PoolOK(allocators)
  /\ QuarantinedFor(allocators, poolQuarantine)
  /\ poolQuarantine \in Nat
  /\ now \in Nat

\* What is handed out or held anywhere in a pool does not overlap.
LEMMA HandlesApart ==
  ASSUME NEW xs, PoolOK(xs), NEW i \in DOMAIN xs, NEW j \in DOMAIN xs,
         NEW x \in Handles(xs[i].tree), NEW y \in Handles(xs[j].tree), overlaps(x, y)
  PROVE  i = j /\ x = y
<1>1. /\ x \in Blocks /\ xs[i].tree.state[x] \in Leaf /\ xs[i].tree.state[x] # "Absent"
      /\ y \in Blocks /\ xs[j].tree.state[y] \in Leaf /\ xs[j].tree.state[y] # "Absent"
  BY DEF Handles, Leaf
<1>2. Covers(x, y) \/ Covers(y, x)
  BY <1>1, TablesAreCovers DEF overlaps
<1>3. PICK z \in Blocks : Covers(x, z) /\ Covers(y, z)
  BY <1>1, <1>2, CoversReflexive
<1>4. /\ xs[i].root \in Blocks /\ xs[j].root \in Blocks
      /\ IsTree(xs[i].tree, xs[i].root) /\ IsTree(xs[j].tree, xs[j].root)
  BY PoolEntries DEF PoolOK, WellFormed
<1>5. Covers(xs[i].root, x) /\ Covers(xs[j].root, y)
  BY <1>1, <1>4 DEF IsTree
<1>6. Covers(xs[i].root, z) /\ Covers(xs[j].root, z)
  BY <1>1, <1>3, <1>4, <1>5, CoversTransitive
<1>7. i = j
  BY <1>6, RootsApart
<1>8. x = y
  BY <1>1, <1>3, <1>4, <1>7, LeavesApart
<1> QED BY <1>7, <1>8

\* Another tree for one allocator.
LEMMA OneRetreed ==
  ASSUME NEW xs, PoolOK(xs), NEW i \in DOMAIN xs, NEW w, WellFormed(w, xs[i].root)
  PROVE  PoolOK([xs EXCEPT ![i].tree = w]) /\ SameShape(xs, [xs EXCEPT ![i].tree = w])
<1> DEFINE T == [j \in DOMAIN xs |-> IF j = i THEN w ELSE xs[j].tree]
           ys == [xs EXCEPT ![i].tree = w]
<1>1. xs \in Pools /\ DOMAIN xs = 1..Len(xs)
  BY PoolEntries DEF PoolOK
<1>2. ys = [j \in DOMAIN xs |-> IF j = i THEN [xs[i] EXCEPT !.tree = w] ELSE xs[j]]
  <2>1. xs = [j \in DOMAIN xs |-> xs[j]]
    BY <1>1 DEF Pools
  <2> QED BY <2>1
<1>3. \A j \in DOMAIN xs : T[j] = IF j = i THEN w ELSE xs[j].tree
  OBVIOUS
<1> HIDE DEF ys, T
<1>4. ys = Retreed(xs, T)
  <2>1. ASSUME NEW j \in DOMAIN xs
        PROVE  (IF j = i THEN [xs[i] EXCEPT !.tree = w] ELSE xs[j])
               = [root |-> xs[j].root, tree |-> T[j], quarantine |-> xs[j].quarantine]
    <3>1. CASE j = i
      <4>1. [xs[i] EXCEPT !.tree = w] = [root |-> xs[i].root, tree |-> w, quarantine |-> xs[i].quarantine]
        BY <1>1, OtherTree
      <4> QED BY <1>3, <3>1, <4>1
    <3>2. CASE j # i
      BY <1>1, <1>3, <3>2, PoolEntries
    <3> QED BY <3>1, <3>2
  <2> QED BY <1>2, <2>1, Zenon DEF Retreed
<1>5. \A j \in DOMAIN xs : WellFormed(T[j], xs[j].root)
  BY <1>3 DEF PoolOK
<1>6. \A j \in DOMAIN xs : T[j] \in Trees
  BY <1>5 DEF WellFormed
<1>7. PoolOK(ys) /\ SameShape(xs, ys)
  BY <1>1, <1>4, <1>5, <1>6, RetreedIsPool, RetreedIsOK
<1> QED BY <1>7, Zenon DEF ys

\* Another tree for every allocator.
LEMMA AllRetreed ==
  ASSUME NEW xs, PoolOK(xs), NEW T, \A i \in DOMAIN xs : WellFormed(T[i], xs[i].root),
         NEW ys, ys = [i \in DOMAIN xs |-> [xs[i] EXCEPT !.tree = T[i]]]
  PROVE  PoolOK(ys) /\ SameShape(xs, ys)
<1>1. xs \in Pools
  BY DEF PoolOK
<1>2. \A i \in DOMAIN xs :
        [xs[i] EXCEPT !.tree = T[i]]
        = [root |-> xs[i].root, tree |-> T[i], quarantine |-> xs[i].quarantine]
  BY <1>1, OtherTree
<1>3. ys = Retreed(xs, T)
  BY <1>2, Zenon DEF Retreed
<1>4. \A i \in DOMAIN xs : T[i] \in Trees
  BY DEF WellFormed
<1> QED BY <1>1, <1>3, <1>4, RetreedIsPool, RetreedIsOK

\* Another quarantine for every allocator.
LEMMA Requarantined ==
  ASSUME NEW xs, PoolOK(xs), NEW d \in Nat,
         NEW ys, ys = [i \in DOMAIN xs |-> [xs[i] EXCEPT !.quarantine = d]]
  PROVE  PoolOK(ys) /\ QuarantinedFor(ys, d)
<1>1. xs \in Pools /\ Len(xs) \in Nat /\ DOMAIN xs = 1..Len(xs)
  BY PoolEntries DEF PoolOK
<1>2. DOMAIN ys = DOMAIN xs
  OBVIOUS
<1>3. ASSUME NEW i \in DOMAIN xs
      PROVE  /\ ys[i] \in [root : Blocks, tree : Trees, quarantine : Nat]
             /\ ys[i].root = xs[i].root /\ ys[i].tree = xs[i].tree /\ ys[i].quarantine = d
  <2> DEFINE a == xs[i]
             b == ys[i]
  <2>1. /\ a.root \in Blocks /\ a.tree \in Trees
        /\ a = [root |-> a.root, tree |-> a.tree, quarantine |-> a.quarantine]
    BY <1>1, PoolEntries
  <2>2. b = [a EXCEPT !.quarantine = d]
    OBVIOUS
  <2> HIDE DEF a, b
  <2>3. b = [root |-> a.root, tree |-> a.tree, quarantine |-> d]
    BY <2>1, <2>2
  <2>4. b \in [root : Blocks, tree : Trees, quarantine : Nat]
    BY <2>1, <2>3
  <2>5. b.root = a.root /\ b.tree = a.tree /\ b.quarantine = d
    BY <2>3
  <2> QED BY <2>4, <2>5 DEF a, b
<1>4. ys \in [1..Len(xs) -> [root : Blocks, tree : Trees, quarantine : Nat]]
  BY <1>1, <1>3
<1>5. ys \in Pools
  BY <1>1, <1>4, FunctionIsSeq DEF Pools
<1>6. \A i \in DOMAIN xs : ys[i].root = xs[i].root /\ ys[i].tree = xs[i].tree /\ ys[i].quarantine = d
  BY <1>3
<1>7. PoolOK(ys)
  BY <1>2, <1>5, <1>6 DEF PoolOK
<1> QED BY <1>2, <1>6, <1>7 DEF QuarantinedFor

\* One more CIDR, which overlaps none of the pool.
LEMMA Added ==
  ASSUME NEW xs, PoolOK(xs), NEW r \in Blocks, Len(r) <= MinLevel, NEW d \in Nat,
         \A i \in DOMAIN xs : ~overlaps(xs[i].root, r), QuarantinedFor(xs, d),
         NEW ys, ys = Append(xs, [root |-> r, tree |-> NewTree(r), quarantine |-> d])
  PROVE  PoolOK(ys) /\ QuarantinedFor(ys, d)
<1> DEFINE R == [root : Blocks, tree : Trees, quarantine : Nat]
           a == [root |-> r, tree |-> NewTree(r), quarantine |-> d]
           m == Len(xs)
<1>1. xs \in Pools /\ m \in Nat /\ DOMAIN xs = 1..m
  BY PoolEntries DEF PoolOK
<1>2. WellFormed(NewTree(r), r)
  BY NewTreeWellFormed
<1>3. a \in R /\ a.root = r /\ a.tree = NewTree(r) /\ a.quarantine = d
  BY <1>2 DEF WellFormed
<1> HIDE DEF a, R
<1>4. xs \in Seq(R)
  BY <1>1 DEF Pools, R
<1>5. /\ ys \in Seq(R) /\ DOMAIN ys = 1..(m + 1)
      /\ \A i \in 1..m : ys[i] = xs[i]
      /\ ys[m + 1] = a
  <2>1. ys = Append(xs, a)
    BY DEF a
  <2> QED BY <1>1, <1>3, <1>4, <2>1, AppendProperties
<1>6. ys \in Pools
  BY <1>5 DEF Pools, R
<1> HIDE DEF m
<1>7. ASSUME NEW i \in DOMAIN ys
      PROVE  /\ WellFormed(ys[i].tree, ys[i].root) /\ Len(ys[i].root) <= MinLevel
             /\ ys[i].quarantine = d
  <2>1. CASE i \in 1..m
    BY <1>1, <1>5, <2>1 DEF PoolOK, QuarantinedFor
  <2>2. CASE i \notin 1..m
    <3>1. i = m + 1
      BY <1>1, <1>5, <2>2
    <3> QED BY <1>2, <1>3, <1>5, <3>1
  <2> QED BY <2>1, <2>2
<1>8. ASSUME NEW i \in DOMAIN ys, NEW j \in DOMAIN ys, overlaps(ys[i].root, ys[j].root)
      PROVE  i = j
  <2>1. \A k \in DOMAIN xs : ~overlaps(xs[k].root, r) /\ ~overlaps(r, xs[k].root)
    BY DEF overlaps
  <2>2. \A k \in DOMAIN ys : ((ys[k] = xs[k] /\ k \in DOMAIN xs) \/ (k = m + 1 /\ ys[k].root = r))
    BY <1>1, <1>3, <1>5
  <2> QED BY <1>8, <2>1, <2>2 DEF PoolOK
<1> QED BY <1>6, <1>7, <1>8 DEF PoolOK, QuarantinedFor

-----------------------------------------------------------------------------
(* The pool *)

\* An empty pool satisfies the invariant.
LEMMA InitPoolInv == PoolInit => PoolInv
<1> SUFFICES ASSUME PoolInit PROVE PoolInv
  OBVIOUS
<1>1. allocators = <<>> /\ DOMAIN allocators = {}
  BY DEF PoolInit
<1>2. PoolOK(allocators)
  BY <1>1 DEF PoolOK, Pools
<1> QED BY <1>1, <1>2 DEF PoolInit, PoolInv, QuarantinedFor

\* A method that changes trees and leaves them well formed keeps the invariant.
LEMMA TreesOnly ==
  ASSUME PoolInv, PoolOK(allocators'), SameShape(allocators, allocators'),
         UNCHANGED poolQuarantine, now' \in Nat
  PROVE  PoolInv'
BY DEF PoolInv, SameShape, QuarantinedFor

\* A method that asks one CIDR after the other keeps the invariant.
LEMMA AskingInTurn ==
  ASSUME PoolInv, NEW choices, NEW n \in Nodes \cup {NoNode},
         \A i \in DOMAIN allocators :
           FromFree(SweptTree(allocators[i]), choices[i]),
         allocators' = FirstOf(allocators, choices, n).as,
         UNCHANGED <<poolQuarantine, now>>
  PROVE  PoolInv'
<1>1. PoolOK(allocators) /\ now \in Nat
  BY DEF PoolInv
<1>2. allocators \in Pools /\ \A i \in DOMAIN allocators : Sound(choices[i])
  BY <1>1 DEF PoolOK, FromFree, Sound
<1>3. PoolOK(FirstOf(allocators, choices, n).as)
  BY <1>1, FirstOfIsOK, Zenon
<1>4. SameShape(allocators, FirstOf(allocators, choices, n).as)
  BY <1>2, FirstOfOutcome, Zenon
<1>5. PoolOK(allocators') /\ SameShape(allocators, allocators')
  BY <1>3, <1>4, Zenon
<1> QED BY <1>1, <1>5, TreesOnly

\* A method that asks the CIDR of a block keeps the invariant.
LEMMA AskingOne ==
  ASSUME PoolInv, NEW i \in DOMAIN allocators, NEW w,
         WellFormed(w, allocators[i].root),
         allocators' = [allocators EXCEPT ![i].tree = w],
         UNCHANGED <<poolQuarantine, now>>
  PROVE  PoolInv'
<1>1. PoolOK(allocators) /\ now \in Nat
  BY DEF PoolInv
<1>2. PoolOK([allocators EXCEPT ![i].tree = w]) /\ SameShape(allocators, [allocators EXCEPT ![i].tree = w])
  BY <1>1, OneRetreed
<1>3. PoolOK(allocators') /\ SameShape(allocators, allocators')
  BY <1>2, Zenon
<1> QED BY <1>1, <1>3, TreesOnly

\* Every method of the pool keeps the invariant.
LEMMA NextPoolInv == PoolInv /\ [PoolNext]_poolVars => PoolInv'
<1> SUFFICES ASSUME PoolInv, [PoolNext]_poolVars PROVE PoolInv'
  OBVIOUS
<1>1. PoolOK(allocators) /\ poolQuarantine \in Nat /\ now \in Nat
  BY DEF PoolInv
<1>2. \A i \in DOMAIN allocators :
        /\ allocators[i].root \in Blocks /\ allocators[i].quarantine \in Nat
        /\ WellFormed(allocators[i].tree, allocators[i].root)
        /\ WellFormed(SweptTree(allocators[i]), allocators[i].root)
  BY <1>1, PoolEntries, SweptIsOK DEF PoolOK
<1>3. \A S, b : Owner(S, b) \subseteq DOMAIN S
  BY DEF Owner
<1>4. Nodes \subseteq Nodes \cup {NoNode} /\ NoNode \in Nodes \cup {NoNode}
  OBVIOUS
<1>5. ASSUME NEW r \in CIDRs, AddCIDR(r) PROVE PoolInv'
  <2>1. r \in Blocks
    BY CIDRsAssumption
  <2>2. /\ Len(r) <= MinLevel
        /\ \A i \in DOMAIN allocators : ~overlaps(allocators[i].root, r)
        /\ allocators' = Append(allocators, [root |-> r, tree |-> NewTree(r), quarantine |-> poolQuarantine])
        /\ poolQuarantine' = poolQuarantine /\ now' = now
    BY <1>5 DEF AddCIDR
  <2>3. QuarantinedFor(allocators, poolQuarantine)
    BY DEF PoolInv
  <2>4. PoolOK(allocators') /\ QuarantinedFor(allocators', poolQuarantine)
    BY <1>1, <2>1, <2>2, <2>3, Added
  <2> QED BY <1>1, <2>2, <2>4 DEF PoolInv
<1>6. ASSUME NEW n \in Nodes, NEW req \in Requests, PoolAllocate(req, n) PROVE PoolInv'
  <2> DEFINE C == [i \in DOMAIN allocators |->
                     AllocateChoice(allocators[i].root, SweptTree(allocators[i]), req)]
  <2>1. \A i \in DOMAIN allocators : FromFree(SweptTree(allocators[i]), C[i])
    BY <1>2, AllocateFromFree
  <2>2. allocators' = FirstOf(allocators, C, n).as /\ UNCHANGED <<poolQuarantine, now>>
    BY <1>6 DEF PoolAllocate, AllocateResult
  <2> HIDE DEF C
  <2> QED BY <1>4, <2>1, <2>2, AskingInTurn
<1>7. ASSUME NEW n \in Nodes, NEW req \in Requests, PoolAllocateSpread(req, n) PROVE PoolInv'
  <2> DEFINE C == [i \in DOMAIN allocators |->
                     SpreadOrAllocate(allocators[i].root, SweptTree(allocators[i]), req)]
  <2>1. ASSUME NEW i \in DOMAIN allocators PROVE FromFree(SweptTree(allocators[i]), C[i])
    <3> DEFINE r == allocators[i].root
               t == SweptTree(allocators[i])
    <3>1. FromFree(t, AllocateChoice(r, t, req)) /\ FromFree(t, SpreadChoice(r, t, req))
      BY <1>2, AllocateFromFree, SpreadFromFree
    <3>2. C[i] = SpreadOrAllocate(r, t, req)
      OBVIOUS
    <3> HIDE DEF C, r, t
    <3>3. FromFree(t, C[i])
      BY <3>1, <3>2 DEF SpreadOrAllocate
    <3> QED BY <3>3 DEF t
  <2>2. allocators' = FirstOf(allocators, C, n).as /\ UNCHANGED <<poolQuarantine, now>>
    BY <1>7 DEF PoolAllocateSpread, SpreadResult
  <2> HIDE DEF C
  <2> QED BY <1>4, <2>1, <2>2, AskingInTurn
<1>8. ASSUME NEW n \in Nodes, NEW req \in Requests, PoolAllocateDemand(req, n) PROVE PoolInv'
  <2> DEFINE r == DemandResult(allocators, req, n)
  <2>1. Exact(allocators, Units(req), r)
    BY <1>1, <1>4, RequestsAssumption, DemandIsExact
  <2>2. allocators' = r.as /\ UNCHANGED <<poolQuarantine, now>>
    BY <1>8 DEF PoolAllocateDemand
  <2> HIDE DEF r
  <2>3. PoolOK(allocators') /\ SameShape(allocators, allocators')
    BY <2>1, <2>2 DEF Exact
  <2> QED BY <1>1, <2>2, <2>3, TreesOnly
<1>9. ASSUME NEW l \in 0..Depth, PoolAllocatePrefix(l) PROVE PoolInv'
  <2> DEFINE C == [i \in DOMAIN allocators |->
                     PrefixChoice(allocators[i].root, SweptTree(allocators[i]), l)]
  <2>1. \A i \in DOMAIN allocators : FromFree(SweptTree(allocators[i]), C[i])
    BY <1>2, PrefixFromFree
  <2>2. allocators' = FirstOf(allocators, C, NoNode).as /\ UNCHANGED <<poolQuarantine, now>>
    BY <1>9 DEF PoolAllocatePrefix, PrefixResult
  <2> HIDE DEF C
  <2> QED BY <1>4, <2>1, <2>2, AskingInTurn
<1>10. ASSUME NEW n \in Nodes, NEW b \in Blocks, NEW req \in Requests, PoolAllocateFromBuddy(b, req, n)
       PROVE  PoolInv'
  <2>1. PICK i \in Owner(allocators, b) :
          allocators' = CallOn(allocators, i,
            FromBuddyChoice(allocators[i].root, SweptTree(allocators[i]), b, req, n), n)
    BY <1>10 DEF PoolAllocateFromBuddy
  <2>2. i \in DOMAIN allocators
    BY <1>3
  <2> DEFINE c == FromBuddyChoice(allocators[i].root, SweptTree(allocators[i]), b, req, n)
  <2>3. FromFree(SweptTree(allocators[i]), c)
    BY <1>2, <2>2, FromBuddyFromFree
  <2> HIDE DEF c
  <2>4. WellFormed(Grant(SweptTree(allocators[i]), c, n), allocators[i].root)
    BY <1>2, <2>2, <2>3, GrantWellFormed
  <2>5. allocators' = [allocators EXCEPT ![i].tree = Grant(SweptTree(allocators[i]), c, n)]
    BY <2>1, Zenon DEF CallOn, c
  <2>6. UNCHANGED <<poolQuarantine, now>>
    BY <1>10 DEF PoolAllocateFromBuddy
  <2> QED BY <2>2, <2>4, <2>5, <2>6, AskingOne, Zenon
<1>11. ASSUME NEW n \in Nodes, NEW b \in Blocks, PoolAllocateBuddyOf(b, n) PROVE PoolInv'
  <2>1. PICK i \in Owner(allocators, b) :
          allocators' = CallOn(allocators, i, BuddyChoice(SweptTree(allocators[i]), b), n)
    BY <1>11 DEF PoolAllocateBuddyOf
  <2>2. i \in DOMAIN allocators
    BY <1>3
  <2> DEFINE c == BuddyChoice(SweptTree(allocators[i]), b)
  <2>3. FromFree(SweptTree(allocators[i]), c)
    BY BuddyFromFree
  <2> HIDE DEF c
  <2>4. WellFormed(Grant(SweptTree(allocators[i]), c, n), allocators[i].root)
    BY <1>2, <2>2, <2>3, GrantWellFormed
  <2>5. allocators' = [allocators EXCEPT ![i].tree = Grant(SweptTree(allocators[i]), c, n)]
    BY <2>1, Zenon DEF CallOn, c
  <2>6. UNCHANGED <<poolQuarantine, now>>
    BY <1>11 DEF PoolAllocateBuddyOf
  <2> QED BY <2>2, <2>4, <2>5, <2>6, AskingOne, Zenon
<1>12. ASSUME NEW n \in Nodes, NEW b \in Blocks, PoolReserve(b, n) PROVE PoolInv'
  <2>1. PICK i \in Owner(allocators, b) :
          allocators' = [allocators EXCEPT ![i].tree = Grant(@, ReserveChoice(@, b), n)]
    BY <1>12 DEF PoolReserve
  <2>2. i \in DOMAIN allocators
    BY <1>3
  <2> DEFINE t == allocators[i].tree
             w == Grant(t, ReserveChoice(t, b), n)
  <2>3. FromFree(t, ReserveChoice(t, b))
    BY ReserveFromFree
  <2>4. WellFormed(w, allocators[i].root)
    BY <1>2, <2>2, <2>3, GrantWellFormed
  <2>5. allocators' = [allocators EXCEPT ![i].tree = w]
    BY <2>1
  <2>6. UNCHANGED <<poolQuarantine, now>>
    BY <1>12 DEF PoolReserve
  <2> HIDE DEF w
  <2> QED BY <2>2, <2>4, <2>5, <2>6, AskingOne, Zenon
<1>13. ASSUME NEW b \in Blocks, PoolFree(b) PROVE PoolInv'
  <2>1. PICK i \in Owner(allocators, b) :
          /\ allocators[i].tree.state[b] = "Allocated"
          /\ allocators' = [allocators EXCEPT ![i].tree =
               IF allocators[i].quarantine > 0 THEN Hold(@, b, now + allocators[i].quarantine)
               ELSE Release(@, {b})]
    BY <1>13 DEF PoolFree
  <2>2. i \in DOMAIN allocators
    BY <1>3
  <2> DEFINE t == allocators[i].tree
             q == allocators[i].quarantine
             w == IF q > 0 THEN Hold(t, b, now + q) ELSE Release(t, {b})
  <2>3. now + q \in Nat
    BY <1>1, <1>2, <2>2
  <2>4. WellFormed(Hold(t, b, now + q), allocators[i].root)
    <3> DEFINE u == now + q
    <3>1. u \in Nat
      BY <2>3
    <3> HIDE DEF u
    <3>2. WellFormed(Hold(t, b, u), allocators[i].root)
      BY <1>2, <2>1, <2>2, <3>1, HoldWellFormed
    <3> QED BY <3>2 DEF u
  <2>5. WellFormed(Release(t, {b}), allocators[i].root)
    BY <1>2, <2>2, ReleaseWellFormed
  <2>6. WellFormed(w, allocators[i].root)
    BY <2>4, <2>5
  <2>7. allocators' = [allocators EXCEPT ![i].tree = w]
    BY <2>1
  <2>8. UNCHANGED <<poolQuarantine, now>>
    BY <1>13 DEF PoolFree
  <2> HIDE DEF w
  <2> QED BY <2>2, <2>6, <2>7, <2>8, AskingOne, Zenon
<1>14. CASE SweepAll
  <2> DEFINE T == [i \in DOMAIN allocators |-> Sweep(allocators[i].tree, now)]
  <2>1. \A i \in DOMAIN allocators : WellFormed(T[i], allocators[i].root)
    BY <1>2 DEF SweptTree
  <2>2. allocators' = [i \in DOMAIN allocators |-> [allocators[i] EXCEPT !.tree = T[i]]]
    BY <1>14 DEF SweepAll
  <2> HIDE DEF T
  <2>3. PoolOK(allocators') /\ SameShape(allocators, allocators')
    BY <1>1, <2>1, <2>2, AllRetreed, Zenon
  <2> QED BY <1>1, <1>14, <2>3, TreesOnly DEF SweepAll
<1>15. CASE PoolDefragment
  <2> DEFINE T == [i \in DOMAIN allocators |-> MergeAll(Sweep(allocators[i].tree, now))]
  <2>1. \A i \in DOMAIN allocators : WellFormed(T[i], allocators[i].root)
    BY <1>2, MergeAllWellFormed DEF SweptTree
  <2>2. allocators' = [i \in DOMAIN allocators |-> [allocators[i] EXCEPT !.tree = T[i]]]
    BY <1>15 DEF PoolDefragment
  <2> HIDE DEF T
  <2>3. PoolOK(allocators') /\ SameShape(allocators, allocators')
    BY <1>1, <2>1, <2>2, AllRetreed, Zenon
  <2> QED BY <1>1, <1>15, <2>3, TreesOnly DEF PoolDefragment
<1>16. ASSUME NEW d \in Quarantines, PoolSetQuarantine(d) PROVE PoolInv'
  <2>1. d \in Nat
    BY TimeAssumption
  <2>2. /\ poolQuarantine' = d /\ now' = now
        /\ allocators' = [i \in DOMAIN allocators |-> [allocators[i] EXCEPT !.quarantine = d]]
    BY <1>16 DEF PoolSetQuarantine
  <2>3. PoolOK(allocators') /\ QuarantinedFor(allocators', d)
    BY <1>1, <2>1, <2>2, Requarantined
  <2> QED BY <1>1, <2>1, <2>2, <2>3 DEF PoolInv
<1>17. CASE PoolTick
  BY <1>1, <1>17 DEF PoolTick, ClockAdvances, PoolInv, QuarantinedFor
<1>18. CASE UNCHANGED poolVars
  BY <1>18 DEF poolVars, PoolInv, QuarantinedFor
<1> QED
  BY <1>5, <1>6, <1>7, <1>8, <1>9, <1>10, <1>11, <1>12, <1>13, <1>14, <1>15, <1>16, <1>17, <1>18
  DEF PoolNext

\* Whatever the pool is asked, its trees stay well formed, its CIDRs apart, and
\* each of them has the pool's quarantine.
THEOREM PoolInvariant == PoolSpec => []PoolInv
BY InitPoolInv, NextPoolInv, PTL DEF PoolSpec

\* Nothing that the pool has handed out or holds overlaps, across its CIDRs.
THEOREM PoolNeverOverlaps == PoolSpec => []PoolDisjoint
<1>1. PoolInv => PoolDisjoint
  <2> SUFFICES ASSUME PoolInv, NEW i \in DOMAIN allocators, NEW j \in DOMAIN allocators,
                      NEW x \in Handles(allocators[i].tree), NEW y \in Handles(allocators[j].tree),
                      overlaps(x, y)
               PROVE  i = j /\ x = y
    BY DEF PoolDisjoint
  <2> QED BY HandlesApart DEF PoolInv
<1> QED BY <1>1, PoolInvariant, PTL

\* AllocateDemand that succeeds hands out as many minimum blocks as the demand
\* needs, all of which were free, and nothing else.
THEOREM PoolDemandIsExact == PoolSpec => []DemandExact
<1>1. PoolInv => DemandExact
  <2> SUFFICES ASSUME PoolInv, NEW req \in Requests, NEW n \in Nodes
               PROVE  ErrorOrExact(DemandResult(allocators, req, n), req)
    BY DEF DemandExact
  <2> SUFFICES ASSUME DemandResult(allocators, req, n).ok
               PROVE  LET r      == DemandResult(allocators, req, n)
                          before == InState(allocators, "Allocated")
                          after  == InState(r.as, "Allocated")
                      IN /\ after = before \cup r.got
                         /\ before \cap r.got = {}
                         /\ \A x \in r.got : Len(x) \in MaxLevel..MinLevel
                         /\ \A x, y \in r.got : overlaps(x, y) => x = y
                         /\ Cardinality(UnitsIn(r.got)) = Units(req)
    BY DEF ErrorOrExact
  <2> DEFINE r == DemandResult(allocators, req, n)
  <2>1. Exact(allocators, Units(req), r)
    BY RequestsAssumption, DemandIsExact DEF PoolInv
  <2> HIDE DEF r
  <2>2. /\ InState(r.as, "Allocated") = InState(allocators, "Allocated") \cup r.got
        /\ InState(allocators, "Allocated") \cap r.got = {}
        /\ \A x \in r.got : Len(x) \in MaxLevel..MinLevel
        /\ Cardinality(UnitsIn(r.got)) = Units(req)
    BY <2>1 DEF Exact, r
  <2>3. ASSUME NEW x \in r.got, NEW y \in r.got, overlaps(x, y) PROVE x = y
    <3>1. x \in InState(r.as, "Allocated") /\ y \in InState(r.as, "Allocated")
      BY <2>2
    <3>2. PICK i \in DOMAIN r.as : x \in Handles(r.as[i].tree)
      BY <3>1, InStateMember DEF Handles
    <3>3. PICK j \in DOMAIN r.as : y \in Handles(r.as[j].tree)
      BY <3>1, InStateMember DEF Handles
    <3>4. PoolOK(r.as)
      BY <2>1 DEF Exact
    <3> QED BY <2>3, <3>2, <3>3, <3>4, HandlesApart
  <2> QED BY <2>2, <2>3 DEF r
<1> QED BY <1>1, PoolInvariant, PTL

\* AllocateDemand fails only when fewer minimum blocks are free than it needs.
THEOREM PoolDemandFailsOnlyWhenShort == PoolSpec => []DemandFailsOnlyWhenShort
<1>1. PoolInv => DemandFailsOnlyWhenShort
  <2> SUFFICES ASSUME PoolInv, NEW req \in Requests, NEW n \in Nodes
               PROVE  DemandResult(allocators, req, n).ok
                        <=> Cardinality(FreeUnits(allocators)) >= Units(req)
    BY DEF DemandFailsOnlyWhenShort
  <2>1. Exact(allocators, Units(req), DemandResult(allocators, req, n))
    BY RequestsAssumption, DemandIsExact DEF PoolInv
  <2> QED BY <2>1 DEF Exact
<1> QED BY <1>1, PoolInvariant, PTL

\* While a quarantine is set, Free holds its block back in every CIDR.
THEOREM PoolQuarantineReachesEveryCIDR == PoolSpec => QuarantineReachesEveryCIDR
<1>1. ASSUME PoolInv, NEW b \in Blocks, poolQuarantine > 0, PoolFree(b)
      PROVE  InState(allocators', "Free") = InState(allocators, "Free")
  <2>1. PICK i \in Owner(allocators, b) :
          /\ allocators[i].tree.state[b] = "Allocated"
          /\ allocators' = [allocators EXCEPT ![i].tree =
               IF allocators[i].quarantine > 0 THEN Hold(@, b, now + allocators[i].quarantine)
               ELSE Release(@, {b})]
    BY <1>1 DEF PoolFree
  <2> DEFINE t == allocators[i].tree
             w == Hold(t, b, now + allocators[i].quarantine)
  <2>2. i \in DOMAIN allocators /\ allocators[i].quarantine > 0 /\ PoolOK(allocators)
    BY <1>1 DEF Owner, PoolInv, QuarantinedFor
  <2>3. allocators' = [allocators EXCEPT ![i].tree = w]
    BY <2>1, <2>2
  <2>4. WellFormed(t, allocators[i].root) /\ t \in Trees
    BY <2>2 DEF PoolOK, WellFormed
  <2>5. \A x \in Blocks : w.state[x] = "Free" <=> t.state[x] = "Free"
    BY <2>1, <2>4 DEF Hold, Trees
  <2> HIDE DEF w
  <2>6. /\ DOMAIN allocators' = DOMAIN allocators
        /\ \A j \in DOMAIN allocators :
             \A x \in Blocks : allocators'[j].tree.state[x] = "Free"
                               <=> allocators[j].tree.state[x] = "Free"
    <3>1. allocators \in Pools /\ DOMAIN allocators = 1..Len(allocators)
      BY <2>2, PoolEntries DEF PoolOK
    <3>2. allocators = [j \in DOMAIN allocators |-> allocators[j]]
      BY <3>1 DEF Pools
    <3>3. DOMAIN allocators' = DOMAIN allocators
      BY <2>3, <3>2
    <3>4. \A j \in DOMAIN allocators : j # i => allocators'[j] = allocators[j]
      BY <2>3, <3>2
    <3>5. allocators'[i] = [allocators[i] EXCEPT !.tree = w]
      BY <2>2, <2>3, <3>2
    <3>6. [allocators[i] EXCEPT !.tree = w]
            = [root |-> allocators[i].root, tree |-> w, quarantine |-> allocators[i].quarantine]
      BY <2>2, <3>1, OtherTree
    <3>7. allocators'[i].tree = w
      BY <3>5, <3>6
    <3> QED BY <2>5, <3>3, <3>4, <3>7
  <2>7. \A x : x \in InState(allocators', "Free") <=> x \in InState(allocators, "Free")
    BY <2>6, InStateMember
  <2> QED BY <2>7
<1>2. PoolInv /\ [PoolNext]_poolVars =>
        [\A b \in Blocks : poolQuarantine > 0 /\ PoolFree(b) =>
           InState(allocators', "Free") = InState(allocators, "Free")]_poolVars
  BY <1>1
<1> QED BY <1>2, PoolInvariant, PTL DEF PoolSpec, QuarantineReachesEveryCIDR
=============================================================================
