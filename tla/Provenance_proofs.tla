-------------------------- MODULE Provenance_proofs --------------------------
(***************************************************************************)
(* What the signed tree is worth, for any number of leaves: there is a     *)
(* root; the proof of a leaf verifies for it and for nothing else; and the *)
(* root fixes the leaves, how many and in which order.                     *)
(***************************************************************************)
EXTENDS Provenance, FiniteSetTheorems, SequenceTheorems, TLAPS

-----------------------------------------------------------------------------
(* The three recursions, each with a context and an item it makes no use   *)
(* of where it has none.                                                   *)

Rise(none, level, item) == Parents(level)
Rising == INSTANCE Recursion WITH Op <- Rise

Halve(none, index, item) == index \div 2
Halving == INSTANCE Recursion WITH Op <- Halve

ClimbStep(none, acc, step) == Climb(acc, step)
Climbing == INSTANCE Recursion WITH Op <- ClimbStep

LEMMA TowerIs ==
    ASSUME NEW leaves
    PROVE  /\ Tower(leaves)[0] = leaves
           /\ \A k \in Nat : Tower(leaves)[k + 1] = Parents(Tower(leaves)[k])
<1>. DEFINE tower == Tower(leaves)
<1>1. tower = [k \in Nat |-> IF k = 0 THEN leaves ELSE Parents(tower[k - 1])]
  BY Rising!RecursiveFunction DEF Tower, Rise
<1>. HIDE DEF tower
<1>2. \A k \in Nat : (k + 1) - 1 = k /\ k + 1 # 0 /\ k + 1 \in Nat
  OBVIOUS
<1>3. tower[0] = leaves /\ \A k \in Nat : tower[k + 1] = Parents(tower[k])
  BY <1>1, <1>2
<1>. QED
  BY <1>3 DEF tower

LEMMA PathIs ==
    ASSUME NEW index
    PROVE  /\ Path(index)[0] = index
           /\ \A k \in Nat : Path(index)[k + 1] = Path(index)[k] \div 2
<1>. DEFINE path == Path(index)
<1>1. path = [k \in Nat |-> IF k = 0 THEN index ELSE path[k - 1] \div 2]
  BY Halving!RecursiveFunction DEF Path, Halve
<1>. HIDE DEF path
<1>2. \A k \in Nat : (k + 1) - 1 = k /\ k + 1 # 0 /\ k + 1 \in Nat
  OBVIOUS
<1>3. path[0] = index /\ \A k \in Nat : path[k + 1] = path[k] \div 2
  BY <1>1, <1>2
<1>. QED
  BY <1>3 DEF path

\* Verification ends with the last of the hashes it climbs through.
LEMMA RecomputedIs ==
    ASSUME NEW first, NEW n \in Nat, NEW hashes, DOMAIN hashes = 1 .. n,
           NEW way, Climbing!Follows(0, way, first, hashes, n)
    PROVE  Recomputed(first, hashes) = way[n]
<1>. DEFINE it == CHOOSE it : it = [s \in SUBSET (DOMAIN hashes) |->
                        IF s = {} THEN first
                        ELSE Climb(it[s \ {Max(s)}], hashes[Max(s)])]
<1>0. \A s : Climbing!Max(s) = Max(s)
  BY DEF Climbing!Max, Max
<1>1. \E i : Climbing!Folds(0, i, first, hashes, n)
  BY Climbing!FoldsExists
<1>2. it = [s \in SUBSET (DOMAIN hashes) |->
                        IF s = {} THEN first
                        ELSE Climb(it[s \ {Max(s)}], hashes[Max(s)])]
  BY <1>0, <1>1 DEF Climbing!Folds, ClimbStep
<1>3. Climbing!Folds(0, it, first, hashes, n)
  <2>. HIDE DEF it
  <2>. QED
  BY <1>0, <1>2 DEF Climbing!Folds, ClimbStep
<1>4. Recomputed(first, hashes) = it[1 .. n]
  BY DEF Recomputed, FoldLeft, MapThenFoldSet
<1>. HIDE DEF it
<1>5. it[1 .. n] = way[n]
  BY <1>3, Climbing!FoldIsRecursion
<1>. QED
  BY <1>4, <1>5

-----------------------------------------------------------------------------
(* The tower of levels.                                                    *)

\* A level of n nodes.
IsRow(level, n) == level = [i \in 1 .. n |-> level[i]]

LEMMA RowLen ==
    ASSUME NEW n \in Nat, NEW level, IsRow(level, n)
    PROVE  Len(level) = n /\ DOMAIN level = 1 .. n
BY DEF IsRow

LEMMA ParentsAre ==
    ASSUME NEW n \in Nat, NEW level, IsRow(level, n)
    PROVE  /\ IsRow(Parents(level), (n + 1) \div 2)
           /\ \A k \in 1 .. (n + 1) \div 2 :
                  Parents(level)[k] =
                      Node(level[2 * k - 1],
                           level[IF 2 * k <= n THEN 2 * k ELSE 2 * k - 1])
BY RowLen DEF IsRow, Parents

\* Each level is of one node already or smaller than the one below.
LEMMA TowerRows ==
    ASSUME NEW n \in Nat \ {0}, NEW leaves, IsRow(leaves, n)
    PROVE  \A k \in Nat : \E w \in 1 .. n :
               IsRow(Tower(leaves)[k], w) /\ (w = 1 \/ w + k <= n)
<1>. DEFINE S == {k \in Nat : \E w \in 1 .. n :
                     IsRow(Tower(leaves)[k], w) /\ (w = 1 \/ w + k <= n)}
<1>1. 0 \in S
  BY TowerIs
<1>2. ASSUME NEW k \in S
      PROVE  k + 1 \in S
  <2>1. PICK w \in 1 .. n :
            IsRow(Tower(leaves)[k], w) /\ (w = 1 \/ w + k <= n)
    OBVIOUS
  <2>2. IsRow(Tower(leaves)[k + 1], (w + 1) \div 2)
    BY <2>1, TowerIs, ParentsAre
  <2>3. /\ (w + 1) \div 2 \in 1 .. n
        /\ (w + 1) \div 2 = 1 \/ (w + 1) \div 2 + (k + 1) <= n
    BY <2>1
  <2>. QED
    BY <2>2, <2>3
<1>. HIDE DEF S
<1>3. S = Nat
  <2>1. S \in SUBSET Nat
    BY DEF S
  <2>. QED
    BY <1>1, <1>2, <2>1, Rising!NaturalInduction
<1>. QED
  BY <1>3 DEF S

\* There is a first level of one node.
LEMMA HeightIs ==
    ASSUME NEW n \in Nat \ {0}, NEW leaves, IsRow(leaves, n)
    PROVE  /\ Height(leaves) \in Nat
           /\ IsRow(Tower(leaves)[Height(leaves)], 1)
<1>. DEFINE S == {k \in 0 .. n : Len(Tower(leaves)[k]) = 1}
<1>1. ASSUME NEW k \in Nat
      PROVE  \E w \in 1 .. n : /\ IsRow(Tower(leaves)[k], w)
                               /\ Len(Tower(leaves)[k]) = w
                               /\ w = 1 \/ w + k <= n
  <2>1. PICK w \in 1 .. n :
            IsRow(Tower(leaves)[k], w) /\ (w = 1 \/ w + k <= n)
    BY TowerRows
  <2>2. Len(Tower(leaves)[k]) = w
    BY <2>1, RowLen
  <2>. QED
    BY <2>1, <2>2
<1>2. n - 1 \in S
  <2>1. n - 1 \in Nat /\ n - 1 \in 0 .. n
    OBVIOUS
  <2>2. PICK w \in 1 .. n : /\ Len(Tower(leaves)[n - 1]) = w
                            /\ w = 1 \/ w + (n - 1) <= n
    BY <1>1, <2>1
  <2>3. w = 1
    BY <2>2
  <2>. QED
    BY <2>1, <2>2, <2>3
<1>3. PICK h \in S : \A y \in S : h <= y
  <2>1. S \in SUBSET Nat /\ S # {}
    BY <1>2
  <2>. HIDE DEF S
  <2>. QED
    BY <2>1, Rising!LeastElement
<1>4. \A j \in 0 .. h - 1 : Len(Tower(leaves)[j]) > 1
  <2>. SUFFICES ASSUME NEW j \in 0 .. h - 1
                PROVE  Len(Tower(leaves)[j]) > 1
    OBVIOUS
  <2>1. j \in Nat /\ j \in 0 .. n /\ j < h
    OBVIOUS
  <2>2. Len(Tower(leaves)[j]) # 1
    BY <1>3, <2>1
  <2>3. \E w \in 1 .. n : Len(Tower(leaves)[j]) = w
    BY <1>1, <2>1
  <2>. QED
    BY <2>2, <2>3
<1>5. /\ Height(leaves) \in 0 .. n
      /\ Len(Tower(leaves)[Height(leaves)]) = 1
  <2>1. \E k \in 0 .. n : /\ Len(Tower(leaves)[k]) = 1
                          /\ \A j \in 0 .. k - 1 : Len(Tower(leaves)[j]) > 1
    BY <1>3, <1>4
  <2>2. Len(leaves) = n
    BY RowLen
  <2>. QED
    BY <2>1, <2>2 DEF Height
<1>. HIDE DEF S
<1>6. Height(leaves) \in Nat
  BY <1>5
<1>. QED
  BY <1>1, <1>5, <1>6

-----------------------------------------------------------------------------
(* Inclusion proofs.                                                       *)

\* On the way up a node stays within its level.
LEMMA PathStaysInside ==
    ASSUME NEW n \in Nat \ {0}, NEW leaves, IsRow(leaves, n),
           NEW index \in 0 .. n - 1
    PROVE  \A k \in Nat : \E w \in 1 .. n :
               IsRow(Tower(leaves)[k], w) /\ Path(index)[k] \in 0 .. w - 1
<1>. DEFINE S == {k \in Nat : \E w \in 1 .. n :
                 IsRow(Tower(leaves)[k], w) /\ Path(index)[k] \in 0 .. w - 1}
<1>1. 0 \in S
  BY TowerIs, PathIs
<1>2. ASSUME NEW k \in S
      PROVE  k + 1 \in S
  <2>1. PICK w \in 1 .. n :
            IsRow(Tower(leaves)[k], w) /\ Path(index)[k] \in 0 .. w - 1
    OBVIOUS
  <2>2. IsRow(Tower(leaves)[k + 1], (w + 1) \div 2)
    BY <2>1, TowerIs, ParentsAre
  <2>3. Path(index)[k + 1] = Path(index)[k] \div 2
    BY PathIs
  <2>4. /\ (w + 1) \div 2 \in 1 .. n
        /\ Path(index)[k + 1] \in 0 .. (w + 1) \div 2 - 1
    BY <2>1, <2>3
  <2>. QED
    BY <2>2, <2>4
<1>. HIDE DEF S
<1>3. S = Nat
  <2>1. S \in SUBSET Nat
    BY DEF S
  <2>. QED
    BY <1>1, <1>2, <2>1, Rising!NaturalInduction
<1>. QED
  BY <1>3 DEF S

\* One step up from a node, with its sibling, gives its parent.
LEMMA ClimbGivesParent ==
    ASSUME NEW w \in Nat \ {0}, NEW level, IsRow(level, w),
           NEW index \in 0 .. w - 1
    PROVE  Climb(level[index + 1], Sibling(level, index)) =
               Parents(level)[index \div 2 + 1]
<1>. DEFINE k == index \div 2 + 1
<1>1. k \in 1 .. (w + 1) \div 2
  OBVIOUS
<1>2. Parents(level)[k] =
          Node(level[2 * k - 1], level[IF 2 * k <= w THEN 2 * k ELSE 2 * k - 1])
  <2>. HIDE DEF k
  <2>. QED
    BY <1>1, ParentsAre
<1>3. Len(level) = w
  BY RowLen
<1>4. CASE index % 2 = 0
  <2>1. index + 1 = 2 * k - 1 /\ index + 2 = 2 * k
    BY <1>4
  <2>2. CASE index + 1 >= w
    <3>1. Sibling(level, index) = [side |-> "R", hash |-> level[index + 1]]
      BY <1>3, <1>4, <2>2 DEF Sibling
    <3>2. ~(2 * k <= w)
      BY <2>1, <2>2
    <3>. QED
      BY <1>2, <2>1, <3>1, <3>2 DEF Climb
  <2>3. CASE ~(index + 1 >= w)
    <3>1. Sibling(level, index) = [side |-> "R", hash |-> level[index + 2]]
      BY <1>3, <1>4, <2>3 DEF Sibling
    <3>2. 2 * k <= w
      BY <2>1, <2>3
    <3>. QED
      BY <1>2, <2>1, <3>1, <3>2 DEF Climb
  <2>. QED
    BY <2>2, <2>3
<1>5. CASE index % 2 # 0
  <2>1. index + 1 = 2 * k /\ index = 2 * k - 1 /\ 2 * k <= w
    BY <1>5
  <2>2. Sibling(level, index) = [side |-> "L", hash |-> level[index]]
    BY <1>3, <1>5 DEF Sibling
  <2>. QED
    BY <1>2, <2>1, <2>2 DEF Climb
<1>. QED
  BY <1>4, <1>5

\* The proof of a leaf verifies for the leaf, whatever their number and
\* however often the last node of a level is paired with itself (provenance.py,
\* MerkleTree.proof, verify).
THEOREM ProofVerifies ==
    ASSUME NEW n \in Nat \ {0}, NEW leaves, IsRow(leaves, n),
           NEW index \in 0 .. n - 1
    PROVE  Verifies(leaves[index + 1], Proof(leaves, index), Root(leaves))
<1>. DEFINE h == Height(leaves)
            steps == Proof(leaves, index)
            g == [k \in 0 .. h |-> Tower(leaves)[k][Path(index)[k] + 1]]
            leaf == leaves[index + 1]
            root == Root(leaves)
<1>1. h \in Nat /\ IsRow(Tower(leaves)[h], 1)
  BY HeightIs
<1>. HIDE DEF h
<1>2. DOMAIN steps = 1 .. h
  BY DEF Proof, h
<1>3. g[0] = leaf
  BY <1>1, TowerIs, PathIs
<1>4. ASSUME NEW k \in 1 .. h
      PROVE  g[k] = Climb(g[k - 1], steps[k])
  <2>. DEFINE j == k - 1
  <2>1. j \in Nat /\ j + 1 = k /\ j \in 0 .. h /\ k \in 0 .. h
    BY <1>1
  <2>. HIDE DEF j
  <2>2. steps[k] = Sibling(Tower(leaves)[j], Path(index)[j])
    BY DEF Proof, h, j
  <2>3. PICK w \in 1 .. n :
            IsRow(Tower(leaves)[j], w) /\ Path(index)[j] \in 0 .. w - 1
    BY <2>1, PathStaysInside
  <2>4. /\ Tower(leaves)[k] = Parents(Tower(leaves)[j])
        /\ Path(index)[k] = Path(index)[j] \div 2
    BY <2>1, TowerIs, PathIs
  <2>5. Climb(Tower(leaves)[j][Path(index)[j] + 1], steps[k]) =
            Tower(leaves)[k][Path(index)[k] + 1]
    <3>. DEFINE level == Tower(leaves)[j]
                at == Path(index)[j]
    <3>. HIDE DEF g, steps, level, at
    <3>1. w \in Nat \ {0} /\ IsRow(level, w) /\ at \in 0 .. w - 1
      BY <2>3 DEF level, at
    <3>2. Climb(level[at + 1], Sibling(level, at)) =
              Parents(level)[at \div 2 + 1]
      BY <3>1, ClimbGivesParent
    <3>. QED
      BY <2>2, <2>4, <3>2 DEF level, at
  <2>. QED
    BY <2>1, <2>5 DEF j
<1>5. g[h] = root
  <2>1. PICK w \in 1 .. n :
            IsRow(Tower(leaves)[h], w) /\ Path(index)[h] \in 0 .. w - 1
    BY <1>1, PathStaysInside
  <2>2. w = 1
    BY <2>1, <1>1, RowLen
  <2>3. Path(index)[h] + 1 = 1
    BY <2>1, <2>2
  <2>. QED
    BY <1>1, <2>3 DEF Root, h
<1>. HIDE DEF g, steps, leaf, root
<1>6. Recomputed(leaf, steps) = g[h]
  <2>1. Climbing!Follows(0, g, leaf, steps, h)
    BY <1>3, <1>4 DEF Climbing!Follows, ClimbStep
  <2>. QED
    BY <1>1, <1>2, <2>1, RecomputedIs
<1>. QED
  BY <1>5, <1>6 DEF Verifies, steps, leaf, root

\* Climbing from two hashes along one proof comes to one place only from the
\* same hash.
LEMMA ProofBinds ==
    ASSUME NEW n \in Nat, NEW steps, DOMAIN steps = 1 .. n,
           NEW one, NEW other,
           Recomputed(one, steps) = Recomputed(other, steps)
    PROVE  one = other
<1>1. PICK f : Climbing!Recurses(0, f, one, steps, n)
  BY Climbing!RecursionExists
<1>2. PICK g : Climbing!Recurses(0, g, other, steps, n)
  BY Climbing!RecursionExists
<1>3. /\ Climbing!Follows(0, f, one, steps, n)
      /\ Climbing!Follows(0, g, other, steps, n)
  BY <1>1, <1>2, Climbing!RecursesFollows
<1>4. f[n] = g[n]
  BY <1>3, RecomputedIs
<1>. DEFINE S == {k \in Nat : k <= n /\ f[k] = g[k] => one = other}
<1>5. 0 \in S
  BY <1>3 DEF Climbing!Follows
<1>6. ASSUME NEW k \in S
      PROVE  k + 1 \in S
  <2>. SUFFICES ASSUME k + 1 <= n, f[k + 1] = g[k + 1]
                PROVE  one = other
    OBVIOUS
  <2>1. /\ f[k + 1] = Climb(f[k], steps[k + 1])
        /\ g[k + 1] = Climb(g[k], steps[k + 1])
    BY <1>3 DEF Climbing!Follows, ClimbStep
  <2>2. \A p, q, s : Climb(p, s) = Climb(q, s) => p = q
    BY DEF Climb, Node
  <2>3. f[k] = g[k]
    BY <2>1, <2>2
  <2>. QED
    BY <2>3
<1>. HIDE DEF S
<1>7. S = Nat
  <2>1. S \in SUBSET Nat
    BY DEF S
  <2>. QED
    BY <1>5, <1>6, <2>1, Climbing!NaturalInduction
<1>. QED
  BY <1>4, <1>7 DEF S

-----------------------------------------------------------------------------
(* What the root stands for.                                               *)

\* A level of n nodes that are all different.
IsDistinctRow(level, n) ==
    /\ IsRow(level, n)
    /\ \A i, j \in 1 .. n : level[i] = level[j] => i = j

LEMMA ParentsDistinct ==
    ASSUME NEW n \in Nat, NEW level, IsDistinctRow(level, n)
    PROVE  IsDistinctRow(Parents(level), (n + 1) \div 2)
<1>1. IsRow(Parents(level), (n + 1) \div 2)
  BY ParentsAre DEF IsDistinctRow
<1>2. ASSUME NEW i \in 1 .. (n + 1) \div 2, NEW j \in 1 .. (n + 1) \div 2,
             Parents(level)[i] = Parents(level)[j]
      PROVE  i = j
  <2>1. level[2 * i - 1] = level[2 * j - 1]
    BY <1>2, ParentsAre DEF IsDistinctRow, Node
  <2>2. 2 * i - 1 \in 1 .. n /\ 2 * j - 1 \in 1 .. n
    OBVIOUS
  <2>3. 2 * i - 1 = 2 * j - 1
    BY <2>1, <2>2 DEF IsDistinctRow
  <2>. QED
    BY <2>3
<1>. QED
  BY <1>1, <1>2 DEF IsDistinctRow

\* An odd last node, paired with itself, is not taken for two.
LEMMA ParentsInjective ==
    ASSUME NEW m \in Nat, NEW n \in Nat, NEW a, NEW b,
           IsDistinctRow(a, m), IsDistinctRow(b, n), Parents(a) = Parents(b)
    PROVE  a = b
<1>1. /\ IsRow(Parents(a), (m + 1) \div 2) /\ IsRow(a, m)
      /\ IsRow(Parents(b), (n + 1) \div 2) /\ IsRow(b, n)
  BY ParentsAre DEF IsDistinctRow
<1>2. (m + 1) \div 2 = (n + 1) \div 2
  <2>1. (m + 1) \div 2 \in Nat /\ (n + 1) \div 2 \in Nat
    OBVIOUS
  <2>. QED
    BY <1>1, <2>1, RowLen
<1>3. ASSUME NEW k \in 1 .. (m + 1) \div 2
      PROVE  /\ a[2 * k - 1] = b[2 * k - 1]
             /\ a[IF 2 * k <= m THEN 2 * k ELSE 2 * k - 1] =
                    b[IF 2 * k <= n THEN 2 * k ELSE 2 * k - 1]
  BY <1>1, <1>2, ParentsAre DEF Node
<1>4. m = n
  <2>1. CASE m < n
    <3>1. m = 2 * ((m + 1) \div 2) - 1 /\ n = m + 1 /\ (m + 1) \div 2 >= 1
      BY <1>2, <2>1
    <3>2. PICK k \in 1 .. (m + 1) \div 2 : m = 2 * k - 1 /\ n = 2 * k
      BY <3>1
    <3>3. b[2 * k] = b[2 * k - 1]
      BY <1>3, <3>2
    <3>. QED
      BY <3>2, <3>3 DEF IsDistinctRow
  <2>2. CASE n < m
    <3>1. n = 2 * ((m + 1) \div 2) - 1 /\ m = n + 1 /\ (m + 1) \div 2 >= 1
      BY <1>2, <2>2
    <3>2. PICK k \in 1 .. (m + 1) \div 2 : n = 2 * k - 1 /\ m = 2 * k
      BY <3>1
    <3>3. a[2 * k] = a[2 * k - 1]
      BY <1>3, <3>2
    <3>. QED
      BY <3>2, <3>3 DEF IsDistinctRow
  <2>. QED
    BY <2>1, <2>2
<1>5. ASSUME NEW i \in 1 .. m
      PROVE  a[i] = b[i]
  <2>1. PICK k \in 1 .. (m + 1) \div 2 : i = 2 * k - 1 \/ i = 2 * k
    <3>1. (i + 1) \div 2 \in 1 .. (m + 1) \div 2
      OBVIOUS
    <3>2. i = 2 * ((i + 1) \div 2) - 1 \/ i = 2 * ((i + 1) \div 2)
      OBVIOUS
    <3>. QED
      BY <3>1, <3>2
  <2>. QED
    BY <1>3, <1>4, <2>1
<1>. QED
  BY <1>1, <1>4, <1>5 DEF IsRow

LEMMA TowerDistinct ==
    ASSUME NEW n \in Nat \ {0}, NEW leaves, IsDistinctRow(leaves, n)
    PROVE  \A k \in Nat : \E w \in 1 .. n : IsDistinctRow(Tower(leaves)[k], w)
<1>. DEFINE S == {k \in Nat : \E w \in 1 .. n :
                                  IsDistinctRow(Tower(leaves)[k], w)}
<1>1. 0 \in S
  BY TowerIs
<1>2. ASSUME NEW k \in S
      PROVE  k + 1 \in S
  <2>1. PICK w \in 1 .. n : IsDistinctRow(Tower(leaves)[k], w)
    OBVIOUS
  <2>2. IsDistinctRow(Tower(leaves)[k + 1], (w + 1) \div 2)
    BY <2>1, TowerIs, ParentsDistinct
  <2>3. (w + 1) \div 2 \in 1 .. n
    OBVIOUS
  <2>. QED
    BY <2>2, <2>3
<1>. HIDE DEF S
<1>3. S = Nat
  <2>1. S \in SUBSET Nat
    BY DEF S
  <2>. QED
    BY <1>1, <1>2, <2>1, Rising!NaturalInduction
<1>. QED
  BY <1>3 DEF S

\* From a level that two towers share down to the leaves of the lower one.
LEMMA TowersAgreeDown ==
    ASSUME NEW m \in Nat \ {0}, NEW n \in Nat \ {0}, NEW a, NEW b,
           IsDistinctRow(a, m), IsDistinctRow(b, n),
           NEW h \in Nat, NEW d \in Nat,
           Tower(a)[h] = Tower(b)[h + d]
    PROVE  a = Tower(b)[d]
<1>. DEFINE S == {k \in Nat : Tower(a)[k] = Tower(b)[k + d]
                                  => a = Tower(b)[d]}
<1>1. 0 \in S
  BY TowerIs
<1>2. ASSUME NEW k \in S
      PROVE  k + 1 \in S
  <2>. SUFFICES ASSUME Tower(a)[k + 1] = Tower(b)[(k + 1) + d]
                PROVE  a = Tower(b)[d]
    OBVIOUS
  <2>. DEFINE j == k + d
  <2>1. j \in Nat /\ k \in Nat /\ j + 1 = (k + 1) + d
    OBVIOUS
  <2>. HIDE DEF j
  <2>2. Parents(Tower(a)[k]) = Parents(Tower(b)[j])
    BY <2>1, TowerIs
  <2>3. PICK v \in 1 .. m : IsDistinctRow(Tower(a)[k], v)
    BY <2>1, TowerDistinct
  <2>4. PICK w \in 1 .. n : IsDistinctRow(Tower(b)[j], w)
    BY <2>1, TowerDistinct
  <2>5. v \in Nat /\ w \in Nat
    OBVIOUS
  <2>6. Tower(a)[k] = Tower(b)[j]
    BY <2>2, <2>3, <2>4, <2>5, ParentsInjective
  <2>. QED
    BY <2>6 DEF j
<1>. HIDE DEF S
<1>3. S = Nat
  <2>1. S \in SUBSET Nat
    BY DEF S
  <2>. QED
    BY <1>1, <1>2, <2>1, Rising!NaturalInduction
<1>. QED
  BY <1>3 DEF S

\* No leaf is taken for a node.
NoNodes(leaves) == \A i \in DOMAIN leaves : \A x, y : leaves[i] # Node(x, y)

LEMMA LowerTowerIsTheSame ==
    ASSUME NEW m \in Nat \ {0}, NEW n \in Nat \ {0}, NEW a, NEW b,
           IsDistinctRow(a, m), IsDistinctRow(b, n), NoNodes(a),
           NEW h \in Nat, NEW d \in Nat,
           Tower(a)[h] = Tower(b)[h + d]
    PROVE  a = b
<1>1. a = Tower(b)[d]
  BY TowersAgreeDown
<1>2. CASE d = 0
  BY <1>1, <1>2, TowerIs
<1>3. CASE d # 0
  <2>. DEFINE e == d - 1
  <2>1. e \in Nat /\ e + 1 = d
    BY <1>3
  <2>. HIDE DEF e
  <2>2. PICK w \in 1 .. n : IsDistinctRow(Tower(b)[e], w)
    BY <2>1, TowerDistinct
  <2>3. a = Parents(Tower(b)[e])
    BY <1>1, <2>1, TowerIs
  <2>4. /\ IsRow(a, (w + 1) \div 2)
        /\ 1 \in 1 .. (w + 1) \div 2
        /\ \E x, y : a[1] = Node(x, y)
    BY <2>2, <2>3, ParentsAre DEF IsDistinctRow
  <2>5. 1 \in DOMAIN a
    BY <2>4 DEF IsRow
  <2>. QED
    BY <2>4, <2>5 DEF NoNodes
<1>. QED
  BY <1>2, <1>3

\* The root fixes the leaves, their number and their order, among lists of
\* leaves of which no two are equal and none is a node (provenance.py,
\* MerkleTree).
THEOREM RootDeterminesLeaves ==
    ASSUME NEW m \in Nat \ {0}, NEW n \in Nat \ {0}, NEW a, NEW b,
           IsDistinctRow(a, m), IsDistinctRow(b, n), NoNodes(a), NoNodes(b),
           Root(a) = Root(b)
    PROVE  a = b
<1>. DEFINE ha == Height(a)
            hb == Height(b)
<1>1. /\ ha \in Nat /\ IsRow(Tower(a)[ha], 1)
      /\ hb \in Nat /\ IsRow(Tower(b)[hb], 1)
  BY HeightIs DEF IsDistinctRow
<1>2. Tower(a)[ha] = Tower(b)[hb]
  <2>1. Tower(a)[ha][1] = Tower(b)[hb][1]
    BY DEF Root
  <2>. HIDE DEF ha, hb
  <2>. QED
    BY <1>1, <2>1 DEF IsRow
<1>. HIDE DEF ha, hb
<1>3. CASE ha <= hb
  <2>1. hb - ha \in Nat /\ ha + (hb - ha) = hb
    BY <1>1, <1>3
  <2>. QED
    BY <1>1, <1>2, <2>1, LowerTowerIsTheSame
<1>4. CASE hb <= ha
  <2>1. ha - hb \in Nat /\ hb + (ha - hb) = ha
    BY <1>1, <1>4
  <2>. QED
    BY <1>1, <1>2, <2>1, LowerTowerIsTheSame
<1>. QED
  BY <1>1, <1>3, <1>4

-----------------------------------------------------------------------------
(* The leaves of a record.                                                 *)

LEMMA BeforeIsOrder ==
    /\ \A x \in Fields : ~Before(x, x)
    /\ \A x, y, z \in Fields : Before(x, y) /\ Before(y, z) => Before(x, z)
    /\ \A x, y \in Fields : x = y \/ Before(x, y) \/ Before(y, x)
<1>1. \A x \in Fields : CodePoint[x] \in Nat
  BY CodePointAssumption
<1>2. \A x, y \in Fields : CodePoint[x] = CodePoint[y] => x = y
  BY CodePointAssumption
<1>. QED
  BY <1>1, <1>2 DEF Before

\* The canonical order has each name at one place.
LEMMA CanonicalOrderIs ==
    ASSUME NEW names \in SUBSET Fields
    PROVE  /\ Cardinality(names) \in Nat
           /\ DOMAIN CanonicalOrder(names) = 1 .. Cardinality(names)
           /\ \A i \in 1 .. Cardinality(names) :
                  CanonicalOrder(names)[i] \in names
           /\ \A i, j \in 1 .. Cardinality(names) :
                  CanonicalOrder(names)[i] = CanonicalOrder(names)[j] => i = j
           /\ \A x \in names : \E i \in 1 .. Cardinality(names) :
                  CanonicalOrder(names)[i] = x
<1>. DEFINE n == Cardinality(names)
            below(x) == {y \in names : Before(y, x)}
            rank == [x \in names |-> Cardinality(below(x))]
<1>1. IsFiniteSet(names) /\ n \in Nat
  BY FieldsAssumption, FS_Subset, FS_CardinalityType
<1>2. ASSUME NEW x \in names
      PROVE  /\ IsFiniteSet(below(x))
             /\ rank[x] \in 0 .. n - 1
  <2>1. below(x) \in SUBSET (names \ {x})
    BY BeforeIsOrder
  <2>2. IsFiniteSet(names \ {x}) /\ Cardinality(names \ {x}) = n - 1
    BY <1>1, FS_RemoveElement
  <2>. HIDE DEF below
  <2>3. IsFiniteSet(below(x)) /\ Cardinality(below(x)) <= n - 1
    BY <2>1, <2>2, FS_Subset
  <2>4. Cardinality(below(x)) \in Nat
    BY <2>3, FS_CardinalityType
  <2>. HIDE DEF n
  <2>. QED
    BY <1>1, <2>3, <2>4
<1>3. ASSUME NEW x \in names, NEW y \in names, Before(x, y)
      PROVE  rank[x] < rank[y]
  <2>1. x \notin below(x) /\ below(x) \cup {x} \in SUBSET below(y)
    BY <1>3, BeforeIsOrder
  <2>. HIDE DEF below
  <2>2. Cardinality(below(x) \cup {x}) = Cardinality(below(x)) + 1
    BY <1>2, <2>1, FS_AddElement
  <2>3. Cardinality(below(x) \cup {x}) <= Cardinality(below(y))
    BY <1>2, <2>1, FS_Subset
  <2>4. rank[x] \in Nat /\ rank[y] \in Nat
    BY <1>2
  <2>. HIDE DEF n
  <2>. QED
    BY <2>2, <2>3, <2>4
<1>. HIDE DEF n, below, rank
<1>4. rank \in Injection(names, 0 .. n - 1)
  <2>1. rank \in [names -> 0 .. n - 1]
    <3>1. rank = [x \in names |-> rank[x]]
      BY DEF rank
    <3>. QED
      BY <1>2, <3>1
  <2>2. ASSUME NEW x \in names, NEW y \in names, rank[x] = rank[y]
        PROVE  x = y
    <3>1. rank[x] \in Nat /\ rank[y] \in Nat
      BY <1>2
    <3>2. ~Before(x, y) /\ ~Before(y, x)
      BY <1>3, <2>2, <3>1
    <3>. QED
      BY <3>2, BeforeIsOrder
  <2>. QED
    BY <2>1, <2>2 DEF Injection, IsInjective
<1>5. rank \in Surjection(names, 0 .. n - 1)
  <2>1. IsFiniteSet(0 .. n - 1) /\ Cardinality(0 .. n - 1) = n
    BY <1>1, FS_Interval
  <2>. QED
    BY <1>4, <2>1, FS_Injection DEF n
<1>6. ASSUME NEW i \in 1 .. n
      PROVE  \E x \in names : rank[x] = i - 1
  BY <1>1, <1>5 DEF Surjection
<1>7. /\ DOMAIN CanonicalOrder(names) = 1 .. n
      /\ \A i \in 1 .. n :
             CanonicalOrder(names)[i] =
                 CHOOSE x \in names :
                     Cardinality({y \in names : Before(y, x)}) = i - 1
  BY DEF CanonicalOrder, n
<1>8. ASSUME NEW i \in 1 .. n
      PROVE  /\ CanonicalOrder(names)[i] \in names
             /\ rank[CanonicalOrder(names)[i]] = i - 1
  <2>. DEFINE it == CHOOSE x \in names :
                        Cardinality({y \in names : Before(y, x)}) = i - 1
  <2>1. \E x \in names : Cardinality({y \in names : Before(y, x)}) = i - 1
    BY <1>6 DEF rank, below
  <2>2. /\ it \in names
        /\ Cardinality({y \in names : Before(y, it)}) = i - 1
    BY <2>1
  <2>3. CanonicalOrder(names)[i] = it
    BY <1>7
  <2>. HIDE DEF it
  <2>. QED
    BY <2>2, <2>3 DEF rank, below
<1>9. ASSUME NEW x \in names
      PROVE  \E i \in 1 .. n : CanonicalOrder(names)[i] = x
  <2>1. rank[x] \in 0 .. n - 1
    BY <1>2
  <2>2. rank[x] + 1 \in 1 .. n /\ (rank[x] + 1) - 1 = rank[x]
    BY <1>1, <2>1
  <2>3. rank[CanonicalOrder(names)[rank[x] + 1]] = rank[x]
    BY <1>8, <2>2
  <2>. QED
    BY <1>4, <1>8, <2>2, <2>3 DEF Injection, IsInjective
<1>10. ASSUME NEW i \in 1 .. n, NEW j \in 1 .. n,
              CanonicalOrder(names)[i] = CanonicalOrder(names)[j]
       PROVE  i = j
  BY <1>1, <1>8, <1>10
<1>. QED
  BY <1>1, <1>7, <1>8, <1>9, <1>10 DEF n

\* A hash says what it is of: a header, a field or two nodes.
LEMMA HashesDiffer ==
    /\ \A header, name, disposition, repr, label, salt :
           HeaderHash(header) # LeafHash(name, disposition, repr, label, salt)
    /\ \A header, x, y : HeaderHash(header) # Node(x, y)
    /\ \A name, disposition, repr, label, salt, x, y :
           LeafHash(name, disposition, repr, label, salt) # Node(x, y)
<1>1. \A a, b, c, d, e, f : <<a, b>> # <<c, d, e, f>>
  <2>. SUFFICES ASSUME NEW a, NEW b, NEW c, NEW d, NEW e, NEW f,
                       <<a, b>> = <<c, d, e, f>>
                PROVE  FALSE
    OBVIOUS
  <2>1. Len(<<a, b>>) = 2 /\ Len(<<c, d, e, f>>) = 4
    OBVIOUS
  <2>. QED
    BY <2>1
<1>2. \A a, b, c, d, e : <<a, b>> # <<c, d, e>>
  <2>. SUFFICES ASSUME NEW a, NEW b, NEW c, NEW d, NEW e, <<a, b>> = <<c, d, e>>
                PROVE  FALSE
    OBVIOUS
  <2>1. Len(<<a, b>>) = 2 /\ Len(<<c, d, e>>) = 3
    OBVIOUS
  <2>. QED
    BY <2>1
<1>3. \A a, b, c, d, e, f, g : <<a, b, c, d>> # <<e, f, g>>
  <2>. SUFFICES ASSUME NEW a, NEW b, NEW c, NEW d, NEW e, NEW f, NEW g,
                       <<a, b, c, d>> = <<e, f, g>>
                PROVE  FALSE
    OBVIOUS
  <2>1. Len(<<a, b, c, d>>) = 4 /\ Len(<<e, f, g>>) = 3
    OBVIOUS
  <2>. QED
    BY <2>1
<1>. QED
  BY <1>1, <1>2, <1>3, Zenon DEF HeaderHash, LeafHash, Node

\* The leaf of a field names it.
LEMMA LeafNames ==
    ASSUME NEW n1, NEW d1, NEW r1, NEW l1, NEW s1,
           NEW n2, NEW d2, NEW r2, NEW l2, NEW s2,
           LeafHash(n1, d1, r1, l1, s1) = LeafHash(n2, d2, r2, l2, s2)
    PROVE  n1 = n2 /\ l1 = l2 /\ s1 = s2
BY DEF LeafHash

\* The leaf of the i-th field of a record.
FieldLeaf(resolved, salts, i) ==
    LET f == CanonicalOrder(DOMAIN resolved)[i]
        spec == resolved[f]
    IN  LeafHash(f, spec.disposition, spec.repr, spec.label, salts[f])

\* The leaves of a record: its header, and each field once.
LEMMA LeavesAre ==
    ASSUME NEW header, NEW resolved, NEW salts, DOMAIN resolved \subseteq Fields
    PROVE  LET leaves == LeavesOf(header, resolved, salts)
               n == Cardinality(DOMAIN resolved)
           IN  /\ n \in Nat
               /\ IsDistinctRow(leaves, n + 1)
               /\ NoNodes(leaves)
               /\ leaves[1] = HeaderHash(header)
               /\ \A i \in 1 .. n :
                      leaves[i + 1] = FieldLeaf(resolved, salts, i)
<1>. DEFINE leaves == LeavesOf(header, resolved, salts)
            n == Cardinality(DOMAIN resolved)
            order == CanonicalOrder(DOMAIN resolved)
            body == [i \in 1 .. n |-> FieldLeaf(resolved, salts, i)]
            All == {body[i] : i \in 1 .. n} \cup {HeaderHash(header)}
<1>1. /\ n \in Nat
      /\ \A i, j \in 1 .. n : order[i] = order[j] => i = j
  BY CanonicalOrderIs
<1>2. leaves = <<HeaderHash(header)>> \o body
  BY DEF LeavesOf, FieldLeaf
<1>. HIDE DEF leaves, n, order
<1>3. /\ body \in Seq(All) /\ Len(body) = n
      /\ <<HeaderHash(header)>> \in Seq(All)
      /\ Len(<<HeaderHash(header)>>) = 1
  BY <1>1
<1>4. \A i \in 1 .. n : body[i] = FieldLeaf(resolved, salts, i)
  OBVIOUS
<1>. HIDE DEF body, All
<1>5. /\ Len(leaves) = n + 1 /\ leaves \in Seq(All)
      /\ \A i \in 1 .. n + 1 :
             leaves[i] = IF i <= 1 THEN <<HeaderHash(header)>>[i]
                         ELSE body[i - 1]
  BY <1>1, <1>2, <1>3, ConcatProperties
<1>6. IsRow(leaves, n + 1) /\ DOMAIN leaves = 1 .. n + 1
  BY <1>5 DEF IsRow
<1>7. leaves[1] = HeaderHash(header)
  BY <1>1, <1>5
<1>8. ASSUME NEW i \in 1 .. n
      PROVE  leaves[i + 1] = FieldLeaf(resolved, salts, i)
  BY <1>1, <1>4, <1>5
<1>9. ASSUME NEW i \in 2 .. n + 1
      PROVE  leaves[i] = FieldLeaf(resolved, salts, i - 1)
  <2>1. i - 1 \in 1 .. n /\ (i - 1) + 1 = i
    BY <1>1
  <2>. QED
    BY <1>8, <2>1
<1>10. ASSUME NEW i \in 1 .. n + 1, NEW j \in 1 .. n + 1, leaves[i] = leaves[j]
       PROVE  i = j
  <2>1. CASE i = 1 /\ j = 1
    BY <2>1
  <2>2. CASE i = 1 /\ j # 1
    <3>1. j \in 2 .. n + 1
      BY <2>2, <1>1
    <3>2. leaves[j] = FieldLeaf(resolved, salts, j - 1)
      BY <1>9, <3>1
    <3>. QED
      BY <2>2, <3>2, <1>7, <1>10, HashesDiffer DEF FieldLeaf
  <2>3. CASE i # 1 /\ j = 1
    <3>1. i \in 2 .. n + 1
      BY <2>3, <1>1
    <3>2. leaves[i] = FieldLeaf(resolved, salts, i - 1)
      BY <1>9, <3>1
    <3>. QED
      BY <2>3, <3>2, <1>7, <1>10, HashesDiffer DEF FieldLeaf
  <2>4. CASE i # 1 /\ j # 1
    <3>1. i \in 2 .. n + 1 /\ j \in 2 .. n + 1
      BY <2>4, <1>1
    <3>2. FieldLeaf(resolved, salts, i - 1) = FieldLeaf(resolved, salts, j - 1)
      BY <1>9, <1>10, <3>1
    <3>3. order[i - 1] = order[j - 1]
      BY <3>2, LeafNames DEF FieldLeaf, order
    <3>4. i - 1 \in 1 .. n /\ j - 1 \in 1 .. n
      BY <3>1, <1>1
    <3>5. i - 1 = j - 1
      BY <1>1, <3>3, <3>4
    <3>. QED
      BY <3>5
  <2>. QED
    BY <2>1, <2>2, <2>3, <2>4
<1>11. NoNodes(leaves)
  <2>. SUFFICES ASSUME NEW i \in 1 .. n + 1
                PROVE  \A x, y : leaves[i] # Node(x, y)
    BY <1>6 DEF NoNodes
  <2>1. CASE i = 1
    BY <2>1, <1>7, HashesDiffer
  <2>2. CASE i # 1
    <3>1. i \in 2 .. n + 1
      BY <2>2, <1>1
    <3>. QED
      BY <3>1, <1>9, HashesDiffer DEF FieldLeaf
  <2>. QED
    BY <2>1, <2>2
<1>. QED
  BY <1>1, <1>6, <1>7, <1>8, <1>10, <1>11 DEF IsDistinctRow, leaves, n

\* The proof that travels with a field verifies for the leaf of that field
\* and for no other leaf of the record (provenance.py, MerkleTree.proof,
\* verify).
THEOREM ProvesOneLeaf ==
    ASSUME NEW header, NEW resolved, NEW salts, DOMAIN resolved \subseteq Fields,
           NEW i \in 1 .. Cardinality(DOMAIN resolved),
           NEW j \in 1 .. Cardinality(DOMAIN resolved) + 1
    PROVE  LET leaves == LeavesOf(header, resolved, salts)
           IN  Verifies(leaves[j], Proof(leaves, i), Root(leaves)) <=> j = i + 1
<1>. DEFINE leaves == LeavesOf(header, resolved, salts)
            n == Cardinality(DOMAIN resolved)
            w == n + 1
            steps == Proof(leaves, i)
            root == Root(leaves)
<1>1. n \in Nat /\ IsDistinctRow(leaves, w)
  BY LeavesAre
<1>2. w \in Nat \ {0} /\ i \in 0 .. w - 1 /\ j \in 1 .. w /\ i + 1 \in 1 .. w
  BY <1>1
<1>3. IsRow(leaves, w)
  BY <1>1 DEF IsDistinctRow
<1>. HIDE DEF leaves, n, w
<1>4. Verifies(leaves[i + 1], steps, root)
  BY <1>2, <1>3, ProofVerifies
<1>5. Height(leaves) \in Nat /\ DOMAIN steps = 1 .. Height(leaves)
  BY <1>2, <1>3, HeightIs DEF Proof
<1>. HIDE DEF steps, root
<1>6. ASSUME Verifies(leaves[j], steps, root)
      PROVE  j = i + 1
  <2>1. Recomputed(leaves[j], steps) = Recomputed(leaves[i + 1], steps)
    BY <1>4, <1>6 DEF Verifies
  <2>2. leaves[j] = leaves[i + 1]
    BY <1>5, <2>1, ProofBinds
  <2>. QED
    BY <1>1, <1>2, <2>2 DEF IsDistinctRow
<1>7. Verifies(leaves[j], steps, root) <=> j = i + 1
  BY <1>4, <1>6
<1>. QED
  BY <1>7 DEF leaves, steps, root

\* The root fixes the header, the fields there are and the leaf of each,
\* whatever the number of fields (provenance.py, Binder.bind).
THEOREM RootDeterminesRecord ==
    ASSUME NEW header, NEW resolved, NEW salts, DOMAIN resolved \subseteq Fields,
           NEW header2, NEW resolved2, NEW salts2,
           DOMAIN resolved2 \subseteq Fields,
           Root(LeavesOf(header, resolved, salts)) =
               Root(LeavesOf(header2, resolved2, salts2))
    PROVE  /\ LeavesOf(header, resolved, salts) =
                  LeavesOf(header2, resolved2, salts2)
           /\ header = header2
           /\ DOMAIN resolved = DOMAIN resolved2
           /\ \A i \in 1 .. Cardinality(DOMAIN resolved) :
                  FieldLeaf(resolved, salts, i) =
                      FieldLeaf(resolved2, salts2, i)
<1>. DEFINE a == LeavesOf(header, resolved, salts)
            b == LeavesOf(header2, resolved2, salts2)
            m == Cardinality(DOMAIN resolved)
            n == Cardinality(DOMAIN resolved2)
<1>1. /\ m \in Nat /\ IsDistinctRow(a, m + 1) /\ NoNodes(a)
      /\ a[1] = HeaderHash(header)
      /\ \A i \in 1 .. m : a[i + 1] = FieldLeaf(resolved, salts, i)
  BY LeavesAre
<1>2. /\ n \in Nat /\ IsDistinctRow(b, n + 1) /\ NoNodes(b)
      /\ b[1] = HeaderHash(header2)
      /\ \A i \in 1 .. n : b[i + 1] = FieldLeaf(resolved2, salts2, i)
  BY LeavesAre
<1>3. Root(a) = Root(b)
  OBVIOUS
<1>. HIDE DEF a, b, m, n
<1>4. m + 1 \in Nat \ {0} /\ n + 1 \in Nat \ {0}
  BY <1>1, <1>2
<1>5. a = b
  BY <1>1, <1>2, <1>3, <1>4, RootDeterminesLeaves
<1>6. header = header2
  BY <1>1, <1>2, <1>5 DEF HeaderHash
<1>7. m = n
  BY <1>1, <1>2, <1>4, <1>5, RowLen DEF IsDistinctRow
<1>8. \A i \in 1 .. m :
          FieldLeaf(resolved, salts, i) = FieldLeaf(resolved2, salts2, i)
  BY <1>1, <1>2, <1>5, <1>7
<1>9. ASSUME NEW i \in 1 .. m
      PROVE  CanonicalOrder(DOMAIN resolved)[i] =
                 CanonicalOrder(DOMAIN resolved2)[i]
  <2>1. FieldLeaf(resolved, salts, i) = FieldLeaf(resolved2, salts2, i)
    BY <1>8
  <2>. QED
    BY <2>1, LeafNames DEF FieldLeaf
<1>10. DOMAIN resolved = DOMAIN resolved2
  <2>1. /\ \A i \in 1 .. m : CanonicalOrder(DOMAIN resolved)[i] \in DOMAIN resolved
        /\ \A x \in DOMAIN resolved : \E i \in 1 .. m :
               CanonicalOrder(DOMAIN resolved)[i] = x
    BY CanonicalOrderIs DEF m
  <2>2. /\ \A i \in 1 .. n : CanonicalOrder(DOMAIN resolved2)[i] \in DOMAIN resolved2
        /\ \A x \in DOMAIN resolved2 : \E i \in 1 .. n :
               CanonicalOrder(DOMAIN resolved2)[i] = x
    BY CanonicalOrderIs DEF n
  <2>. QED
    BY <2>1, <2>2, <1>7, <1>9
<1>. QED
  BY <1>5, <1>6, <1>8, <1>10 DEF a, b, m
=============================================================================
