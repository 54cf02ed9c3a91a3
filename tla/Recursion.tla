------------------------------ MODULE Recursion ------------------------------
(***************************************************************************)
(* Facts about recursion that the proofs of this project rest on:          *)
(* induction over the naturals as a statement about sets, what a           *)
(* recursively defined function is, and what FoldLeft computes.  The       *)
(* operator that is iterated is a parameter of the module: a proof that    *)
(* needs the facts for an operator of its own takes an instance.           *)
(***************************************************************************)
EXTENDS SequencesExt, WellFoundedInduction, TLAPS

\* Of a context, of what there is so far and of the next item.
CONSTANT Op(_, _, _)

-----------------------------------------------------------------------------
(* Induction.                                                              *)

LessThan == {x \in Nat \X Nat : x[1] < x[2]}

LEMMA LessThanIsWellFounded == IsWellFoundedOn(LessThan, Nat)
<1>1. OpToRel(<, Nat) = LessThan
  BY DEF OpToRel, LessThan
<1>. QED
  BY <1>1, NatLessThanWellFounded

LEMMA LeastElement ==
    ASSUME NEW S \in SUBSET Nat, S # {}
    PROVE  \E x \in S : \A y \in S : x <= y
<1>1. PICK x \in S : \A y \in S : <<y, x>> \notin LessThan
  BY LessThanIsWellFounded, WFMin
<1>2. \A y \in S : ~(y < x)
  BY <1>1 DEF LessThan
<1>. QED
  BY <1>2

LEMMA GreatestElement ==
    ASSUME NEW n \in Nat, NEW S \in SUBSET (0 .. n), S # {}
    PROVE  \E x \in S : \A y \in S : y <= x
<1>. DEFINE mirror == {n - x : x \in S}
<1>1. mirror \in SUBSET Nat /\ mirror # {}
  <2>1. \A x \in S : n - x \in Nat
    OBVIOUS
  <2>. QED
    BY <2>1
<1>2. PICK m \in mirror : \A y \in mirror : m <= y
  BY <1>1, LeastElement
<1>3. PICK x \in S : m = n - x
  OBVIOUS
<1>4. \A y \in S : n - x <= n - y
  BY <1>2, <1>3
<1>. QED
  BY <1>4

\* Induction, of a set that has 0 and with a number its successor.
THEOREM NaturalInduction ==
    ASSUME NEW S \in SUBSET Nat, 0 \in S, \A n \in S : n + 1 \in S
    PROVE  S = Nat
<1>. SUFFICES ASSUME Nat \ S # {} PROVE FALSE
  OBVIOUS
<1>1. PICK x \in Nat \ S : \A y \in Nat \ S : x <= y
  BY LeastElement
<1>2. x - 1 \in Nat \ S
  OBVIOUS
<1>. QED
  BY <1>1, <1>2

-----------------------------------------------------------------------------
(* Functions defined by recursion over the naturals.                       *)

\* g is the recursion from base along seq, up to n.
Recurses(ctx, g, base, seq, n) ==
    g = [k \in 0 .. n |-> IF k = 0 THEN base ELSE Op(ctx, g[k - 1], seq[k])]

\* As a condition on what g has at each place.
Follows(ctx, g, base, seq, n) ==
    /\ g[0] = base
    /\ \A k \in 1 .. n : g[k] = Op(ctx, g[k - 1], seq[k])

LEMMA RecursionIsUnique ==
    ASSUME NEW ctx, NEW base, NEW seq, NEW m \in Nat, NEW n \in Nat,
           NEW g, NEW h,
           Recurses(ctx, g, base, seq, m), Recurses(ctx, h, base, seq, n)
    PROVE  \A k \in Nat : k <= m /\ k <= n => g[k] = h[k]
<1>. DEFINE S == {k \in Nat : k <= m /\ k <= n => g[k] = h[k]}
<1>1. 0 \in S
  BY DEF Recurses
<1>2. ASSUME NEW k \in S
      PROVE  k + 1 \in S
  <2>. SUFFICES ASSUME k + 1 <= m, k + 1 <= n
                PROVE  g[k + 1] = h[k + 1]
    OBVIOUS
  <2>1. g[k] = h[k]
    OBVIOUS
  <2>2. /\ g[k + 1] = Op(ctx, g[k], seq[k + 1])
        /\ h[k + 1] = Op(ctx, h[k], seq[k + 1])
    BY DEF Recurses
  <2>. QED
    BY <2>1, <2>2
<1>. HIDE DEF S
<1>3. S = Nat
  <2>1. S \in SUBSET Nat
    BY DEF S
  <2>. QED
    BY <1>1, <1>2, <2>1, NaturalInduction
<1>. QED
  BY <1>3 DEF S

LEMMA RecursionExists ==
    ASSUME NEW ctx, NEW base, NEW seq
    PROVE  \A n \in Nat : \E g : Recurses(ctx, g, base, seq, n)
<1>. DEFINE S == {n \in Nat : \E g : Recurses(ctx, g, base, seq, n)}
<1>1. 0 \in S
  <2>1. Recurses(ctx, [k \in 0 .. 0 |-> base], base, seq, 0)
    BY DEF Recurses
  <2>. QED
    BY <2>1
<1>2. ASSUME NEW n \in S
      PROVE  n + 1 \in S
  <2>1. PICK g : Recurses(ctx, g, base, seq, n)
    OBVIOUS
  <2>. DEFINE h == [k \in 0 .. n + 1 |->
                       IF k <= n THEN g[k] ELSE Op(ctx, g[n], seq[n + 1])]
  <2>2. Recurses(ctx, h, base, seq, n + 1)
    <3>1. \A k \in 0 .. n : g[k] = IF k = 0 THEN base
                                   ELSE Op(ctx, g[k - 1], seq[k])
      BY <2>1 DEF Recurses
    <3>2. \A k \in 1 .. n + 1 : h[k - 1] = g[k - 1]
      OBVIOUS
    <3>3. ASSUME NEW k \in 0 .. n + 1
          PROVE  h[k] = IF k = 0 THEN base ELSE Op(ctx, h[k - 1], seq[k])
      <4>1. CASE k <= n
        BY <3>1, <3>2, <4>1
      <4>2. CASE k = n + 1
        BY <3>2, <4>2
      <4>. QED
        BY <4>1, <4>2
    <3>. HIDE DEF h
    <3>4. h = [k \in 0 .. n + 1 |-> h[k]]
      BY DEF h
    <3>. QED
      BY <3>3, <3>4 DEF Recurses
  <2>. QED
    BY <2>2
<1>. HIDE DEF S
<1>3. S = Nat
  <2>1. S \in SUBSET Nat
    BY DEF S
  <2>. QED
    BY <1>1, <1>2, <2>1, NaturalInduction
<1>. QED
  BY <1>3 DEF S

LEMMA RecursesFollows ==
    ASSUME NEW ctx, NEW base, NEW seq, NEW n \in Nat, NEW g,
           Recurses(ctx, g, base, seq, n)
    PROVE  Follows(ctx, g, base, seq, n)
BY DEF Recurses, Follows

\* A function defined by recursion along a sequence is what its definition
\* says (there is one).
THEOREM RecursiveFunction ==
    ASSUME NEW ctx, NEW base, NEW seq
    PROVE  LET f[k \in Nat] == IF k = 0 THEN base
                               ELSE Op(ctx, f[k - 1], seq[k])
           IN  f = [k \in Nat |-> IF k = 0 THEN base
                                  ELSE Op(ctx, f[k - 1], seq[k])]
<1>. DEFINE part(n) == CHOOSE g : Recurses(ctx, g, base, seq, n)
            f == [n \in Nat |-> part(n)[n]]
<1>1. ASSUME NEW n \in Nat
      PROVE  Recurses(ctx, part(n), base, seq, n)
  BY RecursionExists
<1>2. ASSUME NEW n \in Nat
      PROVE  f[n] = IF n = 0 THEN base ELSE Op(ctx, f[n - 1], seq[n])
  <2>1. part(n)[n] = IF n = 0 THEN base ELSE Op(ctx, part(n)[n - 1], seq[n])
    <3>. HIDE DEF part
    <3>. QED
      BY <1>1 DEF Recurses
  <2>2. n # 0 => part(n)[n - 1] = part(n - 1)[n - 1]
    <3>. SUFFICES ASSUME n # 0 PROVE part(n)[n - 1] = part(n - 1)[n - 1]
      OBVIOUS
    <3>1. n - 1 \in Nat /\ n - 1 <= n
      OBVIOUS
    <3>. HIDE DEF part
    <3>. QED
      BY <1>1, <3>1, RecursionIsUnique
  <2>. HIDE DEF part
  <2>. QED
    BY <2>1, <2>2
<1>. HIDE DEF f
<1>3. f = [k \in Nat |-> IF k = 0 THEN base ELSE Op(ctx, f[k - 1], seq[k])]
  <2>1. f = [n \in Nat |-> f[n]]
    BY DEF f
  <2>. QED
    BY <1>2, <2>1
<1>4. \E g : g = [k \in Nat |-> IF k = 0 THEN base
                                ELSE Op(ctx, g[k - 1], seq[k])]
  BY <1>3
<1>. QED
  BY <1>4

-----------------------------------------------------------------------------
(* What FoldLeft computes.                                                 *)

\* The recursion by which FoldLeft is defined, over the sets of places up to
\* n: the last place is taken off first.
Folds(ctx, iter, base, seq, n) ==
    iter = [s \in SUBSET (1 .. n) |->
               IF s = {} THEN base
               ELSE Op(ctx, iter[s \ {Max(s)}], seq[Max(s)])]

LEMMA MaxIsGreatest ==
    ASSUME NEW n \in Nat, NEW s \in SUBSET (1 .. n), s # {}
    PROVE  Max(s) \in s /\ \A y \in s : y <= Max(s)
<1>1. \E x \in s : \A y \in s : x >= y
  <2>1. s \in SUBSET (0 .. n)
    OBVIOUS
  <2>. QED
    BY <2>1, GreatestElement
<1>. QED
  BY <1>1 DEF Max

LEMMA MaxIs ==
    ASSUME NEW n \in Nat, NEW s \in SUBSET (1 .. n), NEW m \in s,
           \A y \in s : y <= m
    PROVE  Max(s) = m
<1>1. Max(s) \in s /\ m <= Max(s)
  BY MaxIsGreatest
<1>2. Max(s) <= m
  BY <1>1
<1>3. Max(s) \in 1 .. n /\ m \in 1 .. n
  BY <1>1
<1>. QED
  BY <1>1, <1>2, <1>3

LEMMA FoldsExists ==
    ASSUME NEW ctx, NEW base, NEW seq
    PROVE  \A n \in Nat : \E iter : Folds(ctx, iter, base, seq, n)
<1>. DEFINE S == {n \in Nat : \E iter : Folds(ctx, iter, base, seq, n)}
<1>1. 0 \in S
  <2>1. SUBSET (1 .. 0) = {{}}
    OBVIOUS
  <2>2. Folds(ctx, [s \in SUBSET (1 .. 0) |-> base], base, seq, 0)
    BY <2>1 DEF Folds
  <2>. QED
    BY <2>2
<1>2. ASSUME NEW n \in S
      PROVE  n + 1 \in S
  <2>1. PICK old : Folds(ctx, old, base, seq, n)
    OBVIOUS
  <2>. DEFINE new == [s \in SUBSET (1 .. n + 1) |->
                         IF n + 1 \in s
                         THEN Op(ctx, old[s \ {n + 1}], seq[n + 1])
                         ELSE old[s]]
  <2>2. ASSUME NEW s \in SUBSET (1 .. n + 1)
        PROVE  new[s] = IF s = {} THEN base
                        ELSE Op(ctx, new[s \ {Max(s)}], seq[Max(s)])
    <3>1. CASE n + 1 \in s
      <4>1. Max(s) = n + 1
        <5>1. n + 1 \in Nat /\ \A y \in s : y <= n + 1
          OBVIOUS
        <5>. QED
          BY <3>1, <5>1, MaxIs
      <4>2. /\ s \ {n + 1} \in SUBSET (1 .. n + 1)
            /\ n + 1 \notin s \ {n + 1}
        OBVIOUS
      <4>3. new[s \ {n + 1}] = old[s \ {n + 1}]
        BY <4>2
      <4>4. new[s] = Op(ctx, old[s \ {n + 1}], seq[n + 1]) /\ s # {}
        BY <3>1
      <4>. HIDE DEF new
      <4>. QED
        BY <4>1, <4>3, <4>4
    <3>2. CASE n + 1 \notin s
      <4>1. s \in SUBSET (1 .. n) /\ s \ {Max(s)} \in SUBSET (1 .. n)
        <5>1. \A y \in s : y \in 1 .. n
          <6>1. \A y \in s : y \in 1 .. n + 1 /\ y # n + 1
            BY <3>2
          <6>. QED
            BY <6>1
        <5>. QED
          BY <5>1
      <4>2. old[s] = IF s = {} THEN base
                     ELSE Op(ctx, old[s \ {Max(s)}], seq[Max(s)])
        BY <2>1, <4>1 DEF Folds
      <4>3. /\ new[s] = old[s]
            /\ new[s \ {Max(s)}] = old[s \ {Max(s)}]
        BY <3>2, <4>1
      <4>. HIDE DEF new
      <4>. QED
        BY <4>2, <4>3
    <3>. QED
      BY <3>1, <3>2
  <2>3. Folds(ctx, new, base, seq, n + 1)
    <3>1. new = [s \in SUBSET (1 .. n + 1) |-> new[s]]
      OBVIOUS
    <3>. HIDE DEF new
    <3>. QED
      BY <2>2, <3>1 DEF Folds
  <2>. QED
    BY <2>3
<1>. HIDE DEF S
<1>3. S = Nat
  <2>1. S \in SUBSET Nat
    BY DEF S
  <2>. QED
    BY <1>1, <1>2, <2>1, NaturalInduction
<1>. QED
  BY <1>3 DEF S

\* Over the places of a sequence that is the last value of the recursion
\* along it.
THEOREM FoldIsRecursion ==
    ASSUME NEW ctx, NEW base, NEW seq, NEW n \in Nat, NEW iter,
           Folds(ctx, iter, base, seq, n),
           NEW g, Follows(ctx, g, base, seq, n)
    PROVE  iter[1 .. n] = g[n]
<1>. DEFINE S == {k \in Nat : k <= n => iter[1 .. k] = g[k]}
<1>1. \A s \in SUBSET (1 .. n) :
         iter[s] = IF s = {} THEN base
                   ELSE Op(ctx, iter[s \ {Max(s)}], seq[Max(s)])
  BY DEF Folds
<1>2. 0 \in S
  <2>1. 1 .. 0 = {} /\ {} \in SUBSET (1 .. n)
    OBVIOUS
  <2>2. iter[{}] = base
    BY <1>1, <2>1
  <2>. QED
    BY <2>1, <2>2 DEF Follows
<1>3. ASSUME NEW k \in S
      PROVE  k + 1 \in S
  <2>. SUFFICES ASSUME k + 1 <= n
                PROVE  iter[1 .. k + 1] = g[k + 1]
    OBVIOUS
  <2>0. k \in Nat
    OBVIOUS
  <2>. HIDE DEF S
  <2>1. /\ 1 .. (k + 1) \in SUBSET (1 .. n)
        /\ k + 1 \in 1 .. (k + 1)
        /\ \A y \in 1 .. (k + 1) : y <= k + 1
    BY <2>0
  <2>2. Max(1 .. (k + 1)) = k + 1
    BY <2>1, MaxIs
  <2>3. (1 .. (k + 1)) \ {k + 1} = 1 .. k /\ 1 .. (k + 1) # {}
    <3>1. \A y : y \in 1 .. (k + 1) /\ y # k + 1 <=> y \in 1 .. k
      BY <2>0
    <3>. QED
      BY <3>1, <2>1
  <2>4. iter[1 .. (k + 1)] = Op(ctx, iter[1 .. k], seq[k + 1])
    BY <1>1, <2>1, <2>2, <2>3
  <2>5. iter[1 .. k] = g[k] /\ g[k + 1] = Op(ctx, g[k], seq[k + 1])
    BY <2>0 DEF S, Follows
  <2>. QED
    BY <2>4, <2>5
<1>. HIDE DEF S
<1>4. S = Nat
  <2>1. S \in SUBSET Nat
    BY DEF S
  <2>. QED
    BY <1>2, <1>3, <2>1, NaturalInduction
<1>. QED
  BY <1>4 DEF S
=============================================================================
