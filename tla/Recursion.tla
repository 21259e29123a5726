------------------------------ MODULE Recursion ------------------------------
(***************************************************************************)
(* What the proofs about sums and running bests need: induction over the   *)
(* numbers and over the subsets of a finite set, stated with sets where    *)
(* the libraries use a predicate, and that a fold is what its recursion    *)
(* says.                                                                   *)
(***************************************************************************)
EXTENDS TLAPS, FiniteSetsExt, WellFoundedInduction, FiniteSetTheorems

\* A set of numbers that is not empty has a least element.
LEMMA Least ==
    ASSUME NEW T \in SUBSET Nat, T # {}
    PROVE  \E n \in T : \A m \in T : n <= m
<1> DEFINE Lt == {ss \in Nat \X Nat : ss[1] < ss[2]}
<1>1. IsWellFoundedOn(Lt, Nat)
  BY NatLessThanWellFounded DEF OpToRel
<1>2. \E n \in T : \A m \in T : ~(<<m, n>> \in Lt)
  <2> HIDE DEF Lt
  <2>1. T \subseteq Nat
    OBVIOUS
  <2> QED
    BY <1>1, <2>1, WFMin, Zenon
<1>3. PICK n \in T : \A m \in T : ~(<<m, n>> \in Lt)
  BY <1>2
<1>4. \A m \in T : ~(m < n)
  BY <1>3
<1> QED
  BY <1>4

\* Induction over the numbers.
LEMMA NumberInduction ==
    ASSUME NEW P \in SUBSET Nat, 0 \in P, \A n \in P : n + 1 \in P
    PROVE  P = Nat
<1> SUFFICES ASSUME Nat \ P # {} PROVE FALSE
  OBVIOUS
<1>1. PICK n \in Nat \ P : \A m \in Nat \ P : n <= m
  BY Least
<1>2. n - 1 \in Nat
  BY <1>1
<1>3. n - 1 \in P
  BY <1>1, <1>2
<1>4. (n - 1) + 1 = n
  BY <1>1
<1> QED
  BY <1>1, <1>3, <1>4

\* Induction over the subsets of a finite set: P has them all when it has
\* every subset that it has without any one of its elements.
LEMMA SubsetInduction ==
    ASSUME NEW D, IsFiniteSet(D), NEW P,
           \A s \in SUBSET D : (\A x \in s : s \ {x} \in P) => s \in P
    PROVE  SUBSET D \subseteq P
<1> SUFFICES ASSUME NEW t \in SUBSET D, t \notin P PROVE FALSE
  OBVIOUS
<1> DEFINE T == {n \in Nat : \E s \in SUBSET D : s \notin P /\ Cardinality(s) = n}
<1>1. \A s \in SUBSET D : IsFiniteSet(s) /\ Cardinality(s) \in Nat
  BY FS_Subset, FS_CardinalityType
<1>2. T # {}
  BY <1>1
<1>3. PICK n \in T : \A m \in T : n <= m
  BY <1>2, Least
<1>4. PICK s \in SUBSET D : s \notin P /\ Cardinality(s) = n
  BY <1>3
<1>5. PICK x \in s : s \ {x} \notin P
  BY <1>4
<1>6. s \ {x} \in SUBSET D /\ Cardinality(s \ {x}) \in Nat
  BY <1>1
<1>7. Cardinality(s \ {x}) = n - 1
  BY <1>1, <1>4, FS_RemoveElement
<1>8. n - 1 \in T
  BY <1>5, <1>6, <1>7
<1> QED
  BY <1>3, <1>8

\* A finite set of numbers that is not empty has a greatest element.
LEMMA Greatest ==
    ASSUME NEW s \in SUBSET Nat, IsFiniteSet(s), s # {}
    PROVE  \E m \in s : \A l \in s : l <= m
<1> DEFINE P == {r \in SUBSET s : r # {} => \E m \in r : \A l \in r : l <= m}
<1>1. ASSUME NEW r \in SUBSET s, \A x \in r : r \ {x} \in P
      PROVE  r \in P
  <2>1. ASSUME r # {} PROVE \E m \in r : \A l \in r : l <= m
    <3>1. PICK x \in r : TRUE
      BY <2>1
    <3>2. CASE r \ {x} = {}
      BY <3>1, <3>2
    <3>3. CASE r \ {x} # {}
      <4>1. PICK m \in r \ {x} : \A l \in r \ {x} : l <= m
        BY <1>1, <3>1, <3>3
      <4>2. \A l \in r : l <= IF m <= x THEN x ELSE m
        BY <3>1, <4>1
      <4> QED
        BY <3>1, <4>1, <4>2
    <3> QED
      BY <3>2, <3>3
  <2> QED
    BY <2>1
<1>2. SUBSET s \subseteq P
  <2> HIDE DEF P
  <2> QED
    BY <1>1, SubsetInduction
<1> QED
  BY <1>2

----------------------------------------------------------------------------
(* Folds.  A fold over D takes the element h[s] out of s, combines it with *)
(* the value of the rest by F, and ends with b.                            *)

IsFold(g, D, b, h, F) ==
    g = [s \in SUBSET D |-> IF s = {} THEN b ELSE F[<<h[s], g[s \ {h[s]}]>>]]

\* The recursion of a fold over a finite set has a solution.
LEMMA FoldExists ==
    ASSUME NEW D, IsFiniteSet(D), NEW V, NEW b \in V,
           NEW h, \A s \in (SUBSET D) \ {{}} : h[s] \in s,
           NEW F \in [D \X V -> V]
    PROVE  \E g \in [SUBSET D -> V] : IsFold(g, D, b, h, F)
<1> DEFINE Step(g, s) == IF s = {} THEN b ELSE F[<<h[s], g[s \ {h[s]}]>>]
           Upto(n) == {s \in SUBSET D : Cardinality(s) <= n}
           P == {n \in Nat : \E g \in [SUBSET D -> V] :
                                 \A s \in Upto(n) : g[s] = Step(g, s)}
<1>1. \A s \in SUBSET D : IsFiniteSet(s) /\ Cardinality(s) \in Nat
  BY FS_Subset, FS_CardinalityType
<1>2. \A s \in SUBSET D : Cardinality(s) = 0 => s = {}
  BY <1>1, FS_EmptySet
<1>3. ASSUME NEW g \in [SUBSET D -> V], NEW s \in SUBSET D
      PROVE  Step(g, s) \in V
  <2>1. CASE s # {}
    <3>1. h[s] \in D /\ s \ {h[s]} \in SUBSET D
      BY <2>1
    <3>2. <<h[s], g[s \ {h[s]}]>> \in D \X V
      BY <3>1
    <3> QED
      BY <2>1, <3>2
  <2> QED
    BY <2>1
<1>4. \A s \in SUBSET D : s # {} =>
          /\ s \ {h[s]} \in SUBSET D
          /\ Cardinality(s \ {h[s]}) = Cardinality(s) - 1
  BY <1>1, FS_RemoveElement
<1>5. 0 \in P
  <2> DEFINE g == [s \in SUBSET D |-> b]
  <2>1. g \in [SUBSET D -> V]
    OBVIOUS
  <2>2. \A s \in Upto(0) : g[s] = Step(g, s)
    BY <1>1, <1>2
  <2> HIDE DEF g, Upto, Step
  <2> QED
    BY <2>1, <2>2
<1>6. ASSUME NEW n \in P PROVE n + 1 \in P
  <2>1. PICK g \in [SUBSET D -> V] : \A s \in Upto(n) : g[s] = Step(g, s)
    BY <1>6
  <2> DEFINE k == [s \in SUBSET D |-> IF s \in Upto(n) THEN g[s] ELSE Step(g, s)]
  <2>2. k \in [SUBSET D -> V]
    BY <1>3
  <2>3. ASSUME NEW s \in Upto(n + 1) PROVE k[s] = Step(k, s)
    <3>1. k[s] = Step(g, s)
      BY <2>1
    <3>2. CASE s # {}
      <4>1. s \ {h[s]} \in Upto(n)
        BY <1>1, <1>4, <3>2
      <4>2. k[s \ {h[s]}] = g[s \ {h[s]}]
        BY <4>1
      <4> HIDE DEF k
      <4> QED
        BY <3>1, <3>2, <4>2
    <3> QED
      BY <3>1, <3>2
  <2> HIDE DEF k, Upto, Step
  <2> QED
    BY <2>2, <2>3
<1>7. P = Nat
  <2> HIDE DEF P
  <2>1. P \in SUBSET Nat
    BY DEF P
  <2> QED
    BY <1>5, <1>6, <2>1, NumberInduction
<1>8. Cardinality(D) \in P
  BY <1>1, <1>7
<1>9. PICK g \in [SUBSET D -> V] : \A s \in Upto(Cardinality(D)) : g[s] = Step(g, s)
  BY <1>8
<1>10. \A s \in SUBSET D : s \in Upto(Cardinality(D))
  BY FS_Subset
<1>11. \A s \in SUBSET D : g[s] = Step(g, s)
  BY <1>9, <1>10
<1>12. g = [s \in SUBSET D |-> Step(g, s)]
  <2> HIDE DEF Step
  <2> QED
    BY <1>11
<1> QED
  BY <1>12 DEF IsFold

\* Whatever function solves it has the recursion's equations and type.
LEMMA FoldSolves ==
    ASSUME NEW D, IsFiniteSet(D), NEW V, NEW b \in V,
           NEW h, \A s \in (SUBSET D) \ {{}} : h[s] \in s,
           NEW F \in [D \X V -> V],
           NEW g, IsFold(g, D, b, h, F)
    PROVE  /\ g \in [SUBSET D -> V]
           /\ g[{}] = b
           /\ \A s \in SUBSET D : s # {} => g[s] = F[<<h[s], g[s \ {h[s]}]>>]
<1>1. g = [s \in SUBSET D |-> g[s]]
  BY DEF IsFold
<1>2. /\ g[{}] = b
      /\ \A s \in SUBSET D : s # {} => g[s] = F[<<h[s], g[s \ {h[s]}]>>]
  BY DEF IsFold
<1> DEFINE P == {s \in SUBSET D : g[s] \in V}
<1>3. ASSUME NEW s \in SUBSET D, \A x \in s : s \ {x} \in P
      PROVE  s \in P
  <2>1. CASE s # {}
    <3>1. h[s] \in s /\ s \ {h[s]} \in P
      BY <1>3, <2>1
    <3>2. <<h[s], g[s \ {h[s]}]>> \in D \X V
      BY <3>1
    <3>3. F[<<h[s], g[s \ {h[s]}]>>] \in V
      BY <3>2
    <3> QED
      BY <1>2, <2>1, <3>3
  <2> QED
    BY <1>2, <2>1
<1>4. SUBSET D \subseteq P
  <2> HIDE DEF P
  <2> QED
    BY <1>3, SubsetInduction
<1> QED
  BY <1>1, <1>2, <1>4

----------------------------------------------------------------------------
(* Sums.  The summands are taken in an order nobody knows.                 *)

Some(s) == CHOOSE x \in s : TRUE

IsSum(g, D, f) ==
    g = [s \in SUBSET D |-> IF s = {} THEN 0 ELSE f[Some(s)] + g[s \ {Some(s)}]]

\* What a sum of numbers is known by.
Sums(g, D, f) ==
    /\ g \in [SUBSET D -> Nat]
    /\ g[{}] = 0
    /\ \A s \in SUBSET D : s # {} =>
           Some(s) \in s /\ g[s] = f[Some(s)] + g[s \ {Some(s)}]

\* What solves the recursion of a sum of numbers has its equations, and the
\* sums are numbers.
LEMMA SumSolves ==
    ASSUME NEW D, IsFiniteSet(D), NEW f \in [D -> Nat], NEW g, IsSum(g, D, f)
    PROVE  Sums(g, D, f)
<1>1. /\ g = [s \in SUBSET D |-> g[s]]
      /\ g[{}] = 0
      /\ \A s \in SUBSET D : s # {} => g[s] = f[Some(s)] + g[s \ {Some(s)}]
  BY DEF IsSum
<1>2. ASSUME NEW s PROVE s # {} => Some(s) \in s
  BY DEF Some
<1> DEFINE P == {s \in SUBSET D : g[s] \in Nat}
<1>3. ASSUME NEW s \in SUBSET D, \A x \in s : s \ {x} \in P
      PROVE  s \in P
  <2>1. CASE s # {}
    <3>1. Some(s) \in s /\ Some(s) \in D
      BY <1>2, <2>1
    <3>2. f[Some(s)] \in Nat /\ g[s \ {Some(s)}] \in Nat
      BY <1>3, <3>1
    <3>3. g[s] = f[Some(s)] + g[s \ {Some(s)}]
      BY <1>1, <2>1
    <3>4. g[s] \in Nat
      BY <3>2, <3>3
    <3> QED
      BY <3>4
  <2>2. CASE s = {}
    <3>1. g[s] \in Nat
      BY <1>1, <2>2
    <3> QED
      BY <3>1
  <2> QED
    BY <2>1, <2>2
<1>4. SUBSET D \subseteq P
  <2> HIDE DEF P
  <2> QED
    BY <1>3, SubsetInduction
<1> QED
  BY <1>1, <1>2, <1>4 DEF Sums

\* It has a solution.
LEMMA SumExists ==
    ASSUME NEW D, IsFiniteSet(D), NEW f \in [D -> Nat]
    PROVE  \E g : IsSum(g, D, f)
<1> DEFINE h == [s \in SUBSET D |-> Some(s)]
           F == [p \in D \X Nat |-> f[p[1]] + p[2]]
<1>0. ASSUME NEW s PROVE s # {} => Some(s) \in s
  BY DEF Some
<1>1. \A s \in (SUBSET D) \ {{}} : h[s] \in s /\ h[s] = Some(s)
  BY <1>0
<1>2. F \in [D \X Nat -> Nat]
  OBVIOUS
<1>3. \A x \in D, n \in Nat : F[<<x, n>>] = f[x] + n
  OBVIOUS
<1> HIDE DEF h, F
<1>4. PICK g \in [SUBSET D -> Nat] : IsFold(g, D, 0, h, F)
  <2>1. 0 \in Nat
    OBVIOUS
  <2> QED
    BY <1>1, <1>2, <2>1, FoldExists
<1>5. ASSUME NEW s \in SUBSET D, s # {}
      PROVE  F[<<h[s], g[s \ {h[s]}]>>] = f[Some(s)] + g[s \ {Some(s)}]
  <2>1. h[s] \in D /\ h[s] = Some(s) /\ g[s \ {h[s]}] \in Nat
    BY <1>1, <1>5
  <2> QED
    BY <1>3, <2>1
<1>6. /\ g = [s \in SUBSET D |-> g[s]]
      /\ \A s \in SUBSET D :
             g[s] = IF s = {} THEN 0 ELSE F[<<h[s], g[s \ {h[s]}]>>]
  BY <1>4 DEF IsFold
<1>7. \A s \in SUBSET D :
          g[s] = IF s = {} THEN 0 ELSE f[Some(s)] + g[s \ {Some(s)}]
  BY <1>5, <1>6
<1>8. IsSum(g, D, f)
  BY <1>6, <1>7 DEF IsSum
<1> QED
  BY <1>8

\* Any summand may be taken out first.
LEMMA SumTakesOut ==
    ASSUME NEW D, IsFiniteSet(D), NEW f \in [D -> Nat],
           NEW g, IsSum(g, D, f)
    PROVE  \A s \in SUBSET D : \A x \in s : g[s] = f[x] + g[s \ {x}]
<1> DEFINE P == {s \in SUBSET D : \A x \in s : g[s] = f[x] + g[s \ {x}]}
<1>1. Sums(g, D, f)
  BY SumSolves
<1>2. ASSUME NEW s \in SUBSET D, \A y \in s : s \ {y} \in P,
             NEW x \in s
      PROVE  g[s] = f[x] + g[s \ {x}]
  <2> DEFINE y == Some(s)
             rest == (s \ {y}) \ {x}
  <2>1. y \in s
    BY DEF Some
  <2>2. g[s] = f[y] + g[s \ {y}]
    BY <1>1 DEF Sums
  <2> HIDE DEF y
  <2>3. CASE y = x
    BY <2>2, <2>3
  <2>4. CASE y # x
    <3>1. g[s \ {y}] = f[x] + g[rest]
      BY <1>2, <2>1, <2>4
    <3>2. g[s \ {x}] = f[y] + g[(s \ {x}) \ {y}]
      BY <1>2, <2>1, <2>4
    <3>3. (s \ {x}) \ {y} = rest
      OBVIOUS
    <3>4. f[x] \in Nat /\ f[y] \in Nat /\ g[rest] \in Nat
      BY <1>1, <2>1 DEF Sums
    <3> HIDE DEF rest
    <3> QED
      BY <2>2, <3>1, <3>2, <3>3, <3>4
  <2> QED
    BY <2>3, <2>4
<1>3. SUBSET D \subseteq P
  <2>1. ASSUME NEW s \in SUBSET D, \A y \in s : s \ {y} \in P
        PROVE  s \in P
    BY <1>2, <2>1
  <2> HIDE DEF P
  <2> QED
    BY <2>1, SubsetInduction
<1> QED
  BY <1>3

\* A sum depends on the summands of its set alone.
LEMMA SumAgrees ==
    ASSUME NEW D, IsFiniteSet(D), NEW f \in [D -> Nat], NEW g, IsSum(g, D, f),
           NEW E \in SUBSET D, NEW e \in [E -> Nat], NEW k, IsSum(k, E, e),
           \A x \in E : e[x] = f[x]
    PROVE  g[E] = k[E]
<1> DEFINE P == {s \in SUBSET E : g[s] = k[s]}
<1>0. IsFiniteSet(E)
  BY FS_Subset
<1>1. Sums(g, D, f)
  BY SumSolves
<1>2. Sums(k, E, e)
  BY <1>0, SumSolves
<1>3. ASSUME NEW s \in SUBSET E, \A y \in s : s \ {y} \in P
      PROVE  s \in P
  <2>1. CASE s # {}
    <3>1. Some(s) \in s
      BY <2>1 DEF Some
    <3> QED
      BY <1>1, <1>2, <1>3, <2>1, <3>1 DEF Sums
  <2> QED
    BY <1>1, <1>2, <2>1 DEF Sums
<1>4. SUBSET E \subseteq P
  <2> HIDE DEF P
  <2> QED
    BY <1>0, <1>3, SubsetInduction
<1> QED
  BY <1>4

----------------------------------------------------------------------------
(* Loops.  FoldLeft takes the greatest index out first, so that the values *)
(* of the intervals that start at 1 are those of a loop that counts up.    *)

\* A loop of n turns F, which starts with b and whose values are in V.
Loops(n, V, b, F) == n \in Nat /\ b \in V /\ F \in [(1 .. n) \X V -> V]

\* v[t] is the value after t turns.
Turns(v, n, V, b, F) ==
    /\ v \in [0 .. n -> V]
    /\ v[0] = b
    /\ \A t \in 1 .. n : v[t] = F[<<t, v[t - 1]>>]

\* What FoldLeft unfolds to.
Unfolds(g, n, V, b, F) ==
    /\ g \in [SUBSET (1 .. n) -> V]
    /\ g[{}] = b
    /\ \A s \in (SUBSET (1 .. n)) \ {{}} : g[s] = F[<<Max(s), g[s \ {Max(s)}]>>]

\* The same of a g of which the type is not known; F need only be the turn on values of the type.
IsLoop(g, n, V, b, F) ==
    /\ g[{}] = b
    /\ \A s \in (SUBSET (1 .. n)) \ {{}} :
           g[s \ {Max(s)}] \in V => g[s] = F[<<Max(s), g[s \ {Max(s)}]>>]

LEMMA MaxOfIndices ==
    ASSUME NEW n \in Nat, NEW s \in (SUBSET (1 .. n)) \ {{}}
    PROVE  Max(s) \in s /\ \A x \in s : x <= Max(s)
<1>1. IsFiniteSet(s) /\ s \in SUBSET Nat
  <2>1. 1 \in Int /\ n \in Int
    OBVIOUS
  <2>2. IsFiniteSet(1 .. n)
    BY <2>1, FS_Interval
  <2>3. IsFiniteSet(s)
    BY <2>2, FS_Subset
  <2> QED
    BY <2>3
<1>2. PICK m \in s : \A x \in s : m >= x
  BY <1>1, Greatest
<1>3. Max(s) \in s /\ \A x \in s : Max(s) >= x
  BY <1>2 DEF Max
<1> QED
  BY <1>1, <1>3

\* The recursion has a solution of the type.
LEMMA LoopExists ==
    ASSUME NEW n, NEW V, NEW b, NEW F, Loops(n, V, b, F)
    PROVE  \E g : Unfolds(g, n, V, b, F)
<1>0. n \in Nat /\ b \in V /\ F \in [(1 .. n) \X V -> V]
  BY DEF Loops
<1>1. PICK D : D = 1 .. n
  OBVIOUS
<1>2. PICK h : h = [s \in SUBSET D |-> Max(s)]
  OBVIOUS
<1>3. IsFiniteSet(D)
  <2>1. 1 \in Int /\ n \in Int
    BY <1>0
  <2> QED
    BY <1>1, <2>1, FS_Interval
<1>4. \A s \in (SUBSET D) \ {{}} : h[s] \in s /\ h[s] = Max(s)
  BY <1>0, <1>1, <1>2, MaxOfIndices
<1>5. PICK g \in [SUBSET D -> V] : IsFold(g, D, b, h, F)
  <2>1. (\A s \in (SUBSET D) \ {{}} : h[s] \in s) /\ F \in [D \X V -> V]
    BY <1>0, <1>1, <1>4
  <2> QED
    BY <1>0, <1>3, <2>1, FoldExists
<1>6. g[{}] = b /\ \A s \in SUBSET D : s # {} => g[s] = F[<<h[s], g[s \ {h[s]}]>>]
  BY <1>5 DEF IsFold
<1>7. \A s \in (SUBSET D) \ {{}} : g[s] = F[<<Max(s), g[s \ {Max(s)}]>>]
  BY <1>4, <1>6
<1> QED
  BY <1>1, <1>5, <1>6, <1>7, Zenon DEF Unfolds

\* Every solution has the values of the loop.
LEMMA LoopSolves ==
    ASSUME NEW n, NEW V, NEW b, NEW F, Loops(n, V, b, F),
           NEW g, IsLoop(g, n, V, b, F)
    PROVE  \E v : Turns(v, n, V, b, F) /\ v[n] = g[1 .. n]
<1>0. n \in Nat /\ b \in V /\ F \in [(1 .. n) \X V -> V]
  BY DEF Loops
<1>1. PICK D : D = 1 .. n
  OBVIOUS
<1>2. IsFiniteSet(D)
  <2>1. 1 \in Int /\ n \in Int
    BY <1>0
  <2> QED
    BY <1>1, <2>1, FS_Interval
<1>3. PICK P : P = {s \in SUBSET D : g[s] \in V}
  OBVIOUS
<1>4. ASSUME NEW s \in SUBSET D, \A x \in s : s \ {x} \in P
      PROVE  s \in P
  <2>1. CASE s # {}
    <3>1. Max(s) \in s /\ Max(s) \in 1 .. n
      BY <1>0, <1>1, <2>1, MaxOfIndices
    <3>2. g[s \ {Max(s)}] \in V
      BY <1>3, <1>4, <3>1
    <3>3. g[s] = F[<<Max(s), g[s \ {Max(s)}]>>]
      BY <1>1, <2>1, <3>2 DEF IsLoop
    <3>4. <<Max(s), g[s \ {Max(s)}]>> \in (1 .. n) \X V
      BY <3>1, <3>2
    <3>5. F[<<Max(s), g[s \ {Max(s)}]>>] \in V
      BY <1>0, <3>4
    <3> QED
      BY <1>3, <3>3, <3>5
  <2> QED
    BY <1>0, <1>3, <2>1 DEF IsLoop
<1>5. SUBSET D \subseteq P
  BY <1>2, <1>4, SubsetInduction
<1>6. PICK v : v = [t \in 0 .. n |-> g[1 .. t]]
  OBVIOUS
<1>7. \A t \in 0 .. n : 1 .. t \in SUBSET D
  BY <1>0, <1>1
<1>8. v \in [0 .. n -> V]
  BY <1>3, <1>5, <1>6, <1>7
<1>9. v[0] = b
  <2>1. 1 .. 0 = {} /\ 0 \in 0 .. n
    BY <1>0
  <2> QED
    BY <1>6, <2>1 DEF IsLoop
<1>10. ASSUME NEW t \in 1 .. n PROVE v[t] = F[<<t, v[t - 1]>>]
  <2>1. t \in 0 .. n /\ t - 1 \in 0 .. n /\ t \in 1 .. t /\ t \in Nat
    BY <1>0
  <2>2. PICK s : s = 1 .. t
    OBVIOUS
  <2>3. s \in (SUBSET (1 .. n)) \ {{}}
    BY <1>0, <2>1, <2>2
  <2>4. Max(s) = t
    <3>1. Max(s) \in s /\ \A x \in s : x <= Max(s)
      BY <1>0, <2>3, MaxOfIndices
    <3> QED
      BY <2>1, <2>2, <3>1
  <2>5. s \ {t} = 1 .. t - 1
    BY <2>1, <2>2
  <2>6. g[s \ {t}] = v[t - 1] /\ v[t] = g[s] /\ v[t - 1] \in V
    BY <1>6, <1>8, <2>1, <2>2, <2>5
  <2> QED
    BY <2>3, <2>4, <2>6 DEF IsLoop
<1>11. v[n] = g[1 .. n]
  BY <1>0, <1>6
<1> QED
  BY <1>8, <1>9, <1>10, <1>11 DEF Turns

\* Two loops that agree before the first turn and, having agreed, after the next.
LEMMA TurnForTurn ==
    ASSUME NEW n \in Nat, NEW f, NEW g, f[0] = g[0],
           \A t \in Nat : t < n /\ f[t] = g[t] => f[t + 1] = g[t + 1]
    PROVE  f[n] = g[n]
<1>1. PICK P : P = {t \in Nat : t <= n => f[t] = g[t]}
  OBVIOUS
<1>2. \A t \in Nat : t \in P <=> (t <= n => f[t] = g[t])
  BY <1>1
<1>3. 0 \in P
  BY <1>2
<1>4. ASSUME NEW t \in Nat, t \in P
      PROVE  t + 1 \in P
  <2>1. t + 1 <= n => f[t + 1] = g[t + 1]
    BY <1>2, <1>4
  <2>2. t + 1 \in Nat
    OBVIOUS
  <2> QED
    BY <1>2, <2>1, <2>2
<1>5. P = Nat
  <2>1. P \in SUBSET Nat
    BY <1>1
  <2>2. \A t \in P : t + 1 \in P
    BY <1>4, <2>1
  <2> QED
    BY <1>3, <2>1, <2>2, NumberInduction
<1> QED
  BY <1>2, <1>5
=============================================================================
