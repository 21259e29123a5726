-------------------------- MODULE CacheBenchProofs --------------------------
(***************************************************************************)
(* The cache benchmark as a whole, for any number of runs and whatever     *)
(* happened in them: the winners it prints are the right ones, a report    *)
(* shows its own run's figures, and a run serves no other run's data       *)
(* unless a failed FlushAll left it.                                       *)
(***************************************************************************)
EXTENDS CacheBench, WriteBackProofs, SequenceTheorems, Recursion

Report == [strategy : {"Lazy Loading", "Write-Through", "Write-Back"},
           scenario : Nat, calls : Nat, hits : Nat, misses : Nat, ops : Nat]

\* Fractions of which the denominator is not zero.
Rates == Nat \X (Nat \ {0})

\* A report's rate is such a fraction, also when nothing was read.
LEMMA HitRateType == ASSUME NEW r \in Report PROVE HitRate(r) \in Rates
<1>1. r.hits \in Nat /\ r.misses \in Nat
  BY DEF Report
<1>2. r.hits + r.misses \in Nat
  BY <1>1
<1> QED
  BY <1>1, <1>2 DEF HitRate, Reads, Rates

----------------------------------------------------------------------------
(* The loops over the reports of a scenario.                               *)

\* The best after each turn of the loop of bestBy.
Champions(v, first, q, metric) ==
    /\ v \in [0 .. Len(q) -> Report]
    /\ v[0] = first
    /\ \A t \in 1 .. Len(q) :
           v[t] = IF Better(metric, q[t], v[t - 1]) THEN q[t] ELSE v[t - 1]

LEMMA BestByLoops ==
    ASSUME NEW metric, NEW reps \in Seq(Report), reps # <<>>,
           NEW first \in Report, NEW q \in Seq(Report), first = Head(reps), q = Tail(reps)
    PROVE  \E v : Champions(v, first, q, metric) /\ BestBy(reps, metric) = v[Len(q)]
<1> DEFINE Eq(g) == g = [s \in SUBSET DOMAIN q |->
                             IF s = {} THEN first
                             ELSE IF Better(metric, q[Max(s)], g[s \ {Max(s)}]) THEN q[Max(s)] ELSE g[s \ {Max(s)}]]
<1>1. PICK n, V, b, F : /\ n = Len(q) /\ V = Report /\ b = first
                        /\ F = [x \in (1 .. n) \X V |->
                                  IF Better(metric, q[x[1]], x[2]) THEN q[x[1]] ELSE x[2]]
  OBVIOUS
<1>2. /\ n \in Nat /\ DOMAIN q = 1 .. n
      /\ \A t \in 1 .. n : q[t] \in Report
  BY <1>1, LenProperties, ElementOfSeq
<1>3. BestBy(reps, metric) = (CHOOSE g : Eq(g))[DOMAIN q]
  BY Zenon DEF BestBy, FoldLeft, MapThenFoldSet
<1>4. Loops(n, V, b, F)
  BY <1>1, <1>2 DEF Loops
<1>5. \A t \in 1 .. n, y \in V : F[<<t, y>>] = IF Better(metric, q[t], y) THEN q[t] ELSE y
  BY <1>1
<1>6. \A s \in (SUBSET (1 .. n)) \ {{}} : Max(s) \in 1 .. n
  BY <1>2, MaxOfIndices
<1>7. PICK k : Unfolds(k, n, V, b, F)
  BY <1>4, LoopExists
<1>8. Eq(k)
  <2>1. ASSUME NEW s \in (SUBSET (1 .. n)) \ {{}}
        PROVE  k[s] = IF Better(metric, q[Max(s)], k[s \ {Max(s)}]) THEN q[Max(s)] ELSE k[s \ {Max(s)}]
    <3>1. Max(s) \in 1 .. n /\ k[s \ {Max(s)}] \in V
      BY <1>6, <1>7 DEF Unfolds
    <3>2. k[s] = F[<<Max(s), k[s \ {Max(s)}]>>]
      BY <1>7 DEF Unfolds
    <3> QED
      BY <1>5, <3>1, <3>2
  <2> QED
    BY <1>1, <1>2, <1>7, <2>1 DEF Unfolds
<1> DEFINE g == CHOOSE g : Eq(g)
<1>9. Eq(g)
  <2> HIDE DEF Eq
  <2> QED
    BY <1>8, Zenon
<1> HIDE DEF g
<1>10. IsLoop(g, n, V, b, F)
  <2>1. g[{}] = b
    BY <1>1, <1>2, <1>9
  <2>2. ASSUME NEW s \in (SUBSET (1 .. n)) \ {{}}, g[s \ {Max(s)}] \in V
        PROVE  g[s] = F[<<Max(s), g[s \ {Max(s)}]>>]
    <3>1. g[s] = IF Better(metric, q[Max(s)], g[s \ {Max(s)}]) THEN q[Max(s)] ELSE g[s \ {Max(s)}]
      BY <1>2, <1>9
    <3>2. Max(s) \in 1 .. n
      BY <1>6
    <3> QED
      BY <1>5, <2>2, <3>1, <3>2
  <2> QED
    BY <2>1, <2>2 DEF IsLoop
<1>11. PICK v : Turns(v, n, V, b, F) /\ v[n] = g[1 .. n]
  BY <1>4, <1>10, LoopSolves
<1>12. BestBy(reps, metric) = v[n]
  BY <1>2, <1>3, <1>11, Zenon DEF g
<1>13. \A t \in 1 .. n : v[t] = IF Better(metric, q[t], v[t - 1]) THEN q[t] ELSE v[t - 1]
  <2>1. \A t \in 1 .. n : v[t - 1] \in V /\ v[t] = F[<<t, v[t - 1]>>]
    BY <1>2, <1>11 DEF Turns
  <2> QED
    BY <1>5, <2>1
<1>14. Champions(v, first, q, metric)
  BY <1>1, <1>11, <1>13 DEF Turns, Champions
<1>15. v[n] = v[Len(q)]
  BY <1>1
<1> QED
  BY <1>12, <1>14, <1>15, Zenon

\* The least count after each turn of the loop of minInt.
Minima(v, first, q) ==
    /\ v \in [0 .. Len(q) -> Nat]
    /\ v[0] = first
    /\ \A t \in 1 .. Len(q) :
           v[t] = IF q[t].calls < v[t - 1] THEN q[t].calls ELSE v[t - 1]

LEMMA MinIntLoops ==
    ASSUME NEW reps, NEW first \in Nat, NEW q \in Seq(Report),
           first = Head(reps).calls, q = Tail(reps)
    PROVE  \E v : Minima(v, first, q) /\ MinInt(reps) = v[Len(q)]
<1> DEFINE Eq(g) == g = [s \in SUBSET DOMAIN q |->
                             IF s = {} THEN first
                             ELSE IF q[Max(s)].calls < g[s \ {Max(s)}] THEN q[Max(s)].calls ELSE g[s \ {Max(s)}]]
<1>1. PICK n, V, b, F : /\ n = Len(q) /\ V = Nat /\ b = first
                        /\ F = [x \in (1 .. n) \X V |->
                                  IF q[x[1]].calls < x[2] THEN q[x[1]].calls ELSE x[2]]
  OBVIOUS
<1>2. /\ n \in Nat /\ DOMAIN q = 1 .. n
      /\ \A t \in 1 .. n : q[t] \in Report
  BY <1>1, LenProperties, ElementOfSeq
<1>3. MinInt(reps) = (CHOOSE g : Eq(g))[DOMAIN q]
  BY Zenon DEF MinInt, FoldLeft, MapThenFoldSet
<1>4. Loops(n, V, b, F)
  <2>1. \A t \in 1 .. n : q[t].calls \in Nat
    BY <1>2 DEF Report
  <2> QED
    BY <1>1, <1>2, <2>1 DEF Loops
<1>5. \A t \in 1 .. n, y \in V : F[<<t, y>>] = IF q[t].calls < y THEN q[t].calls ELSE y
  BY <1>1
<1>6. \A s \in (SUBSET (1 .. n)) \ {{}} : Max(s) \in 1 .. n
  BY <1>2, MaxOfIndices
<1>7. PICK k : Unfolds(k, n, V, b, F)
  BY <1>4, LoopExists
<1>8. Eq(k)
  <2>1. ASSUME NEW s \in (SUBSET (1 .. n)) \ {{}}
        PROVE  k[s] = IF q[Max(s)].calls < k[s \ {Max(s)}] THEN q[Max(s)].calls ELSE k[s \ {Max(s)}]
    <3>1. Max(s) \in 1 .. n /\ k[s \ {Max(s)}] \in V
      BY <1>6, <1>7 DEF Unfolds
    <3>2. k[s] = F[<<Max(s), k[s \ {Max(s)}]>>]
      BY <1>7 DEF Unfolds
    <3> QED
      BY <1>5, <3>1, <3>2
  <2> QED
    BY <1>1, <1>2, <1>7, <2>1 DEF Unfolds
<1> DEFINE g == CHOOSE g : Eq(g)
<1>9. Eq(g)
  <2> HIDE DEF Eq
  <2> QED
    BY <1>8, Zenon
<1> HIDE DEF g
<1>10. IsLoop(g, n, V, b, F)
  <2>1. g[{}] = b
    BY <1>1, <1>2, <1>9
  <2>2. ASSUME NEW s \in (SUBSET (1 .. n)) \ {{}}, g[s \ {Max(s)}] \in V
        PROVE  g[s] = F[<<Max(s), g[s \ {Max(s)}]>>]
    <3>1. g[s] = IF q[Max(s)].calls < g[s \ {Max(s)}] THEN q[Max(s)].calls ELSE g[s \ {Max(s)}]
      BY <1>2, <1>9
    <3>2. Max(s) \in 1 .. n
      BY <1>6
    <3> QED
      BY <1>5, <2>2, <3>1, <3>2
  <2> QED
    BY <2>1, <2>2 DEF IsLoop
<1>11. PICK v : Turns(v, n, V, b, F) /\ v[n] = g[1 .. n]
  BY <1>4, <1>10, LoopSolves
<1>12. MinInt(reps) = v[n]
  BY <1>2, <1>3, <1>11, Zenon DEF g
<1>13. \A t \in 1 .. n : v[t] = IF q[t].calls < v[t - 1] THEN q[t].calls ELSE v[t - 1]
  <2>1. \A t \in 1 .. n : v[t - 1] \in V /\ v[t] = F[<<t, v[t - 1]>>]
    BY <1>2, <1>11 DEF Turns
  <2> QED
    BY <1>5, <2>1
<1>14. Minima(v, first, q)
  BY <1>1, <1>11, <1>13 DEF Turns, Minima
<1>15. v[n] = v[Len(q)]
  BY <1>1
<1> QED
  BY <1>12, <1>14, <1>15, Zenon

\* The highest rate after each turn of the loop of maxFloat.
Maxima(v, first, q) ==
    /\ v \in [0 .. Len(q) -> Rates]
    /\ v[0] = first
    /\ \A t \in 1 .. Len(q) :
           v[t] = IF Exceeds(HitRate(q[t]), v[t - 1]) THEN HitRate(q[t]) ELSE v[t - 1]

LEMMA MaxFloatLoops ==
    ASSUME NEW reps, NEW first \in Rates, NEW q \in Seq(Report),
           first = HitRate(Head(reps)), q = Tail(reps)
    PROVE  \E v : Maxima(v, first, q) /\ MaxFloat(reps) = v[Len(q)]
<1> DEFINE Eq(g) == g = [s \in SUBSET DOMAIN q |->
                             IF s = {} THEN first
                             ELSE IF Exceeds(HitRate(q[Max(s)]), g[s \ {Max(s)}]) THEN HitRate(q[Max(s)]) ELSE g[s \ {Max(s)}]]
<1>1. PICK n, V, b, F : /\ n = Len(q) /\ V = Rates /\ b = first
                        /\ F = [x \in (1 .. n) \X V |->
                                  IF Exceeds(HitRate(q[x[1]]), x[2]) THEN HitRate(q[x[1]]) ELSE x[2]]
  OBVIOUS
<1>2. /\ n \in Nat /\ DOMAIN q = 1 .. n
      /\ \A t \in 1 .. n : q[t] \in Report
  BY <1>1, LenProperties, ElementOfSeq
<1>3. MaxFloat(reps) = (CHOOSE g : Eq(g))[DOMAIN q]
  BY Zenon DEF MaxFloat, FoldLeft, MapThenFoldSet
<1>4. Loops(n, V, b, F)
  <2>1. \A t \in 1 .. n : HitRate(q[t]) \in Rates
    BY <1>2, HitRateType
  <2> QED
    BY <1>1, <1>2, <2>1 DEF Loops
<1>5. \A t \in 1 .. n, y \in V : F[<<t, y>>] = IF Exceeds(HitRate(q[t]), y) THEN HitRate(q[t]) ELSE y
  BY <1>1
<1>6. \A s \in (SUBSET (1 .. n)) \ {{}} : Max(s) \in 1 .. n
  BY <1>2, MaxOfIndices
<1>7. PICK k : Unfolds(k, n, V, b, F)
  BY <1>4, LoopExists
<1>8. Eq(k)
  <2>1. ASSUME NEW s \in (SUBSET (1 .. n)) \ {{}}
        PROVE  k[s] = IF Exceeds(HitRate(q[Max(s)]), k[s \ {Max(s)}]) THEN HitRate(q[Max(s)]) ELSE k[s \ {Max(s)}]
    <3>1. Max(s) \in 1 .. n /\ k[s \ {Max(s)}] \in V
      BY <1>6, <1>7 DEF Unfolds
    <3>2. k[s] = F[<<Max(s), k[s \ {Max(s)}]>>]
      BY <1>7 DEF Unfolds
    <3> QED
      BY <1>5, <3>1, <3>2
  <2> QED
    BY <1>1, <1>2, <1>7, <2>1 DEF Unfolds
<1> DEFINE g == CHOOSE g : Eq(g)
<1>9. Eq(g)
  <2> HIDE DEF Eq
  <2> QED
    BY <1>8, Zenon
<1> HIDE DEF g
<1>10. IsLoop(g, n, V, b, F)
  <2>1. g[{}] = b
    BY <1>1, <1>2, <1>9
  <2>2. ASSUME NEW s \in (SUBSET (1 .. n)) \ {{}}, g[s \ {Max(s)}] \in V
        PROVE  g[s] = F[<<Max(s), g[s \ {Max(s)}]>>]
    <3>1. g[s] = IF Exceeds(HitRate(q[Max(s)]), g[s \ {Max(s)}]) THEN HitRate(q[Max(s)]) ELSE g[s \ {Max(s)}]
      BY <1>2, <1>9
    <3>2. Max(s) \in 1 .. n
      BY <1>6
    <3> QED
      BY <1>5, <2>2, <3>1, <3>2
  <2> QED
    BY <2>1, <2>2 DEF IsLoop
<1>11. PICK v : Turns(v, n, V, b, F) /\ v[n] = g[1 .. n]
  BY <1>4, <1>10, LoopSolves
<1>12. MaxFloat(reps) = v[n]
  BY <1>2, <1>3, <1>11, Zenon DEF g
<1>13. \A t \in 1 .. n : v[t] = IF Exceeds(HitRate(q[t]), v[t - 1]) THEN HitRate(q[t]) ELSE v[t - 1]
  <2>1. \A t \in 1 .. n : v[t - 1] \in V /\ v[t] = F[<<t, v[t - 1]>>]
    BY <1>2, <1>11 DEF Turns
  <2> QED
    BY <1>5, <2>1
<1>14. Maxima(v, first, q)
  BY <1>1, <1>11, <1>13 DEF Turns, Maxima
<1>15. v[n] = v[Len(q)]
  BY <1>1
<1> QED
  BY <1>12, <1>14, <1>15, Zenon

\* The group of a scenario after each turn of the loop that fills the groups.
Groups(v, first, q, sc) ==
    /\ v \in [0 .. Len(q) -> Seq(Report)]
    /\ v[0] = first
    /\ \A t \in 1 .. Len(q) :
           v[t] = IF q[t].scenario = sc THEN Append(v[t - 1], q[t]) ELSE v[t - 1]

LEMMA GroupingLoops ==
    ASSUME NEW first \in Seq(Report), first = <<>>, NEW q \in Seq(Report), NEW sc
    PROVE  \E v : Groups(v, first, q, sc) /\ OfScenario(q, sc) = v[Len(q)]
<1> DEFINE Eq(g) == g = [s \in SUBSET DOMAIN q |->
                             IF s = {} THEN first
                             ELSE IF q[Max(s)].scenario = sc THEN Append(g[s \ {Max(s)}], q[Max(s)]) ELSE g[s \ {Max(s)}]]
<1>1. PICK n, V, b, F : /\ n = Len(q) /\ V = Seq(Report) /\ b = first
                        /\ F = [x \in (1 .. n) \X V |->
                                  IF q[x[1]].scenario = sc THEN Append(x[2], q[x[1]]) ELSE x[2]]
  OBVIOUS
<1>2. /\ n \in Nat /\ DOMAIN q = 1 .. n
      /\ \A t \in 1 .. n : q[t] \in Report
  BY <1>1, LenProperties, ElementOfSeq
<1>3. OfScenario(q, sc) = (CHOOSE g : Eq(g))[DOMAIN q]
  BY Zenon DEF OfScenario, FoldLeft, MapThenFoldSet
<1>4. Loops(n, V, b, F)
  <2>1. \A t \in 1 .. n, y \in Seq(Report) : Append(y, q[t]) \in Seq(Report)
    BY <1>2, AppendProperties
  <2> QED
    BY <1>1, <1>2, <2>1 DEF Loops
<1>5. \A t \in 1 .. n, y \in V : F[<<t, y>>] = IF q[t].scenario = sc THEN Append(y, q[t]) ELSE y
  BY <1>1
<1>6. \A s \in (SUBSET (1 .. n)) \ {{}} : Max(s) \in 1 .. n
  BY <1>2, MaxOfIndices
<1>7. PICK k : Unfolds(k, n, V, b, F)
  BY <1>4, LoopExists
<1>8. Eq(k)
  <2>1. ASSUME NEW s \in (SUBSET (1 .. n)) \ {{}}
        PROVE  k[s] = IF q[Max(s)].scenario = sc THEN Append(k[s \ {Max(s)}], q[Max(s)]) ELSE k[s \ {Max(s)}]
    <3>1. Max(s) \in 1 .. n /\ k[s \ {Max(s)}] \in V
      BY <1>6, <1>7 DEF Unfolds
    <3>2. k[s] = F[<<Max(s), k[s \ {Max(s)}]>>]
      BY <1>7 DEF Unfolds
    <3> QED
      BY <1>5, <3>1, <3>2
  <2> QED
    BY <1>1, <1>2, <1>7, <2>1 DEF Unfolds
<1> DEFINE g == CHOOSE g : Eq(g)
<1>9. Eq(g)
  <2> HIDE DEF Eq
  <2> QED
    BY <1>8, Zenon
<1> HIDE DEF g
<1>10. IsLoop(g, n, V, b, F)
  <2>1. g[{}] = b
    BY <1>1, <1>2, <1>9
  <2>2. ASSUME NEW s \in (SUBSET (1 .. n)) \ {{}}, g[s \ {Max(s)}] \in V
        PROVE  g[s] = F[<<Max(s), g[s \ {Max(s)}]>>]
    <3>1. g[s] = IF q[Max(s)].scenario = sc THEN Append(g[s \ {Max(s)}], q[Max(s)]) ELSE g[s \ {Max(s)}]
      BY <1>2, <1>9
    <3>2. Max(s) \in 1 .. n
      BY <1>6
    <3> QED
      BY <1>5, <2>2, <3>1, <3>2
  <2> QED
    BY <2>1, <2>2 DEF IsLoop
<1>11. PICK v : Turns(v, n, V, b, F) /\ v[n] = g[1 .. n]
  BY <1>4, <1>10, LoopSolves
<1>12. OfScenario(q, sc) = v[n]
  BY <1>2, <1>3, <1>11, Zenon DEF g
<1>13. \A t \in 1 .. n : v[t] = IF q[t].scenario = sc THEN Append(v[t - 1], q[t]) ELSE v[t - 1]
  <2>1. \A t \in 1 .. n : v[t - 1] \in V /\ v[t] = F[<<t, v[t - 1]>>]
    BY <1>2, <1>11 DEF Turns
  <2> QED
    BY <1>5, <2>1
<1>14. Groups(v, first, q, sc)
  BY <1>1, <1>11, <1>13 DEF Turns, Groups
<1>15. v[n] = v[Len(q)]
  BY <1>1
<1> QED
  BY <1>12, <1>14, <1>15, Zenon
----------------------------------------------------------------------------
(* The first report that nobody beats.                                     *)

Best(reps, metric, i) ==
    /\ \A j \in 1 .. Len(reps) : ~Better(metric, reps[j], reps[i])
    /\ \A j \in 1 .. i - 1 : Better(metric, reps[i], reps[j])

LEMMA Products ==
    ASSUME NEW a \in Nat, NEW b \in Nat, NEW c \in Nat \ {0}
    PROVE  /\ a > b <=> a * c > b * c
           /\ a <= b <=> a * c <= b * c
  OBVIOUS

\* The order of the rates is strict, and what beats the best beats all that
\* do not beat it.
LEMMA RatesOrdered ==
    ASSUME NEW p \in Rates, NEW q \in Rates, NEW s \in Rates,
           Exceeds(p, q), ~Exceeds(s, q)
    PROVE  Exceeds(p, s) /\ ~Exceeds(s, p)
<1>1. PICK pn \in Nat, pd \in Nat \ {0} : p = <<pn, pd>>
  BY DEF Rates
<1>2. PICK qn \in Nat, qd \in Nat \ {0} : q = <<qn, qd>>
  BY DEF Rates
<1>3. PICK sn \in Nat, sd \in Nat \ {0} : s = <<sn, sd>>
  BY DEF Rates
<1>4. pn * qd > qn * pd /\ sn * qd <= qn * sd
  <2>1. pn * qd \in Nat /\ qn * pd \in Nat /\ sn * qd \in Nat /\ qn * sd \in Nat
    OBVIOUS
  <2>2. pn * qd > qn * pd /\ ~(sn * qd > qn * sd)
    BY <1>1, <1>2, <1>3 DEF Exceeds
  <2> QED
    BY <2>1, <2>2
<1>5. (pn * qd) * sd > (qn * pd) * sd /\ (sn * qd) * pd <= (qn * sd) * pd
  <2>1. pn * qd \in Nat /\ qn * pd \in Nat /\ sn * qd \in Nat /\ qn * sd \in Nat
    OBVIOUS
  <2> QED
    BY <1>4, <2>1, Products
<1>6. /\ (pn * qd) * sd = (pn * sd) * qd
      /\ (qn * pd) * sd = (qn * sd) * pd
      /\ (sn * qd) * pd = (sn * pd) * qd
  OBVIOUS
<1>7. PICK x, y : x = pn * sd /\ y = sn * pd
  OBVIOUS
<1>8. x \in Nat /\ y \in Nat
  BY <1>7
<1>9. x * qd > y * qd
  <2>1. (pn * qd) * sd \in Nat /\ (qn * pd) * sd \in Nat /\ (sn * qd) * pd \in Nat
    OBVIOUS
  <2> QED
    BY <1>5, <1>6, <1>7, <2>1
<1>10. x > y
  BY <1>8, <1>9, Products
<1> QED
  BY <1>1, <1>3, <1>7, <1>8, <1>10 DEF Exceeds

LEMMA RatesIrreflexive == ASSUME NEW p \in Rates PROVE ~Exceeds(p, p)
<1>1. PICK pn \in Nat, pd \in Nat \ {0} : p = <<pn, pd>>
  BY DEF Rates
<1>2. PICK x : x = pn * pd
  OBVIOUS
<1> QED
  BY <1>1, <1>2 DEF Exceeds

\* The metric that is a count; the other one is a rate.
Counts(metric) == metric = "DB calls"

\* The two orders of Better.
LEMMA BetterByCalls ==
    ASSUME NEW metric, Counts(metric), NEW a, NEW b
    PROVE  Better(metric, a, b) <=> a.calls < b.calls
  BY Zenon DEF Better, Counts

LEMMA BetterByRate ==
    ASSUME NEW metric, ~Counts(metric), NEW a, NEW b
    PROVE  Better(metric, a, b) <=> Exceeds(HitRate(a), HitRate(b))
  BY Zenon DEF Better, Counts

LEMMA BetterOrdered ==
    ASSUME NEW metric, NEW r \in Report, NEW c \in Report, NEW x \in Report,
           Better(metric, r, c), ~Better(metric, x, c)
    PROVE  Better(metric, r, x) /\ ~Better(metric, x, r)
<1>1. CASE Counts(metric)
  <2>1. r.calls \in Nat /\ c.calls \in Nat /\ x.calls \in Nat
    BY DEF Report
  <2>2. r.calls < c.calls /\ ~(x.calls < c.calls)
    BY <1>1, BetterByCalls
  <2>3. r.calls < x.calls /\ ~(x.calls < r.calls)
    BY <2>1, <2>2
  <2> QED
    BY <1>1, <2>3, BetterByCalls
<1>2. CASE ~Counts(metric)
  <2>1. HitRate(r) \in Rates /\ HitRate(c) \in Rates /\ HitRate(x) \in Rates
    BY HitRateType
  <2>2. Exceeds(HitRate(r), HitRate(c)) /\ ~Exceeds(HitRate(x), HitRate(c))
    BY <1>2, BetterByRate
  <2>3. Exceeds(HitRate(r), HitRate(x)) /\ ~Exceeds(HitRate(x), HitRate(r))
    BY <2>1, <2>2, RatesOrdered
  <2> QED
    BY <1>2, <2>3, BetterByRate
<1> QED
  BY <1>1, <1>2

LEMMA BetterIrreflexive ==
    ASSUME NEW metric, NEW r \in Report
    PROVE  ~Better(metric, r, r)
<1>1. CASE Counts(metric)
  <2>1. r.calls \in Nat
    BY DEF Report
  <2>2. ~(r.calls < r.calls)
    BY <2>1
  <2> QED
    BY <1>1, <2>2, BetterByCalls
<1>2. CASE ~Counts(metric)
  <2>1. ~Exceeds(HitRate(r), HitRate(r))
    BY HitRateType, RatesIrreflexive
  <2> QED
    BY <1>2, <2>1, BetterByRate
<1> QED
  BY <1>1, <1>2

\* The rest of a group of reports, by index.
LEMMA Rest ==
    ASSUME NEW reps \in Seq(Report), reps # <<>>
    PROVE  /\ Head(reps) = reps[1] /\ reps[1] \in Report
           /\ Tail(reps) \in Seq(Report)
           /\ Len(reps) \in Nat \ {0} /\ Len(Tail(reps)) = Len(reps) - 1
           /\ \A t \in 1 .. Len(reps) - 1 : Tail(reps)[t] = reps[t + 1]
           /\ \A t \in 1 .. Len(reps) : reps[t] \in Report
<1>1. Len(reps) \in Nat \ {0}
  BY EmptySeq
<1> QED
  BY <1>1, HeadTailProperties, ElementOfSeq

\* After t turns the loop holds the best of the first t + 1 reports.
LEMMA ChampionIsBest ==
    ASSUME NEW reps \in Seq(Report), reps # <<>>, NEW metric,
           NEW v, Champions(v, Head(reps), Tail(reps), metric)
    PROVE  \E i \in 1 .. Len(reps) :
               Best(reps, metric, i) /\ v[Len(Tail(reps))] = reps[i]
<1>0. PICK n \in Nat : n = Len(Tail(reps)) /\ Len(reps) = n + 1
  BY Rest
<1>1. /\ v[0] = reps[1]
      /\ \A t \in 1 .. n :
             v[t] = IF Better(metric, reps[t + 1], v[t - 1]) THEN reps[t + 1] ELSE v[t - 1]
  BY <1>0, Rest DEF Champions
<1>2. \A t \in 1 .. n + 1 : reps[t] \in Report
  BY <1>0, Rest
<1> DEFINE Leads(i, t) ==
               /\ v[t] = reps[i]
               /\ \A j \in 1 .. t + 1 : ~Better(metric, reps[j], reps[i])
               /\ \A j \in 1 .. i - 1 : Better(metric, reps[i], reps[j])
           P == {t \in Nat : t <= n => \E i \in 1 .. t + 1 : Leads(i, t)}
<1>3. 0 \in P
  <2>1. Leads(1, 0)
    BY <1>1, <1>2, BetterIrreflexive
  <2> QED
    BY <2>1
<1>4. ASSUME NEW t \in P, t + 1 <= n
      PROVE  \E i \in 1 .. (t + 1) + 1 : Leads(i, t + 1)
  <2>1. PICK i \in 1 .. t + 1 : Leads(i, t)
    BY <1>4
  <2>2. PICK r, c : r = reps[t + 2] /\ c = reps[i]
    OBVIOUS
  <2>3. /\ r \in Report /\ c \in Report
        /\ \A j \in 1 .. t + 1 : reps[j] \in Report /\ ~Better(metric, reps[j], c)
        /\ \A j \in 1 .. i - 1 : Better(metric, c, reps[j])
        /\ v[t] = c
    BY <1>2, <1>4, <2>1, <2>2
  <2>4. v[t + 1] = IF Better(metric, r, c) THEN r ELSE c
    <3>1. t + 1 \in 1 .. n /\ (t + 1) - 1 = t /\ (t + 1) + 1 = t + 2
      BY <1>4
    <3> QED
      BY <1>1, <2>2, <2>3, <3>1
  <2>5. CASE Better(metric, r, c)
    <3>1. \A j \in 1 .. t + 1 : Better(metric, r, reps[j]) /\ ~Better(metric, reps[j], r)
      BY <2>3, <2>5, BetterOrdered
    <3>2. ~Better(metric, r, r)
      BY <2>3, BetterIrreflexive
    <3>3. \A j \in 1 .. (t + 1) + 1 : ~Better(metric, reps[j], r)
      BY <2>2, <3>1, <3>2
    <3>4. Leads(t + 2, t + 1)
      <4>1. \A j \in 1 .. (t + 2) - 1 : Better(metric, r, reps[j])
        BY <3>1
      <4>2. v[t + 1] = r
        BY <2>4, <2>5
      <4> QED
        BY <2>2, <3>3, <4>1, <4>2
    <3> HIDE DEF Leads
    <3> QED
      BY <3>4
  <2>6. CASE ~Better(metric, r, c)
    <3>1. \A j \in 1 .. (t + 1) + 1 : ~Better(metric, reps[j], c)
      BY <2>2, <2>3, <2>6
    <3>2. v[t + 1] = c
      BY <2>4, <2>6
    <3>3. Leads(i, t + 1)
      BY <2>2, <2>3, <3>1, <3>2
    <3> HIDE DEF Leads
    <3> QED
      BY <3>3
  <2> QED
    BY <2>5, <2>6
<1>5. P = Nat
  <2>1. \A t \in P : t + 1 \in P
    <3> HIDE DEF Leads
    <3> QED
      BY <1>4
  <2>2. P \in SUBSET Nat
    OBVIOUS
  <2> HIDE DEF P
  <2> QED
    BY <1>3, <2>1, <2>2, NumberInduction
<1>6. PICK i \in 1 .. n + 1 : Leads(i, n)
  <2> HIDE DEF Leads
  <2>1. n \in P
    BY <1>5
  <2> QED
    BY <2>1
<1> QED
  BY <1>0, <1>6 DEF Best

\* The loop of minInt holds the calls of the best, turn for turn.
LEMMA MinimaFollow ==
    ASSUME NEW first \in Report, NEW q \in Seq(Report),
           NEW metric, Counts(metric),
           NEW v, Champions(v, first, q, metric),
           NEW b, b = first.calls, NEW w, Minima(w, b, q)
    PROVE  w[Len(q)] = v[Len(q)].calls
<1>0. PICK n \in Nat : n = Len(q)
  BY LenProperties
<1> DEFINE f == [t \in 0 .. n |-> v[t].calls]
<1>1. \A t \in 0 .. n : f[t] = v[t].calls
  OBVIOUS
<1> HIDE DEF f
<1>2. f[0] = w[0]
  <2>1. w[0] = first.calls /\ v[0] = first
    BY DEF Champions, Minima
  <2> QED
    BY <1>0, <1>1, <2>1
<1>3. ASSUME NEW t \in Nat, t < n, f[t] = w[t]
      PROVE  f[t + 1] = w[t + 1]
  <2>1. /\ t \in 0 .. n /\ t + 1 \in 0 .. n
        /\ t + 1 \in 1 .. n /\ (t + 1) - 1 = t
    BY <1>0, <1>3
  <2>2. w[t] = v[t].calls /\ f[t + 1] = v[t + 1].calls
    BY <1>1, <1>3, <2>1
  <2>3. v[t + 1] = IF q[t + 1].calls < v[t].calls THEN q[t + 1] ELSE v[t]
    <3>1. v[t + 1] = IF Better(metric, q[t + 1], v[t]) THEN q[t + 1] ELSE v[t]
      BY <1>0, <2>1 DEF Champions
    <3> QED
      BY <3>1, BetterByCalls
  <2>4. w[t + 1] = IF q[t + 1].calls < w[t] THEN q[t + 1].calls ELSE w[t]
    BY <1>0, <2>1 DEF Minima
  <2> QED
    BY <2>2, <2>3, <2>4
<1>4. f[n] = w[n]
  BY <1>2, <1>3, TurnForTurn
<1>5. f[n] = v[n].calls
  BY <1>0, <1>1
<1> QED
  BY <1>0, <1>4, <1>5

\* And that of maxFloat its rate.
LEMMA MaximaFollow ==
    ASSUME NEW first \in Report, NEW q \in Seq(Report),
           NEW metric, ~Counts(metric),
           NEW v, Champions(v, first, q, metric),
           NEW b, b = HitRate(first), NEW w, Maxima(w, b, q)
    PROVE  w[Len(q)] = HitRate(v[Len(q)])
<1>0. PICK n \in Nat : n = Len(q)
  BY LenProperties
<1> DEFINE f == [t \in 0 .. n |-> HitRate(v[t])]
<1>1. \A t \in 0 .. n : f[t] = HitRate(v[t])
  OBVIOUS
<1> HIDE DEF f
<1>2. f[0] = w[0]
  <2>1. w[0] = HitRate(first) /\ v[0] = first
    BY DEF Champions, Maxima
  <2> QED
    BY <1>0, <1>1, <2>1
<1>3. ASSUME NEW t \in Nat, t < n, f[t] = w[t]
      PROVE  f[t + 1] = w[t + 1]
  <2>1. /\ t \in 0 .. n /\ t + 1 \in 0 .. n
        /\ t + 1 \in 1 .. n /\ (t + 1) - 1 = t
    BY <1>0, <1>3
  <2>2. w[t] = HitRate(v[t]) /\ f[t + 1] = HitRate(v[t + 1])
    BY <1>1, <1>3, <2>1
  <2>3. v[t + 1] = IF Exceeds(HitRate(q[t + 1]), HitRate(v[t])) THEN q[t + 1] ELSE v[t]
    <3>1. v[t + 1] = IF Better(metric, q[t + 1], v[t]) THEN q[t + 1] ELSE v[t]
      BY <1>0, <2>1 DEF Champions
    <3> QED
      BY <3>1, BetterByRate
  <2>4. w[t + 1] = IF Exceeds(HitRate(q[t + 1]), w[t]) THEN HitRate(q[t + 1]) ELSE w[t]
    BY <1>0, <2>1 DEF Maxima
  <2> QED
    BY <2>2, <2>3, <2>4
<1>4. f[n] = w[n]
  BY <1>2, <1>3, TurnForTurn
<1>5. f[n] = HitRate(v[n])
  BY <1>0, <1>1
<1> QED
  BY <1>0, <1>4, <1>5

----------------------------------------------------------------------------
(* The winners of a group of reports that is not empty.                    *)

\* The champion is the first unbeaten report, and the running minimum and
\* maximum end at its value.
LEMMA GroupHonest ==
    ASSUME NEW reps \in Seq(Report), reps # <<>>
    PROVE  Honest(reps)
<1> SUFFICES ASSUME NEW metric \in Metrics
             PROVE  LET best == CHOOSE i \in DOMAIN reps :
                            /\ \A j \in DOMAIN reps : ~Better(metric, reps[j], reps[i])
                            /\ \A j \in 1 .. i - 1 : Better(metric, reps[i], reps[j])
                    IN Winner(reps, metric) = [name  |-> reps[best].strategy,
                                               value |-> Value(metric, reps[best])]
  BY Zenon DEF Honest
<1> DEFINE k == CHOOSE i \in DOMAIN reps :
                    /\ \A j \in DOMAIN reps : ~Better(metric, reps[j], reps[i])
                    /\ \A j \in 1 .. i - 1 : Better(metric, reps[i], reps[j])
<1>1. PICK first, q : first = Head(reps) /\ q = Tail(reps)
  OBVIOUS
<1>2. first \in Report /\ q \in Seq(Report)
  BY <1>1, Rest
<1>3. PICK v : Champions(v, first, q, metric) /\ BestBy(reps, metric) = v[Len(q)]
  BY <1>1, <1>2, BestByLoops, Zenon
<1>4. BestBy(reps, metric) = v[Len(q)]
  BY <1>3
<1>5. PICK i \in 1 .. Len(reps) : Best(reps, metric, i) /\ v[Len(q)] = reps[i]
  BY <1>1, <1>3, ChampionIsBest
<1>6. DOMAIN reps = 1 .. Len(reps) /\ Len(reps) \in Nat
  BY LenProperties
<1>7. k \in 1 .. Len(reps) /\ Best(reps, metric, k)
  BY <1>5, <1>6, Zenon DEF Best
<1> HIDE DEF k
<1>8. k = i
  <2>1. k < i => Better(metric, reps[i], reps[k]) /\ ~Better(metric, reps[i], reps[k])
    BY <1>5, <1>6, <1>7 DEF Best
  <2>2. i < k => Better(metric, reps[k], reps[i]) /\ ~Better(metric, reps[k], reps[i])
    BY <1>5, <1>6, <1>7 DEF Best
  <2>3. ~(k < i) /\ ~(i < k)
    BY <2>1, <2>2, Zenon
  <2> QED
    BY <1>5, <1>6, <1>7, <2>3
<1>9. PICK value : value = IF metric = "DB calls" THEN MinInt(reps) ELSE MaxFloat(reps)
  OBVIOUS
<1>10. value = Value(metric, reps[i])
  <2>1. CASE Counts(metric)
    <3>1. PICK b : b = first.calls
      OBVIOUS
    <3>2. b \in Nat
      BY <1>2, <3>1 DEF Report
    <3>3. PICK w : Minima(w, b, q) /\ MinInt(reps) = w[Len(q)]
      BY <1>1, <1>2, <3>1, <3>2, MinIntLoops
    <3>4. MinInt(reps) = w[Len(q)]
      BY <3>3
    <3>5. w[Len(q)] = v[Len(q)].calls
      BY <1>2, <1>3, <2>1, <3>1, <3>3, MinimaFollow
    <3> QED
      BY <1>5, <1>9, <2>1, <3>4, <3>5, Zenon DEF Value, Counts
  <2>2. CASE ~Counts(metric)
    <3>1. PICK b : b = HitRate(first)
      OBVIOUS
    <3>2. b \in Rates
      BY <1>2, <3>1, HitRateType
    <3>3. PICK w : Maxima(w, b, q) /\ MaxFloat(reps) = w[Len(q)]
      BY <1>1, <1>2, <3>1, <3>2, MaxFloatLoops
    <3>4. MaxFloat(reps) = w[Len(q)]
      BY <3>3
    <3>5. w[Len(q)] = HitRate(v[Len(q)])
      BY <1>2, <1>3, <2>2, <3>1, <3>3, MaximaFollow
    <3> QED
      BY <1>5, <1>9, <2>2, <3>4, <3>5, Zenon DEF Value, Counts
  <2> QED
    BY <2>1, <2>2
<1>11. Winner(reps, metric) = [name  |-> reps[k].strategy, value |-> Value(metric, reps[k])]
  BY <1>4, <1>5, <1>8, <1>9, <1>10, Zenon DEF Winner
<1> QED
  BY <1>11, Zenon DEF k

\* A scenario of which there is a report has a group.
LEMMA GroupFound ==
    ASSUME NEW all \in Seq(Report), NEW i \in 1 .. Len(all), NEW sc,
           all[i].scenario = sc
    PROVE  OfScenario(all, sc) \in Seq(Report) /\ OfScenario(all, sc) # <<>>
<1>0. PICK n \in Nat : n = Len(all)
  BY LenProperties
<1>1. PICK e : e = <<>>
  OBVIOUS
<1>2. e \in Seq(Report)
  BY <1>1, EmptySeq
<1>3. PICK v : Groups(v, e, all, sc) /\ OfScenario(all, sc) = v[Len(all)]
  BY <1>1, <1>2, GroupingLoops
<1>4. OfScenario(all, sc) = v[n]
  BY <1>0, <1>3
<1>5. PICK P : P = {t \in Nat : t <= n => (t < i \/ v[t] # e)}
  OBVIOUS
<1>6. \A t \in Nat : t \in P <=> (t <= n => (t < i \/ v[t] # e))
  BY <1>5
<1>7. 0 \in P
  BY <1>0, <1>6
<1>8. ASSUME NEW t \in Nat, t \in P
      PROVE  t + 1 \in P
  <2>1. SUFFICES ASSUME t + 1 <= n, ~(t + 1 < i) PROVE v[t + 1] # e
    BY <1>6
  <2>2. t + 1 \in 1 .. n /\ (t + 1) - 1 = t /\ t \in 0 .. n
    BY <1>0, <2>1
  <2>3. /\ v[t + 1] = IF all[t + 1].scenario = sc THEN Append(v[t], all[t + 1]) ELSE v[t]
        /\ v[t] \in Seq(Report)
    BY <1>0, <1>3, <2>2 DEF Groups
  <2>4. all[t + 1] \in Report
    BY <1>0, <2>2, ElementOfSeq
  <2>5. Append(v[t], all[t + 1]) # e
    BY <1>1, <2>3, <2>4, AppendProperties
  <2>6. CASE t + 1 = i
    BY <2>3, <2>5, <2>6
  <2>7. CASE t + 1 # i
    <3>1. t <= n /\ ~(t < i)
      BY <1>0, <2>1, <2>7
    <3>2. v[t] # e
      BY <1>6, <1>8, <3>1
    <3> QED
      BY <2>3, <2>5, <3>2
  <2> QED
    BY <2>6, <2>7
<1>9. P = Nat
  <2>1. P \in SUBSET Nat
    BY <1>5
  <2>2. \A t \in P : t + 1 \in P
    BY <1>8, <2>1
  <2> QED
    BY <1>7, <2>1, <2>2, NumberInduction
<1>10. v[n] # e
  <2>1. n <= n /\ ~(n < i)
    BY <1>0
  <2> QED
    BY <1>0, <1>6, <1>9, <2>1
<1>11. v[n] \in Seq(Report)
  <2>1. n \in 0 .. n /\ Len(all) = n
    BY <1>0
  <2>2. \A t \in 0 .. n : v[t] \in Seq(Report)
    BY <1>3, <2>1 DEF Groups
  <2> QED
    BY <2>1, <2>2
<1> QED
  BY <1>1, <1>4, <1>10, <1>11

----------------------------------------------------------------------------
(* Lazy Loading and Write-Through are the synchronous strategies of which  *)
(* SyncStrategyProofs speaks.                                              *)

Sync == INSTANCE SyncStrategyProofs

\* IsFiniteSet means the same there.
LEMMA WorkersFinite == Sync!IsFiniteSet(Workers)
BY WorkersAssumption, Zenon DEF IsFiniteSet, Sync!IsFiniteSet

\* A step of Lazy Loading is one of them.
LEMMA LazyIsSync == [Lazy!Next]_(Lazy!vars) => [Sync!SyncNext]_(Sync!vars)
<1>1. ASSUME NEW w \in Workers PROVE Lazy!ReadStep(w) <=> Sync!ReadStep(w)
  BY Zenon DEF Lazy!ReadStep, Lazy!ReadHit, Lazy!ReadMiss, Lazy!ReadError, Lazy!Fetch, Lazy!FetchFails,
         Lazy!Backfill, Lazy!CacheSetIgnored, Lazy!CacheSet, Lazy!CacheUnreached, Lazy!Mark,
         Lazy!Overtaken, Lazy!StartRead, Lazy!RecordRead, Lazy!Goto, Lazy!Return,
         Lazy!Proceeds, Lazy!DBGet, Lazy!At, Lazy!Idle, Lazy!backends,
         Sync!ReadStep, Sync!ReadHit, Sync!ReadMiss, Sync!ReadError, Sync!Fetch, Sync!FetchFails,
         Sync!Backfill, Sync!CacheSetIgnored, Sync!CacheSet, Sync!CacheUnreached, Sync!Mark,
         Sync!Overtaken, Sync!StartRead, Sync!RecordRead, Sync!Goto, Sync!Return,
         Sync!Proceeds, Sync!DBGet, Sync!At, Sync!Idle, Sync!backends
<1>2. ASSUME NEW w \in Workers PROVE Lazy!WriteStart(w) <=> Sync!WriteStart(w)
  BY Zenon DEF Lazy!WriteStart, Lazy!WriteDB, Lazy!WriteDBFails, Lazy!StartWrite, Lazy!DBSet,
         Lazy!DBSetLost, Lazy!Fresh, Lazy!Goto, Lazy!Idle,
         Sync!WriteStart, Sync!WriteDB, Sync!WriteDBFails, Sync!StartWrite, Sync!DBSet,
         Sync!DBSetLost, Sync!Fresh, Sync!Goto, Sync!Idle
<1>3. ASSUME NEW w \in Workers, Lazy!Settle(w) PROVE Sync!Settles(w)
  BY <1>3 DEF Lazy!Settle, Lazy!At, Lazy!CacheDelete, Lazy!Clear, Lazy!CacheUnreached,
         Lazy!RecordWrite, Lazy!Return, Lazy!Proceeds, Lazy!Idle,
         Sync!Settles, Sync!At, Sync!CacheDelete, Sync!CacheSet, Sync!Clear, Sync!Mark, Sync!Overtaken, Sync!CacheUnreached,
         Sync!RecordWrite, Sync!Return, Sync!Proceeds, Sync!Idle
<1>4. Lazy!Environment <=> Sync!Environment
  BY Zenon DEF Lazy!Environment, Lazy!Deadline, Lazy!Expire, Lazy!EvictEntry, Lazy!Evict, Lazy!Clear,
         Lazy!CacheDelete, Lazy!backends, Lazy!load,
         Sync!Environment, Sync!Deadline, Sync!Expire, Sync!EvictEntry, Sync!Evict, Sync!Clear, Sync!CacheDelete, Sync!backends, Sync!load
<1>5. Lazy!Over <=> Sync!Over
  BY Zenon DEF Lazy!Over, Lazy!RunOver, Lazy!Idle, Lazy!vars, Sync!Over, Sync!RunOver, Sync!Idle, Sync!vars
<1>6. Lazy!Next => Sync!SyncNext
  <2>1. ASSUME NEW w \in Workers, Lazy!WorkerStep(w)
        PROVE  Sync!ReadStep(w) \/ Sync!WriteStart(w) \/ Sync!Settles(w)
    BY <1>1, <1>2, <1>3, <2>1, Zenon DEF Lazy!WorkerStep
  <2> QED
    BY <1>4, <1>5, <2>1, Zenon DEF Lazy!Next, Sync!SyncNext
<1> QED
  BY <1>6 DEF Lazy!vars, Sync!vars

\* So is a step of Write-Through.
LEMMA ThroughIsSync == [Through!Next]_(Through!vars) => [Sync!SyncNext]_(Sync!vars)
<1>1. ASSUME NEW w \in Workers PROVE Through!ReadStep(w) <=> Sync!ReadStep(w)
  BY Zenon DEF Through!ReadStep, Through!ReadHit, Through!ReadMiss, Through!ReadError, Through!Fetch, Through!FetchFails,
         Through!Backfill, Through!CacheSetIgnored, Through!CacheSet, Through!CacheUnreached, Through!Mark,
         Through!Overtaken, Through!StartRead, Through!RecordRead, Through!Goto, Through!Return,
         Through!Proceeds, Through!DBGet, Through!At, Through!Idle, Through!backends,
         Sync!ReadStep, Sync!ReadHit, Sync!ReadMiss, Sync!ReadError, Sync!Fetch, Sync!FetchFails,
         Sync!Backfill, Sync!CacheSetIgnored, Sync!CacheSet, Sync!CacheUnreached, Sync!Mark,
         Sync!Overtaken, Sync!StartRead, Sync!RecordRead, Sync!Goto, Sync!Return,
         Sync!Proceeds, Sync!DBGet, Sync!At, Sync!Idle, Sync!backends
<1>2. ASSUME NEW w \in Workers PROVE Through!WriteStart(w) <=> Sync!WriteStart(w)
  BY Zenon DEF Through!WriteStart, Through!WriteDB, Through!WriteDBFails, Through!StartWrite, Through!DBSet,
         Through!DBSetLost, Through!Fresh, Through!Goto, Through!Idle,
         Sync!WriteStart, Sync!WriteDB, Sync!WriteDBFails, Sync!StartWrite, Sync!DBSet,
         Sync!DBSetLost, Sync!Fresh, Sync!Goto, Sync!Idle
<1>3. ASSUME NEW w \in Workers, Through!Settle(w) PROVE Sync!Settles(w)
  BY <1>3 DEF Through!Settle, Through!At, Through!CacheSet, Through!Mark, Through!Overtaken, Through!CacheUnreached,
         Through!RecordWrite, Through!Return, Through!Proceeds, Through!Idle,
         Sync!Settles, Sync!At, Sync!CacheDelete, Sync!CacheSet, Sync!Clear, Sync!Mark, Sync!Overtaken, Sync!CacheUnreached,
         Sync!RecordWrite, Sync!Return, Sync!Proceeds, Sync!Idle
<1>4. Through!Environment <=> Sync!Environment
  BY Zenon DEF Through!Environment, Through!Deadline, Through!Expire, Through!EvictEntry, Through!Evict, Through!Clear,
         Through!CacheDelete, Through!backends, Through!load,
         Sync!Environment, Sync!Deadline, Sync!Expire, Sync!EvictEntry, Sync!Evict, Sync!Clear, Sync!CacheDelete, Sync!backends, Sync!load
<1>5. Through!Over <=> Sync!Over
  BY Zenon DEF Through!Over, Through!RunOver, Through!Idle, Through!vars, Sync!Over, Sync!RunOver, Sync!Idle, Sync!vars
<1>6. Through!Next => Sync!SyncNext
  <2>1. ASSUME NEW w \in Workers, Through!WorkerStep(w)
        PROVE  Sync!ReadStep(w) \/ Sync!WriteStart(w) \/ Sync!Settles(w)
    BY <1>1, <1>2, <1>3, <2>1, Zenon DEF Through!WorkerStep
  <2> QED
    BY <1>4, <1>5, <2>1, Zenon DEF Through!Next, Sync!SyncNext
<1> QED
  BY <1>6 DEF Through!vars, Sync!vars

----------------------------------------------------------------------------
(* What the counters and the reports are, through all runs.                *)

\* A step of a strategy counts at most one DB call and one operation.
LEMMA SyncCounts ==
    ASSUME calls \in Nat, Counted, Lazy!Next \/ Through!Next
    PROVE  calls' \in Nat /\ Counted'
<1>1. [Sync!SyncNext]_(Sync!vars)
  BY LazyIsSync, ThroughIsSync
<1>2. (Sync!Counted <=> Counted) /\ (Sync!Counted' <=> Counted')
  BY DEF Sync!Counted, Sync!Counters, Counted, Counters
<1>3. calls' \in Nat /\ Sync!Counted'
  BY <1>1, <1>2, Sync!StepCounts, BackendAssumption, LoadAssumption, WorkersFinite
<1> QED
  BY <1>2, <1>3

LEMMA WriteBackCounts ==
    ASSUME calls \in Nat, Counted, Next
    PROVE  calls' \in Nat /\ Counted'
<1> DEFINE Still == calls' = calls /\ metrics' = metrics
           Calling == calls' = calls + 1 /\ metrics' = metrics
           Counting(hit) == /\ calls' \in {calls, calls + 1}
                            /\ RecordRead(hit) \/ RecordWrite
<1>1. ASSUME NEW w \in Workers, ReadError(w) PROVE Still
  BY <1>1 DEF ReadError, backends
<1>2. ASSUME NEW w \in Workers, CheckDirty(w) PROVE Still
  BY <1>2 DEF CheckDirty, backends
<1>3. ASSUME NEW w \in Workers, Fetch(w) PROVE Calling
  BY <1>3 DEF Fetch, DBGet
<1>4. ASSUME NEW w \in Workers, FetchFails(w) PROVE Calling
  BY <1>4 DEF FetchFails, DBGet
<1>5. ASSUME NEW w \in Workers, Backfill(w) PROVE Counting(FALSE)
  <2>1. calls' \in {calls, calls + 1}
    BY <1>5 DEF Backfill, backends
  <2>2. RecordRead(FALSE)
    BY <1>5, Zenon DEF Backfill
  <2> QED
    BY <2>1, <2>2, Zenon
<1>6. ASSUME NEW w \in Workers, MarkDirty(w) PROVE Still
  BY <1>6 DEF MarkDirty, backends
<1>7. ASSUME NEW w \in Workers, PublishPending(w) PROVE Counting(TRUE)
  <2>1. calls' \in {calls, calls + 1}
    BY <1>7 DEF PublishPending, backends
  <2>2. RecordWrite
    BY <1>7, Zenon DEF PublishPending
  <2> QED
    BY <2>1, <2>2, Zenon
<1>8. ASSUME NEW w \in Workers, NEW k \in Keys, ReadHit(w, k) PROVE Counting(TRUE)
  <2>1. calls' \in {calls, calls + 1}
    BY <1>8 DEF ReadHit, backends
  <2>2. RecordRead(TRUE)
    BY <1>8, Zenon DEF ReadHit
  <2> QED
    BY <2>1, <2>2, Zenon
<1>9. ASSUME NEW w \in Workers, NEW k \in Keys, ReadMiss(w, k) PROVE Still
  BY <1>9 DEF ReadMiss, backends
<1>10. ASSUME NEW w \in Workers, NEW k \in Keys, WriteCache(w, k) PROVE Still
  BY <1>10 DEF WriteCache
<1>11. ASSUME NEW w \in Workers, NEW k \in Keys, WriteCacheFails(w, k) PROVE Still
  BY <1>11 DEF WriteCacheFails
<1>12. ASSUME NEW f \in Flushers, NEW k \in Keys, FlushEntry(f, k) PROVE Calling
  BY <1>12 DEF FlushEntry, DBSet
<1>13. ASSUME NEW f \in Flushers, NEW k \in Keys, FlushEntryFails(f, k) PROVE Calling
  BY <1>13 DEF FlushEntryFails, DBSetLost
<1>14. ASSUME NEW k \in Keys, EvictEntry(k) PROVE Still
  BY <1>14 DEF EvictEntry, Evict
<1>15. ASSUME Tick PROVE Still
  BY <1>15 DEF Tick, backends
<1>16. ASSUME TickDone PROVE Still
  BY <1>16 DEF TickDone, backends
<1>17. ASSUME FlusherExit PROVE Still
  BY <1>17 DEF FlusherExit, backends
<1>18. ASSUME CloseStopCh PROVE Still
  BY <1>18 DEF CloseStopCh, backends
<1>19. ASSUME Drain PROVE Still
  BY <1>19 DEF Drain, backends
<1>20. ASSUME Drained PROVE Still
  BY <1>20 DEF Drained, backends
<1>21. ASSUME Deadline PROVE Still
  BY <1>21 DEF Deadline, backends, Expire
<1>22. ASSUME Over PROVE Still
  BY <1>22 DEF Over, backends, vars
<1>23. Still \/ Calling \/ Counting(TRUE) \/ Counting(FALSE)
  <2> HIDE DEF Still, Calling, Counting
  <2> QED
    BY <1>1, <1>2, <1>3, <1>4, <1>5, <1>6, <1>7, <1>8, <1>9, <1>10, <1>11, <1>12, <1>13, <1>14, <1>15, <1>16, <1>17, <1>18, <1>19, <1>20, <1>21, <1>22, Zenon DEF Next, Start, Continue, FlushStep, StopStep
<1>24. ASSUME NEW hit \in BOOLEAN, Counting(hit)
      PROVE  calls' \in Nat /\ Counted'
  <2>1. Counted'
    BY <1>24, RecordCounted
  <2> QED
    BY <1>24, <2>1
<1>25. TRUE \in BOOLEAN /\ FALSE \in BOOLEAN
  OBVIOUS
<1>26. Still \/ Calling => calls' \in Nat /\ Counted'
  BY DEF Counted
<1> HIDE DEF Still, Calling, Counting
<1> QED
  BY <1>23, <1>24, <1>25, <1>26

Numbers == calls \in Nat /\ Counted /\ reports \in Seq(Report)

LEMMA MeasuredType == ASSUME Numbers PROVE Measured \in Report
<1>1. Len(reports) \in Nat
  BY LenProperties DEF Numbers
<1>2. PICK n \in Nat : n = Len(reports)
  BY <1>1
<1>3. Strategy \in {"Lazy Loading", "Write-Through", "Write-Back"}
  <2>1. (n % 3) + 1 \in 1 .. 3
    BY <1>2
  <2>2. \A i \in 1 .. 3 : Strategies[i] \in {"Lazy Loading", "Write-Through", "Write-Back"}
    <3>1. /\ Strategies[1] = "Lazy Loading" /\ Strategies[2] = "Write-Through"
          /\ Strategies[3] = "Write-Back"
      BY DEF Strategies
    <3>2. \A i \in 1 .. 3 : i = 1 \/ i = 2 \/ i = 3
      OBVIOUS
    <3> QED
      BY <3>1, <3>2
  <2> QED
    BY <1>2, <2>1, <2>2, Zenon DEF Strategy
<1>4. Scenario \in Nat
  <2>1. (n \div 3) + 1 \in Nat
    BY <1>2
  <2> QED
    BY <1>2, <2>1, Zenon DEF Scenario
<1>5. /\ metrics.hits \in Nat /\ metrics.misses \in Nat
      /\ metrics.reads + metrics.writes \in Nat
  BY DEF Numbers, Counted, Counters
<1> HIDE DEF Strategy, Scenario
<1> QED
  BY <1>3, <1>4, <1>5 DEF Measured, Numbers, Report

LEMMA NumbersInit == BenchInit => Numbers
<1>1. <<>> \in Seq(Report)
  BY EmptySeq
<1>2. BenchInit => calls = 0 /\ Counted
  BY DEF BenchInit, Counted, Counters
<1> QED
  BY <1>1, <1>2 DEF BenchInit, Numbers

LEMMA NumbersStep == Numbers /\ [BenchNext]_benchVars => Numbers'
<1> SUFFICES ASSUME Numbers, [BenchNext]_benchVars PROVE Numbers'
  OBVIOUS
<1>1. CASE Step
  <2>1. reports' = reports
    BY <1>1 DEF Step
  <2>2. Lazy!Next \/ Through!Next \/ Next
    BY <1>1, Zenon DEF Step
  <2>3. calls' \in Nat /\ Counted'
    BY <2>2, SyncCounts, WriteBackCounts DEF Numbers
  <2> QED
    BY <2>1, <2>3 DEF Numbers
<1>2. CASE EndRun
  <2>1. reports' \in Seq(Report)
    <3>1. reports' = Append(reports, Measured)
      BY <1>2 DEF EndRun
    <3> QED
      BY <3>1, MeasuredType, AppendProperties DEF Numbers
  <2>2. CASE UNCHANGED <<vars, failed, suspect, inherited>>
    BY <2>1, <2>2 DEF Numbers, Counted, vars
  <2>3. CASE Reset /\ NewRun
    <3>1. calls' = 0 /\ metrics' = [reads |-> 0, writes |-> 0, hits |-> 0, misses |-> 0]
      BY <2>3 DEF Reset, NewRun
    <3>2. calls' \in Nat /\ Counted'
      BY <3>1 DEF Counted, Counters
    <3> QED
      BY <2>1, <3>2 DEF Numbers
  <2>4. UNCHANGED <<vars, failed, suspect, inherited>> \/ (Reset /\ NewRun)
    BY <1>2, Zenon DEF EndRun
  <2> QED
    BY <2>2, <2>3, <2>4
<1>3. CASE BenchOver \/ UNCHANGED benchVars
  BY <1>3 DEF BenchOver, benchVars, vars, Numbers, Counted
<1> QED
  BY <1>1, <1>2, <1>3 DEF BenchNext

\* The counter and the metrics are numbers in every run, and so are the
\* figures of every report taken from them.
THEOREM ReportsTyped == BenchSpec => []Numbers
  BY NumbersInit, NumbersStep, PTL DEF BenchSpec

\* Every scenario the reports name has a group, and the group its winners.
LEMMA WinnersOfNumbers == Numbers => WinnersHonest
<1> SUFFICES ASSUME Numbers, NEW sc \in {r.scenario : r \in ToSet(reports)}
             PROVE  Honest(OfScenario(reports, sc))
  BY Zenon DEF WinnersHonest
<1>1. PICK r \in ToSet(reports) : sc = r.scenario
  OBVIOUS
<1>2. reports \in Seq(Report)
  BY DEF Numbers
<1>3. PICK i \in 1 .. Len(reports) : reports[i] = r
  <2>1. DOMAIN reports = 1 .. Len(reports)
    BY <1>2, LenProperties
  <2>2. \E i \in DOMAIN reports : reports[i] = r
    BY DEF ToSet
  <2> QED
    BY <2>1, <2>2
<1>4. OfScenario(reports, sc) \in Seq(Report) /\ OfScenario(reports, sc) # <<>>
  BY <1>1, <1>2, <1>3, GroupFound
<1> QED
  BY <1>4, GroupHonest

\* Whatever the runs measured and however often, in every scenario that has
\* reports the name printed for a metric is that of the first report nobody
\* beats, and the value beside it, which another loop computes, is its own.
THEOREM HonestWinners == BenchSpec => []WinnersHonest
  BY ReportsTyped, WinnersOfNumbers, PTL

----------------------------------------------------------------------------
(* The runs: what holds in one of a synchronous strategy, what in one of   *)
(* write-back, and that either holds where a run begins.                   *)

\* Entries that no earlier run left are explained by this one.
SyncRun ==
    /\ Sync!Base /\ Sync!DBCallsExplained
    /\ pend \in [Workers -> Nat]
    /\ \A k \in Keys \ inherited : Sync!EntryExplained(k)

\* The run found the rows of base, which are older than its own writes.
BackFrom(base) ==
    /\ RowsFrom(base) /\ ReadsFrom(base)
    /\ \A k \in Keys : Older(base[k])
    /\ \A k \in Keys \ inherited : EntryFrom(base, k)

BackRun ==
    /\ IInv /\ DBCallsBounded
    /\ \E base \in [Keys -> Values] : BackFrom(base)

RunBegins ==
    /\ cache \in [Keys -> MaybeValue] /\ inherited = KeysOf(cache)
    /\ db \in [Keys -> Values] /\ calls = 0
    /\ op = [w \in Workers |-> Idle] /\ looked = 0 /\ expired = FALSE
    /\ issued \in 0 .. MaxWrites /\ \A k \in Keys : db[k] <= issued
    /\ metrics = [reads |-> 0, writes |-> 0, hits |-> 0, misses |-> 0]
    /\ failed = 0 /\ suspect = {}
    /\ dirty = NoEntries /\ pendingWrites = 0 /\ pend \in [Workers -> Nat]
    /\ toFlush = [f \in Flushers |-> NoEntries]
    /\ flusher = "waiting" /\ stopper = "running"
    /\ rank = [v \in Values |-> 0]
    /\ accepted = [k \in Keys |-> 0] /\ acked = [k \in Keys |-> 0]
    /\ dropped = {} /\ refused = {}

LEMMA BenchBegins == BenchInit => RunBegins
<1> SUFFICES ASSUME BenchInit PROVE RunBegins
  OBVIOUS
<1> USE DEF BenchInit, NewWriteBack
<1>1. cache \in [Keys -> MaybeValue] /\ inherited = KeysOf(cache)
  <2>1. (0 .. issued) \cup {None} \subseteq MaybeValue
    BY BackendAssumption DEF MaybeValue, Values
  <2> QED
    BY <2>1
<1>2. db \in [Keys -> Values] /\ \A k \in Keys : db[k] = 0
  BY BackendAssumption DEF Values, Seeded
<1>3. issued \in 0 .. MaxWrites /\ \A k \in Keys : db[k] <= issued
  BY <1>2, BackendAssumption
<1>4. pend \in [Workers -> Nat]
  OBVIOUS
<1> QED
  BY <1>1, <1>2, <1>3, <1>4 DEF RunBegins

\* The load generator's part of it.
LEMMA LoadBegins ==
    ASSUME RunBegins
    PROVE  /\ issued \in 0 .. MaxWrites /\ looked \in 0 .. MaxReads
           /\ expired \in BOOLEAN /\ metrics \in Counters
<1>1. looked \in 0 .. MaxReads
  BY LoadAssumption DEF RunBegins
<1>2. metrics \in Counters
  <2>1. metrics = [reads |-> 0, writes |-> 0, hits |-> 0, misses |-> 0]
    BY DEF RunBegins
  <2> QED
    BY <2>1 DEF Counters
<1> QED
  BY <1>1, <1>2 DEF RunBegins

\* A run of a synchronous strategy begins well.
LEMMA SyncBegins == RunBegins => SyncRun
<1> SUFFICES ASSUME RunBegins PROVE SyncRun
  OBVIOUS
<1>1. \A w \in Workers : op[w] = Idle
  BY DEF RunBegins
<1>2. Sync!TypeOK
  <2>1. Sync!BackendTypeOK
    BY DEF RunBegins, Sync!BackendTypeOK, Sync!MaybeValue, Sync!Values, MaybeValue, Values
  <2>2. Sync!LoadTypeOK(Sync!Stages)
    <3>1. op \in [Workers -> Sync!Calls(Sync!Stages)]
      BY DEF RunBegins, Idle, Sync!Calls, Sync!Idle
    <3> QED
      BY <3>1, LoadBegins DEF Sync!LoadTypeOK, Counters
  <2> QED
    BY <2>1, <2>2 DEF RunBegins, Sync!TypeOK
<1>3. Sync!DBIssued /\ Sync!HoldsCommitted
  BY <1>1 DEF RunBegins, Sync!DBIssued, Sync!HoldsCommitted, Idle
<1>4. Sync!DBCallsExplained
  <2>1. Sync!Unrecorded = {}
    BY <1>1 DEF Sync!Unrecorded, Idle
  <2>2. Sync!Cardinality(Sync!Unrecorded) = 0
    BY <2>1, Sync!FS_EmptySet, BackendAssumption, LoadAssumption, WorkersFinite
  <2> QED
    BY <2>2 DEF RunBegins, Sync!DBCallsExplained
<1>5. \A k \in Keys \ inherited : Sync!EntryExplained(k)
  BY DEF RunBegins, KeysOf, Sync!EntryExplained
<1> QED
  BY <1>2, <1>3, <1>4, <1>5 DEF SyncRun, RunBegins, Sync!Base

\* So does a run of write-back: what the run finds in the DB are the rows.
LEMMA BackBegins == RunBegins => BackRun
<1> SUFFICES ASSUME RunBegins PROVE BackRun
  OBVIOUS
<1>1. \A w \in Workers : op[w] = Idle
  BY DEF RunBegins
<1>2. \A w \in Workers : op[w].at = "idle"
  BY <1>1 DEF Idle
<1>3. \A v \in Values : rank[v] = 0
  BY DEF RunBegins
<1>4. \A k \in Keys : db[k] \in Values
  BY DEF RunBegins
<1>5. TypeOK
  <2>1. BackendTypeOK
    BY DEF RunBegins, BackendTypeOK
  <2>2. LoadTypeOK(Stages)
    <3>1. op \in [Workers -> Calls(Stages)]
      BY DEF RunBegins, Calls
    <3> QED
      BY <3>1, LoadBegins DEF LoadTypeOK, Counters
  <2>3. FlushTypeOK
    BY DEF RunBegins, FlushTypeOK, NoEntries, MaybeValue
  <2>4. HistoryTypeOK
    BY DEF RunBegins, HistoryTypeOK
  <2> QED
    BY <2>1, <2>2, <2>3, <2>4, TypeParts
<1>6. Carried /\ RankedLate /\ Unmarked
  <2>1. Seeded \in Values
    BY BackendAssumption DEF Values, Seeded
  <2> QED
    BY <1>2, <1>3, <2>1 DEF Carried, RankedLate, Unmarked, At
<1>7. \A k \in Keys : DBRank(k) = 0 /\ accepted[k] = 0 /\ dirty[k] = None
                      /\ \A f \in Flushers : toFlush[f][k] = None
  BY <1>3, <1>4 DEF RunBegins, NoEntries, DBRank
<1>8. DBBehind /\ DirtyNewest /\ BatchBetween /\ NothingLost
  BY <1>7 DEF DBBehind, DirtyNewest, BatchBetween, NothingLost
<1>9. Phases
  BY <1>7 DEF RunBegins, Phases, Flushers
<1>10. \A k \in Keys : Older(db[k])
  <2>1. issued \in Nat /\ \A k \in Keys : db[k] \in Nat /\ db[k] <= issued
    <3>1. /\ issued \in 0 .. MaxWrites /\ MaxWrites \in Nat
          /\ \A k \in Keys : db[k] <= issued
      BY BackendAssumption DEF RunBegins
    <3> QED
      BY <1>4, <3>1 DEF Values
  <2>2. \A v \in Values : ~(rank[v] > 0)
    BY <1>3
  <2>3. \A w \in Workers : ~At(w, "mark")
    BY <1>2 DEF At
  <2>4. ASSUME NEW k \in Keys PROVE db[k] \in 0 .. issued
    <3>1. db[k] \in Nat /\ issued \in Nat /\ db[k] <= issued
      BY <2>1
    <3>2. PICK a, b : a = db[k] /\ b = issued
      OBVIOUS
    <3> QED
      BY <3>1, <3>2
  <2> QED
    BY <2>2, <2>3, <2>4, Zenon DEF Older
<1>11. RowsKnown
  BY <1>10 DEF RowsKnown
<1>12. DBCallsBounded
  BY <1>5, UntouchedBounded DEF RunBegins, Untouched
<1>13. \E base \in [Keys -> Values] : BackFrom(base)
  <2>1. PICK base \in [Keys -> Values] : base = db
    BY DEF RunBegins
  <2>2. RowsFrom(base) /\ ReadsFrom(base)
    BY <1>2, <2>1 DEF RowsFrom, ReadsFrom, Known
  <2>3. \A k \in Keys \ inherited : EntryFrom(base, k)
    BY DEF RunBegins, KeysOf, EntryFrom
  <2>4. BackFrom(base)
    BY <1>10, <2>1, <2>2, <2>3 DEF BackFrom
  <2> QED
    BY <2>4
<1> QED
  BY <1>5, <1>6, <1>8, <1>9, <1>11, <1>12, <1>13 DEF BackRun, IInv, Order

\* Either holds where the next run begins.
LEMMA NextBegins == RunBegins' => SyncRun' /\ BackRun'
  BY SyncBegins, BackBegins, PTL

----------------------------------------------------------------------------
(* A step of a run, and its end.                                           *)

\* An entry that changes is of this run.
Inherits == inherited' = {k \in inherited : cache'[k] = cache[k]}

LEMMA SyncRunStep ==
    ASSUME SyncRun, [Sync!SyncNext]_(Sync!vars), UNCHANGED pend, Inherits
    PROVE  SyncRun'
<1>1. Sync!Base' /\ Sync!Coherent
  BY Sync!StepCoherent, BackendAssumption, LoadAssumption, WorkersFinite DEF SyncRun
<1>2. Sync!DBCallsExplained'
  BY Sync!StepExplained, BackendAssumption, LoadAssumption, WorkersFinite DEF SyncRun
<1>3. ASSUME NEW k \in Keys, k \notin inherited'
      PROVE  Sync!EntryExplained(k)'
  <2>1. Sync!EntryExplained(k) \/ cache'[k] # cache[k]
    BY <1>3 DEF SyncRun, Inherits
  <2> QED
    BY <1>1, <2>1 DEF Sync!Coherent
<1> QED
  BY <1>1, <1>2, <1>3 DEF SyncRun

LEMMA BackRunStep ==
    ASSUME BackRun, [Next]_vars, Inherits
    PROVE  BackRun'
<1>1. PICK base \in [Keys -> Values] : BackFrom(base)
  BY DEF BackRun
<1>2. IInv' /\ DBCallsBounded'
  <2>1. IInv'
    BY StepSafe DEF BackRun
  <2>2. TypeOK'
    BY <2>1 DEF IInv
  <2> QED
    BY <2>1, <2>2, StepBounded DEF BackRun
<1>3. RowsFrom(base)' /\ ReadsFrom(base)'
  BY <1>1, RowsFromStep, ReadsStep DEF BackRun, BackFrom
<1>4. ASSUME NEW k \in Keys PROVE Older(base[k])'
  <2>1. PICK v : v = base[k]
    OBVIOUS
  <2>2. OlderNext(v)
    BY <1>1, <2>1, OlderStays DEF BackRun, BackFrom
  <2> QED
    BY <2>1, <2>2 DEF OlderNext, Older, At
<1>5. ASSUME NEW k \in Keys, k \notin inherited'
      PROVE  EntryFrom(base, k)'
  <2>1. EntryFrom(base, k) \/ cache'[k] # cache[k]
    BY <1>1, <1>5 DEF BackFrom, Inherits
  <2> QED
    BY <1>1, <2>1, CacheStep DEF BackRun, BackFrom
<1>6. BackFrom(base)'
  BY <1>3, <1>4, <1>5 DEF BackFrom
<1> QED
  BY <1>1, <1>2, <1>6 DEF BackRun

\* What a run leaves to the next one: nobody is in a call, and the values of
\* the rows have been issued.
HandsOver ==
    /\ cache \in [Keys -> MaybeValue] /\ db \in [Keys -> Values]
    /\ op = [w \in Workers |-> Idle] /\ pend \in [Workers -> Nat]
    /\ issued \in 0 .. MaxWrites /\ \A k \in Keys : db[k] <= issued

LEMMA SyncEnds == ASSUME SyncRun, RunOver PROVE HandsOver
<1>1. Sync!TypeOK /\ Sync!DBIssued /\ pend \in [Workers -> Nat]
  BY DEF SyncRun, Sync!Base
<1>2. /\ cache \in [Keys -> MaybeValue] /\ db \in [Keys -> Values]
      /\ issued \in 0 .. MaxWrites
  BY <1>1 DEF Sync!TypeOK, Sync!BackendTypeOK, Sync!LoadTypeOK, Sync!MaybeValue, Sync!Values, MaybeValue, Values
<1>3. op = [w \in Workers |-> Idle]
  BY <1>1 DEF Sync!TypeOK, Sync!LoadTypeOK, RunOver
<1> QED
  BY <1>1, <1>2, <1>3 DEF HandsOver, Sync!DBIssued

LEMMA BackEnds == ASSUME BackRun, stopper = "stopped" PROVE HandsOver
<1>1. /\ TypeOK /\ RankedLate /\ Phases /\ RowsKnown
  BY DEF BackRun, IInv, Order
<1>2. RunOver
  BY <1>1 DEF Phases
<1>3. /\ cache \in [Keys -> MaybeValue] /\ db \in [Keys -> Values]
      /\ issued \in 0 .. MaxWrites /\ pend \in [Workers -> Nat]
      /\ op = [w \in Workers |-> Idle]
  BY <1>1, <1>2 DEF TypeOK, BackendTypeOK, LoadTypeOK, RunOver
<1>4. ASSUME NEW k \in Keys PROVE db[k] <= issued
  <2>1. db[k] \in Values /\ issued \in Nat /\ db[k] \in Nat
    BY <1>3, BackendAssumption DEF Values
  <2>2. rank[db[k]] > 0 \/ db[k] \in 0 .. issued
    BY <1>1 DEF RowsKnown, Older, DBRank
  <2>3. db[k] > issued => rank[db[k]] = 0
    BY <1>1, <2>1 DEF RankedLate
  <2> QED
    BY <2>1, <2>2, <2>3
<1> QED
  BY <1>3, <1>4 DEF HandsOver

\* The reset begins a run, whether FlushAll gets through or not.
LEMMA ResetBegins == ASSUME HandsOver, Reset, NewRun PROVE RunBegins'
<1>1. cache' \in [Keys -> MaybeValue]
  BY DEF HandsOver, Reset, FlushAll, CacheUnreached, NoEntries, MaybeValue
<1>2. inherited' = KeysOf(cache')
  BY DEF Reset
<1>3. UNCHANGED <<op, issued, pend, db>>
  BY DEF NewRun
<1>4. KeysOf(cache)' = KeysOf(cache')
  BY DEF KeysOf
<1> QED
  BY <1>1, <1>2, <1>3, <1>4 DEF HandsOver, Reset, NewRun, RunBegins, NoEntries

----------------------------------------------------------------------------
(* The invariant of the benchmark.                                         *)

RunOf == IF Synchronous THEN SyncRun ELSE BackRun

BenchIInv == Numbers /\ (~Finished => RunOf)

\* A step is one of the strategy under test.
LEMMA StepOfRun ==
    ASSUME Step
    PROVE  /\ ~Finished /\ Inherits
           /\ \/ Synchronous /\ [Sync!SyncNext]_(Sync!vars) /\ UNCHANGED pend
              \/ ~Synchronous /\ Next
<1>1. CASE Strategy = "Lazy Loading" /\ Lazy!Next /\ UNCHANGED <<wbState, history>>
  <2>1. Synchronous
    BY <1>1 DEF Synchronous
  <2>2. [Sync!SyncNext]_(Sync!vars)
    BY <1>1, LazyIsSync
  <2>3. UNCHANGED pend
    BY <1>1 DEF wbState
  <2> QED
    BY <2>1, <2>2, <2>3, Zenon DEF Step, Inherits
<1>2. CASE Strategy = "Write-Through" /\ Through!Next /\ UNCHANGED <<wbState, history>>
  <2>1. Synchronous
    BY <1>2 DEF Synchronous
  <2>2. [Sync!SyncNext]_(Sync!vars)
    BY <1>2, ThroughIsSync
  <2>3. UNCHANGED pend
    BY <1>2 DEF wbState
  <2> QED
    BY <2>1, <2>2, <2>3, Zenon DEF Step, Inherits
<1>3. CASE Strategy = "Write-Back" /\ Next
  BY <1>3, Zenon DEF Step, Synchronous, Inherits
<1> QED
  BY <1>1, <1>2, <1>3, Zenon DEF Step

\* The strategy is that of the number of reports.
LEMMA SameRun ==
    ASSUME reports' = reports
    PROVE  (Synchronous' <=> Synchronous) /\ (Finished' <=> Finished)
BY Zenon DEF Synchronous, Strategy, Finished

LEMMA RunStep ==
    ASSUME BenchIInv, Step
    PROVE  RunOf'
<1>1. reports' = reports
  BY DEF Step
<1>2. (Synchronous' <=> Synchronous) /\ ~Finished /\ Inherits
  BY <1>1, SameRun, StepOfRun
<1>3. CASE Synchronous
  <2>1. SyncRun'
    BY <1>2, <1>3, StepOfRun, SyncRunStep DEF BenchIInv, RunOf
  <2> QED
    BY <1>2, <1>3, <2>1 DEF RunOf
<1>4. CASE ~Synchronous
  <2>1. BackRun'
    BY <1>2, <1>4, StepOfRun, BackRunStep DEF BenchIInv, RunOf
  <2> QED
    BY <1>2, <1>4, <2>1 DEF RunOf
<1> QED
  BY <1>3, <1>4

LEMMA RunEnds ==
    ASSUME BenchIInv, EndRun
    PROVE  ~Finished' => RunOf'
<1>1. ~Finished /\ Returned
  BY DEF EndRun
<1>2. HandsOver
  <2>1. CASE Synchronous
    BY <1>1, <2>1, SyncEnds DEF BenchIInv, RunOf, Returned
  <2>2. CASE ~Synchronous
    BY <1>1, <2>2, BackEnds DEF BenchIInv, RunOf, Returned
  <2> QED
    BY <2>1, <2>2
<1>3. Finished' \/ (Reset /\ NewRun)
  BY Zenon DEF EndRun, Finished
<1>4. CASE Reset /\ NewRun
  BY <1>2, <1>4, ResetBegins, NextBegins DEF RunOf
<1> QED
  BY <1>3, <1>4

LEMMA RunStutters ==
    ASSUME BenchIInv, UNCHANGED benchVars
    PROVE  ~Finished' => RunOf'
<1>1. UNCHANGED <<vars, failed, suspect, reports, inherited, pend>>
  BY DEF benchVars, vars, wbState
<1>2. (Synchronous' <=> Synchronous) /\ (Finished' <=> Finished)
  BY <1>1, SameRun
<1>3. Inherits
  BY <1>1 DEF Inherits, vars
<1>4. UNCHANGED Sync!vars
  BY <1>1 DEF vars, Sync!vars
<1> QED
  BY <1>1, <1>2, <1>3, <1>4, SyncRunStep, BackRunStep DEF BenchIInv, RunOf

\* The invariant is inductive.
THEOREM BenchInvariance == BenchSpec => []BenchIInv
<1>1. BenchInit => BenchIInv
  BY NumbersInit, BenchBegins, SyncBegins, BackBegins DEF BenchIInv, RunOf
<1>2. ASSUME BenchIInv, [BenchNext]_benchVars PROVE BenchIInv'
  <2>1. Numbers'
    BY <1>2, NumbersStep DEF BenchIInv
  <2>2. ~Finished' => RunOf'
    BY <1>2, RunStep, RunEnds, RunStutters DEF BenchNext, BenchOver
  <2> QED
    BY <2>1, <2>2 DEF BenchIInv
<1> QED
  BY <1>1, <1>2, PTL DEF BenchSpec

\* Runs do not show each other's data: an entry that a failed FlushAll did
\* not leave is explained by the strategy under test.
THEOREM Isolation == BenchSpec => []InheritedOnly
<1>1. ASSUME BenchIInv PROVE InheritedOnly
  <2> SUFFICES ASSUME ~Finished, NEW k \in Keys, k \notin inherited, cache[k] # None
               PROVE  \/ Synchronous /\ cache[k] = db[k]
                      \/ /\ Synchronous /\ cache[k] < db[k]
                         /\ k \in suspect \/ Lazy!Settling(k)
                      \/ /\ ~Synchronous
                         /\ \/ cache[k] <= db[k]
                            \/ rank[cache[k]] > 0
                            \/ cache[k] \in MidWrite(k) \cup refused
    BY Zenon DEF InheritedOnly
  <2>1. CASE Synchronous
    <3>1. SyncRun
      BY <1>1, <2>1 DEF BenchIInv, RunOf
    <3>2. cache[k] \in Nat /\ db[k] \in Nat
      BY <3>1, BackendAssumption
         DEF SyncRun, Sync!Base, Sync!TypeOK, Sync!BackendTypeOK, Sync!MaybeValue, Sync!Values
    <3>3. Sync!EntryExplained(k)
      BY <3>1 DEF SyncRun
    <3>4. Sync!Settling(k) <=> Lazy!Settling(k)
      BY DEF Sync!Settling, Sync!At, Lazy!Settling, Lazy!At
    <3> QED
      BY <2>1, <3>2, <3>3, <3>4 DEF Sync!EntryExplained
  <2>2. CASE ~Synchronous
    <3>1. BackRun
      BY <1>1, <2>2 DEF BenchIInv, RunOf
    <3>2. PICK base \in [Keys -> Values] : BackFrom(base)
      BY <3>1 DEF BackRun
    <3>3. Known(base, k, cache[k]) \/ cache[k] \in MidWrite(k) \cup refused
      BY <3>2 DEF BackFrom, EntryFrom
    <3>4. base[k] <= db[k]
      <4>1. db[k] \in Values /\ base[k] \in Nat /\ db[k] \in Nat
        BY <3>1, <3>2, BackendAssumption DEF BackRun, IInv, TypeOK, BackendTypeOK, Values
      <4>2. db[k] = base[k] \/ rank[db[k]] > 0
        BY <3>2 DEF BackFrom, RowsFrom, Known
      <4>3. rank[db[k]] > 0 => base[k] < db[k]
        BY <3>2, <4>1 DEF BackFrom, Older
      <4> QED
        BY <4>1, <4>2, <4>3
    <3> QED
      BY <2>2, <3>3, <3>4 DEF Known
  <2> QED
    BY <2>1, <2>2
<1> QED
  BY <1>1, BenchInvariance, PTL

\* What a report shows is its own run's: a synchronous strategy's DB calls
\* are its misses, writes and failures, and write-back, stopped, has made no
\* more than it was asked for and owes nothing.
THEOREM OwnFigures == BenchSpec => ReportsExplained
<1> DEFINE Explains ==
        reports' # reports =>
            LET r == Last(reports') IN
            IF Synchronous
            THEN r.calls = r.ops - r.hits + failed
            ELSE /\ r.calls <= looked + Cardinality(Accepted)
                 /\ \A k \in Keys : DBRank(k) = accepted[k] \/ k \in dropped
<1>1. ASSUME BenchIInv, EndRun PROVE Explains
  <2>1. ~Finished /\ Returned /\ reports' = Append(reports, Measured)
    BY <1>1 DEF EndRun
  <2>2. PICK r : r = Measured
    OBVIOUS
  <2>3. Last(reports') = r
    <3>1. reports \in Seq(Report) /\ r \in Report
      BY <1>1, <2>2, MeasuredType DEF BenchIInv, Numbers
    <3> QED
      BY <2>1, <2>2, <3>1, AppendProperties DEF Last
  <2>4. r.calls = calls /\ r.ops = metrics.reads + metrics.writes /\ r.hits = metrics.hits
    BY <2>2 DEF Measured
  <2>5. CASE Synchronous
    <3>1. SyncRun /\ RunOver
      BY <1>1, <2>1, <2>5 DEF BenchIInv, RunOf, Returned
    <3>2. Sync!Unrecorded = {}
      BY <3>1 DEF RunOver, Sync!Unrecorded, Idle
    <3>3. Sync!Cardinality(Sync!Unrecorded) = 0
      BY <3>2, Sync!FS_EmptySet, BackendAssumption, LoadAssumption, WorkersFinite
    <3>4. calls = metrics.misses + metrics.writes + failed
      <4>1. failed \in Nat /\ metrics.misses \in Nat /\ metrics.writes \in Nat
        BY <1>1, <3>1 DEF SyncRun, Sync!Base, Sync!TypeOK, BenchIInv, Numbers, Counted, Counters
      <4> QED
        BY <3>1, <3>3, <4>1 DEF SyncRun, Sync!DBCallsExplained
    <3>5. /\ metrics.reads = metrics.hits + metrics.misses /\ metrics.hits \in Nat
          /\ metrics.misses \in Nat /\ metrics.writes \in Nat
      BY <1>1 DEF BenchIInv, Numbers, Counted, Counters
    <3>6. r.calls = r.ops - r.hits + failed
      BY <2>4, <3>4, <3>5, <3>1 DEF SyncRun, Sync!Base, Sync!TypeOK
    <3> QED
      BY <2>3, <2>5, <3>6
  <2>6. CASE ~Synchronous
    <3>1. BackRun /\ stopper = "stopped"
      BY <1>1, <2>1, <2>6 DEF BenchIInv, RunOf, Returned
    <3>2. r.calls <= looked + Cardinality(Accepted)
      <4>1. TypeOK /\ DBCallsBounded
        BY <3>1 DEF BackRun, IInv
      <4> QED
        BY <2>4, <4>1, Finite, BoundParts
    <3>3. \A k \in Keys : DBRank(k) = accepted[k] \/ k \in dropped
      BY <3>1 DEF BackRun, IInv, NothingLost
    <3> QED
      BY <2>3, <2>6, <3>2, <3>3
  <2> QED
    BY <2>5, <2>6
<1>2. ASSUME Step \/ BenchOver \/ UNCHANGED benchVars PROVE reports' = reports
  BY <1>2 DEF Step, BenchOver, benchVars
<1>3. BenchIInv /\ [BenchNext]_benchVars => [Explains]_benchVars
  <2> HIDE DEF Explains
  <2>1. ASSUME reports' = reports PROVE Explains
    BY <2>1 DEF Explains
  <2> QED
    BY <1>1, <1>2, <2>1, Zenon DEF BenchNext
<1> QED
  BY <1>3, BenchInvariance, PTL DEF BenchSpec, ReportsExplained
=============================================================================
