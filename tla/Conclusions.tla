---------------------------- MODULE Conclusions -----------------------------
(***************************************************************************)
(* What the console and the Markdown report conclude from the reports of   *)
(* one scenario: the winner of each metric and the value printed beside    *)
(* it.  Of the metrics, the two that do not depend on the clock.           *)
(***************************************************************************)
EXTENDS Integers, SequencesExt

\* The reports of a scenario, in the order in which they were taken.
OfScenario(reports, sc) ==
    FoldLeft(LAMBDA group, r : IF r.scenario = sc THEN Append(group, r) ELSE group,
             <<>>, reports)

\* CacheHitRate as a fraction; 0 when nothing was read.
Reads(r) == r.hits + r.misses
HitRate(r) == IF Reads(r) = 0 THEN <<0, 1>> ELSE <<r.hits, Reads(r)>>

Exceeds(p, q) == p[1] * q[2] > q[1] * p[2]

Metrics == {"DB calls", "hit rate"}

Value(metric, r) == IF metric = "DB calls" THEN r.calls ELSE HitRate(r)

Better(metric, a, b) ==
    IF metric = "DB calls" THEN a.calls < b.calls
                           ELSE Exceeds(HitRate(a), HitRate(b))

\* A later report wins only if it is strictly better.
BestBy(reps, metric) ==
    FoldLeft(LAMBDA best, r : IF Better(metric, r, best) THEN r ELSE best,
             Head(reps), Tail(reps))

\* Seeded fault: the running minimum starts at the zero value of int64.
MinIntFromZero(reps) ==
    FoldLeft(LAMBDA m, r : IF r.calls < m THEN r.calls ELSE m, 0, reps)

MinInt(reps) ==
    FoldLeft(LAMBDA m, r : IF r.calls < m THEN r.calls ELSE m,
             Head(reps).calls, Tail(reps))

MaxFloat(reps) ==
    FoldLeft(LAMBDA m, r : IF Exceeds(HitRate(r), m) THEN HitRate(r) ELSE m,
             HitRate(Head(reps)), Tail(reps))

\* A row of the winners' table: name and value, computed separately.
Winner(reps, metric) ==
    [name  |-> BestBy(reps, metric).strategy,
     value |-> IF metric = "DB calls" THEN MinInt(reps) ELSE MaxFloat(reps)]

\* Reference: the row names the first report that nobody in its scenario
\* beats, and the value beside the name is that report's own.
Honest(reps) ==
    \A metric \in Metrics :
        LET best == CHOOSE i \in DOMAIN reps :
                /\ \A j \in DOMAIN reps : ~Better(metric, reps[j], reps[i])
                /\ \A j \in 1 .. i - 1 : Better(metric, reps[i], reps[j])
        IN Winner(reps, metric) = [name  |-> reps[best].strategy,
                                   value |-> Value(metric, reps[best])]
=============================================================================
