----------------------------- MODULE Percentiles ----------------------------
(***************************************************************************)
(* The percentile both programs take of their latencies: the samples are   *)
(* sorted and indexed with int(n * 0.95) or int(n * 0.99).  A list of      *)
(* samples is a function from latencies to how often they occur.           *)
(***************************************************************************)
EXTENDS Integers, FiniteSets, Functions

\* What a list of latencies is.
Samples(samples) ==
    /\ IsFiniteSet(DOMAIN samples) /\ DOMAIN samples \subseteq Nat
    /\ samples \in [DOMAIN samples -> Nat]

\* Seeded fault: rounded like a nearest rank, but counted from zero.
IndexNearest(n, p) == IF (n * p) \div 100 = 0 THEN 0 ELSE (n * p) \div 100 - 1

\* int(float64(n) * p / 100), moved back into the list.
Index(n, p) == LET i == (n * p) \div 100 IN IF i >= n THEN n - 1 ELSE i

Size(samples) == SumFunction(samples)

AtMost(samples, v) == SumFunctionOnSet(samples, {l \in DOMAIN samples : l <= v})

\* sorted[Index]: the first latency by which more than Index samples are
\* passed.
Percentile(samples, p) ==
    CHOOSE v \in DOMAIN samples :
        /\ AtMost(samples, v) > Index(Size(samples), p)
        /\ \A l \in DOMAIN samples :
               AtMost(samples, l) > Index(Size(samples), p) => v <= l

\* At least p percent of the samples are no greater than the percentile, and
\* fewer than that are smaller, by more than the one sample the code rounds
\* up by when p percent is a whole number of samples.
Covers(samples, p) ==
    LET v == Percentile(samples, p) IN
    /\ 100 * AtMost(samples, v) >= p * Size(samples)
    /\ 100 * AtMost(samples, v - 1) <= p * Size(samples)
=============================================================================
