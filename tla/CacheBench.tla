----------------------------- MODULE CacheBench -----------------------------
(***************************************************************************)
(* The benchmark of cmd/main.go: the three strategies one after the other, *)
(* scenario after scenario, over the same Redis and PostgreSQL, with reset *)
(* before each run and a report after it.  A run is a run of WriteBack, or *)
(* of LazyLoading or WriteThrough over the same stores and workers.        *)
(*                                                                         *)
(* Values are numbered through all runs.                                   *)
(***************************************************************************)
EXTENDS WriteBack, Conclusions

CONSTANT Runs     \* bound: runs in a row (three per scenario)

ASSUME RunsAssumption == Runs \in Nat

VARIABLES
    failed, suspect,   \* history of LazyLoading and WriteThrough
    reports,           \* one per finished run
    inherited          \* history: keys whose entry an earlier run, or an
                       \* earlier process, left

Lazy    == INSTANCE LazyLoading
Through == INSTANCE WriteThrough

benchVars == <<vars, failed, suspect, reports, inherited>>

Strategies == <<"Lazy Loading", "Write-Through", "Write-Back">>

Strategy == Strategies[(Len(reports) % 3) + 1]
Scenario == (Len(reports) \div 3) + 1
Synchronous == Strategy # "Write-Back"
Finished == Len(reports) = Runs

\* The rows are seeded.  Redis may still hold what an earlier process left
\* there, whose values are numbered first, if the first FlushAll fails.
BenchInit ==
    /\ issued \in 0 .. MaxWrites
    /\ cache \in [Keys -> (0 .. issued) \cup {None}]
    /\ cache # NoEntries => "cache" \in Faults
    /\ db = [k \in Keys |-> Seeded] /\ calls = 0
    /\ op = [w \in Workers |-> Idle] /\ looked = 0 /\ expired = FALSE
    /\ metrics = [reads |-> 0, writes |-> 0, hits |-> 0, misses |-> 0]
    /\ NewWriteBack
    /\ failed = 0 /\ suspect = {}
    /\ reports = <<>> /\ inherited = KeysOf(cache)

----------------------------------------------------------------------------
\* One step of the strategy under test; an entry that changes is no longer
\* the inherited one.
Step ==
    /\ ~Finished
    /\ \/ /\ Strategy = "Lazy Loading"
          /\ Lazy!Next /\ UNCHANGED <<wbState, history>>
       \/ /\ Strategy = "Write-Through"
          /\ Through!Next /\ UNCHANGED <<wbState, history>>
       \/ /\ Strategy = "Write-Back"
          /\ Next /\ UNCHANGED <<failed, suspect>>
    /\ inherited' = {k \in inherited : cache'[k] = cache[k]}
    /\ UNCHANGED reports

Measured ==
    [strategy |-> Strategy, scenario |-> Scenario, calls |-> calls,
     hits |-> metrics.hits, misses |-> metrics.misses,
     ops |-> metrics.reads + metrics.writes]

\* loadgen.Run, and for write-back Stop too, have returned.
Returned == IF Synchronous THEN RunOver ELSE stopper = "stopped"

\* FlushAll failed: logged, and the run starts with what is there.
FlushAll ==
    \/ cache' = NoEntries
    \/ CacheUnreached

\* New metrics, a new strategy, its goroutine started, and the workers again.
NewRun ==
    /\ expired' = FALSE /\ looked' = 0
    /\ metrics' = [reads |-> 0, writes |-> 0, hits |-> 0, misses |-> 0]
    /\ failed' = 0 /\ suspect' = {}
    /\ dirty' = NoEntries /\ pendingWrites' = 0
    /\ toFlush' = [f \in Flushers |-> NoEntries]
    /\ flusher' = "waiting" /\ stopper' = "running"
    /\ rank' = [v \in Values |-> 0]
    /\ accepted' = [k \in Keys |-> 0] /\ acked' = [k \in Keys |-> 0]
    /\ dropped' = {} /\ refused' = {}
    /\ UNCHANGED <<op, issued, pend, db>>

\* Seeded fault: FlushAll is forgotten.
ResetUnflushed ==
    /\ UNCHANGED cache
    /\ calls' = 0
    /\ inherited' = {}

\* Seeded fault: ResetCallCount is forgotten.
ResetUncounted ==
    /\ FlushAll
    /\ UNCHANGED calls
    /\ inherited' = KeysOf(cache')

Reset ==
    /\ FlushAll
    /\ calls' = 0
    /\ inherited' = KeysOf(cache')

EndRun ==
    /\ ~Finished /\ Returned
    /\ reports' = Append(reports, Measured)
    /\ IF Len(reports') = Runs
       THEN UNCHANGED <<vars, failed, suspect, inherited>>
       ELSE Reset /\ NewRun

BenchOver == Finished /\ UNCHANGED benchVars

BenchNext == Step \/ EndRun \/ BenchOver

BenchSpec == BenchInit /\ [][BenchNext]_benchVars

----------------------------------------------------------------------------
\* A report shows the DB calls of its own run and no others.  A synchronous
\* strategy makes one per miss, one per write and the failed ones.
\* Write-back makes at most one per Read and accepted Write, and has written
\* or been refused everything it owed before the counter is read.
ReportsExplained ==
    [][reports' # reports =>
        LET r == Last(reports') IN
        IF Synchronous
        THEN r.calls = r.ops - r.hits + failed
        ELSE /\ r.calls <= looked + Cardinality(Accepted)
             /\ \A k \in Keys : DBRank(k) = accepted[k] \/ k \in dropped
      ]_benchVars

\* The runs are isolated as far as reset succeeds: an entry is ahead of the
\* DB, or stale without a reason in this run, only if it was there before and
\* FlushAll failed.  (After the last run there is no strategy to ask.)
InheritedOnly ==
    ~Finished =>
        \A k \in Keys \ inherited :
            cache[k] # None =>
                \/ Synchronous /\ cache[k] = db[k]
                \/ /\ Synchronous /\ cache[k] < db[k]
                   /\ k \in suspect \/ Lazy!Settling(k)
                \/ /\ ~Synchronous
                   /\ \/ cache[k] <= db[k]
                      \/ rank[cache[k]] > 0
                      \/ cache[k] \in MidWrite(k) \cup refused

\* In every scenario the printed winners are the right ones.
WinnersHonest ==
    \A sc \in {r.scenario : r \in ToSet(reports)} :
        Honest(OfScenario(reports, sc))
=============================================================================
