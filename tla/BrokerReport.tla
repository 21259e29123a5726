---------------------------- MODULE BrokerReport ----------------------------
(***************************************************************************)
(* From the benchmark's result files to the report: a series of tests of   *)
(* one broker and message size at rising rates.  Each test leaves a file   *)
(* of its producer and one of its consumer; the report merges what it      *)
(* finds by the test's key and looks for the rate at which the broker      *)
(* degrades.                                                               *)
(*                                                                         *)
(* A producer's file holds its key; a consumer's key is read off the       *)
(* file's name, which the scripts write so that both agree.  Names made by *)
(* hand, whose numbers may not parse, are left out: their rows are under   *)
(* keys of no test.                                                        *)
(*                                                                         *)
(* Of a producer's figures the model keeps messages_sent, of a consumer's  *)
(* messages_received and p95_latency_ms; the others are copied in the same *)
(* way.                                                                    *)
(***************************************************************************)
EXTENDS Percentiles, SequencesExt

CONSTANTS
    Rates,      \* the number of rates tested, the slowest first
    Results,    \* what a test may have found, [sent, samples]: the messages
                \* sent, and the latencies measured in tenths of a
                \* millisecond, with how often each occurred
    OldResult,  \* what every test of an earlier run found
    MaxLosses,  \* bound: files that are not written in one run
    Glob,       \* the files in the order of their names: [rate, side]
    None        \* no file, no row

Tests == 1 .. Rates
Sides == {"producer", "consumer"}

ASSUME ReportAssumption ==
    /\ Rates \in Nat /\ MaxLosses \in Nat
    /\ Glob \in Seq([rate : Tests, side : Sides])
    /\ Range(Glob) = [rate : Tests, side : Sides]
    /\ Len(Glob) = 2 * Rates
    /\ None \notin [sent : Nat, received : Nat, p95 : Nat] \cup Results
    /\ \A r \in Results \cup {OldResult} : r.sent \in Nat /\ Samples(r.samples)

VARIABLES
    phase,      \* "scripts", "tests", "merging", "done"
    cleaned,    \* the scripts removed old results first
    measured,   \* [Tests -> Results or None]: what this run found
    losses,     \* files that were not written
    files,      \* [Tests -> [Sides -> contents or None]]
    next,       \* the next file of Glob to be merged
    rows        \* [Tests -> TestResult or None]: testMap

vars == <<phase, cleaned, measured, losses, files, next, rows>>

Broken == [unreadable |-> TRUE]      \* not a complete JSON object
NoRow  == [sent |-> 0, received |-> 0, p95 |-> 0]

\* time.Duration.Milliseconds
Milliseconds(l) == l \div 10

\* What the two processes write when they end.
ProducerStats(result) == [sent |-> result.sent]
\* Seeded fault: without samples there is no percentile to write.
ConsumerStatsUnchecked(result) ==
    [received |-> Size(result.samples),
     p95 |-> IF Size(result.samples) = 0 THEN None
             ELSE Milliseconds(Percentile(result.samples, 95))]

ConsumerStats(result) ==
    [received |-> Size(result.samples),
     p95 |-> IF Size(result.samples) = 0 THEN 0
             ELSE Milliseconds(Percentile(result.samples, 95))]

Readable(t, side) == files[t][side] \notin {None, Broken}

TypeOK ==
    /\ phase \in {"scripts", "tests", "merging", "done"}
    /\ cleaned \in BOOLEAN
    /\ measured \in [Tests -> Results \cup {None}] /\ losses \in 0 .. MaxLosses
    /\ files \in [Tests -> [producer : {None, Broken} \cup [sent : Nat],
                           consumer : {None, Broken} \cup [received : Nat, p95 : Nat]]]
    /\ next \in 1 .. Len(Glob) + 1
    /\ rows \in [Tests -> {None} \cup [sent : Nat, received : Nat, p95 : Nat]]

NoFiles  == [t \in Tests |-> [producer |-> None, consumer |-> None]]
OldFiles == [t \in Tests |-> [producer |-> ProducerStats(OldResult),
                              consumer |-> ConsumerStats(OldResult)]]

Init ==
    /\ phase = "scripts" /\ cleaned = FALSE
    /\ measured = [t \in Tests |-> None] /\ losses = 0
    /\ files \in {NoFiles, OldFiles}
    /\ next = 1
    /\ rows = [t \in Tests |-> None]

----------------------------------------------------------------------------
(* The scripts.                                                            *)

\* run_all and run_parallel remove results/*.json; run_test and
\* run_producers_only, used alone, do not.
Clean ==
    /\ phase = "scripts" /\ phase' = "tests"
    /\ cleaned' = TRUE /\ files' = NoFiles
    /\ UNCHANGED <<measured, losses, next, rows>>

KeepOld ==
    /\ phase = "scripts" /\ phase' = "tests"
    /\ UNCHANGED <<cleaned, measured, losses, files, next, rows>>

\* A process writes its file when it ends; or it is killed before, cannot
\* create the file, or leaves it incomplete.
NotSaved(old) == {old, Broken}

Save(t, side, lost, new) ==
    IF side \in lost THEN NotSaved(files[t][side]) ELSE {new}

RunTest(t) ==
    /\ phase = "tests" /\ measured[t] = None
    /\ \A u \in 1 .. t - 1 : measured[u] # None
    /\ \E result \in Results, lost \in SUBSET Sides :
        /\ measured' = [measured EXCEPT ![t] = result]
        /\ losses' = losses + Cardinality(lost) /\ losses' <= MaxLosses
        /\ \E p \in Save(t, "producer", lost, ProducerStats(result)),
              c \in Save(t, "consumer", lost, ConsumerStats(result)) :
                  files' = [files EXCEPT ![t] = [producer |-> p, consumer |-> c]]
    /\ UNCHANGED <<phase, cleaned, next, rows>>

\* The report may also be made by hand before the tests are over.
StartReport ==
    /\ phase = "tests" /\ phase' = "merging"
    /\ UNCHANGED <<cleaned, measured, losses, files, next, rows>>

----------------------------------------------------------------------------
(* The report.                                                             *)

At(t, side) == phase = "merging" /\ next <= Len(Glob) /\ Glob[next] = [rate |-> t, side |-> side]

Row(t) == IF rows[t] = None THEN NoRow ELSE rows[t]

Merge(t, row) ==
    /\ rows' = [rows EXCEPT ![t] = row]
    /\ next' = next + 1
    /\ UNCHANGED <<phase, cleaned, measured, losses, files>>

\* Seeded fault: a row that exists already is replaced.
ProcessProducerFileAnew(t) ==
    /\ At(t, "producer") /\ Readable(t, "producer")
    /\ Merge(t, [NoRow EXCEPT !.sent = files[t].producer.sent])

ProcessProducerFile(t) ==
    /\ At(t, "producer") /\ Readable(t, "producer")
    /\ Merge(t, [Row(t) EXCEPT !.sent = files[t].producer.sent])

ProcessConsumerFile(t) ==
    /\ At(t, "consumer") /\ Readable(t, "consumer")
    /\ Merge(t, [Row(t) EXCEPT !.received = files[t].consumer.received,
                               !.p95 = files[t].consumer.p95])

\* No such file, or one that is skipped with a warning.
SkipFile(t, side) ==
    /\ At(t, side) /\ ~Readable(t, side)
    /\ next' = next + 1
    /\ UNCHANGED <<phase, cleaned, measured, losses, files, rows>>

GenerateMarkdown ==
    /\ phase = "merging" /\ next = Len(Glob) + 1
    /\ phase' = "done"
    /\ UNCHANGED <<cleaned, measured, losses, files, next, rows>>

Over == phase = "done" /\ UNCHANGED vars

Next ==
    \/ Clean \/ KeepOld \/ StartReport \/ GenerateMarkdown \/ Over
    \/ \E t \in Tests : RunTest(t) \/ ProcessProducerFile(t) \/ ProcessConsumerFile(t)
    \/ \E t \in Tests, side \in Sides : SkipFile(t, side)

Spec == Init /\ [][Next]_vars

----------------------------------------------------------------------------
(* The point of degradation.                                               *)

\* loss in percent of sent, which may be zero: a division by zero in floating
\* point compares as false.
Lossy(row) == row.sent > 0 /\ 100 * (row.sent - row.received) > row.sent

Slow(row, prevP95) == row.p95 > 50 /\ row.p95 > 2 * prevP95

\* Seeded fault: a test without results counts as one with no latency.
JudgeMissing(verdict, t) ==
    LET row == Row(t) IN
    [prevP95  |-> row.p95,
     degraded |-> IF verdict.degraded = 0 /\ (Slow(row, verdict.prevP95) \/ Lossy(row))
                  THEN t ELSE verdict.degraded]

\* One turn of the loop over the rates.
Judge(verdict, t) ==
    IF rows[t] = None THEN verdict
    ELSE [prevP95  |-> rows[t].p95,
          degraded |-> IF /\ verdict.degraded = 0
                          /\ Slow(rows[t], verdict.prevP95) \/ Lossy(rows[t])
                       THEN t ELSE verdict.degraded]

\* The rate the report names, or 0 for "stable".
DegradedRate ==
    FoldLeft(Judge, [prevP95 |-> 0, degraded |-> 0], [t \in Tests |-> t]).degraded

----------------------------------------------------------------------------
(* Properties.                                                             *)

\* The rows show what the tests measured: a test has a row exactly when one
\* of its files can be read, each figure comes from the file that holds it
\* whatever the order of the files, and when the scripts cleaned up no figure
\* is left over from an earlier run.
RowsFaithful ==
    phase = "done" => \A t \in Tests :
        /\ rows[t] # None <=> \E side \in Sides : Readable(t, side)
        /\ Readable(t, "producer") => rows[t].sent = files[t].producer.sent
        /\ Readable(t, "consumer") =>
               /\ rows[t].received = files[t].consumer.received
               /\ rows[t].p95 = files[t].consumer.p95
        /\ cleaned /\ rows[t] # None =>
               /\ measured[t] # None
               /\ rows[t].sent \in {0, measured[t].sent}
               /\ rows[t].received \in {0, Size(measured[t].samples)}

\* The tests the report has a row of, up to rate t.
Known(t) == {u \in 1 .. t : rows[u] # None}

LatencyBefore(t) ==
    IF Known(t - 1) = {} THEN 0
    ELSE rows[CHOOSE u \in Known(t - 1) : \A v \in Known(t - 1) : v <= u].p95

Degrades(t) == rows[t] # None /\ (Slow(rows[t], LatencyBefore(t)) \/ Lossy(rows[t]))

\* The report names the lowest rate at which the broker loses more than one
\* percent or its p95 passes 50 ms and doubles, compared with the next lower
\* rate that has results; "stable" means there is none.
DegradationFound ==
    phase = "done" =>
        /\ DegradedRate # 0 => Degrades(DegradedRate)
        /\ \A t \in Tests : Degrades(t) => DegradedRate \in 1 .. t

\* The p95 of the broker consumer and the p99 of the cache benchmark cover
\* the share of the samples they promise, and not much more.
PercentilesCover ==
    \A t \in Tests : measured[t] # None /\ Size(measured[t].samples) > 0 =>
        \A p \in {95, 99} : Covers(measured[t].samples, p)
=============================================================================
