------------------------- MODULE BrokerReportProofs -------------------------
(***************************************************************************)
(* The report's promises for any number of rates, any results and any      *)
(* order of the files: the percentile exists and covers its share, the     *)
(* rows show what the files hold, and the loop over the rates finds the    *)
(* lowest rate that degrades.                                              *)
(***************************************************************************)
EXTENDS BrokerReport, Recursion

(* The index of the percentile, for every number of samples.               *)

Shares == {95, 99}

\* The index lies inside a list that is not empty; as many samples as it asks
\* for stand at or before it, and at most p percent stand strictly before.
THEOREM IndexCovers ==
    ASSUME NEW n \in Nat \ {0}, NEW p \in Shares
    PROVE  /\ Index(n, p) \in 0 .. n - 1
           /\ 100 * (Index(n, p) + 1) >= p * n
           /\ 100 * Index(n, p) <= p * n
<1>1. CASE p = 95
  BY <1>1 DEF Index
<1>2. CASE p = 99
  BY <1>2 DEF Index
<1> QED
  BY <1>1, <1>2 DEF Shares

\* The cap on the index never applies: the conversion rounds towards zero.
THEOREM CapUnused ==
    ASSUME NEW n \in Nat \ {0}, NEW p \in Shares
    PROVE  Index(n, p) = (n * p) \div 100
<1>1. CASE p = 95
  BY <1>1 DEF Index
<1>2. CASE p = 99
  BY <1>2 DEF Index
<1> QED
  BY <1>1, <1>2 DEF Shares

----------------------------------------------------------------------------
(* The percentile itself.                                                  *)

\* The samples with certain latencies are so many, and none when there is no
\* such latency.
LEMMA CountType ==
    ASSUME NEW samples, Samples(samples), NEW s \in SUBSET DOMAIN samples
    PROVE  /\ SumFunctionOnSet(samples, s) \in Nat
           /\ s = {} => SumFunctionOnSet(samples, s) = 0
<1> DEFINE f == [l \in s |-> samples[l]]
           g == CHOOSE g : g = [r \in SUBSET s |->
                    IF r = {} THEN 0
                    ELSE samples[Some(r)] + g[r \ {Some(r)}]]
<1>1. IsFiniteSet(s)
  BY FS_Subset DEF Samples
<1>2. f \in [s -> Nat]
  BY DEF Samples
<1>3. SumFunctionOnSet(samples, s) = g[s]
  BY Zenon DEF SumFunctionOnSet, FoldFunctionOnSet, MapThenFoldSet, Some
<1>4. ASSUME NEW r, r \in SUBSET s, r # {} PROVE f[Some(r)] = samples[Some(r)]
  <2>1. Some(r) \in r
    BY <1>4 DEF Some
  <2> QED
    BY <1>4, <2>1
<1>5. ASSUME NEW k
      PROVE  IsSum(k, s, f) <=> k = [r \in SUBSET s |->
                    IF r = {} THEN 0
                    ELSE samples[Some(r)] + k[r \ {Some(r)}]]
  <2> HIDE DEF f
  <2>1. \A r \in SUBSET s :
            (IF r = {} THEN 0 ELSE f[Some(r)] + k[r \ {Some(r)}])
              = IF r = {} THEN 0 ELSE samples[Some(r)] + k[r \ {Some(r)}]
    BY <1>4
  <2> QED
    BY <2>1 DEF IsSum
<1> HIDE DEF f
<1>6. \E k : IsSum(k, s, f)
  BY <1>1, <1>2, SumExists
<1>7. IsSum(g, s, f)
  BY <1>5, <1>6
<1> HIDE DEF g
<1>8. Sums(g, s, f)
  BY <1>1, <1>2, <1>7, SumSolves
<1> QED
  BY <1>3, <1>8 DEF Sums

\* What the percentile is: the first latency at which more samples than the
\* index are passed.
First(samples, p, v) ==
    /\ v \in DOMAIN samples
    /\ AtMost(samples, v) > Index(Size(samples), p)
    /\ \A l \in DOMAIN samples :
           AtMost(samples, l) > Index(Size(samples), p) => v <= l

\* It exists, and is one of the latencies.
LEMMA PercentileFound ==
    ASSUME NEW samples, Samples(samples), Size(samples) # 0, NEW p \in Shares
    PROVE  First(samples, p, Percentile(samples, p))
<1> DEFINE D == DOMAIN samples
           T == {v \in D : AtMost(samples, v) > Index(Size(samples), p)}
<1>1. IsFiniteSet(D) /\ D \subseteq Nat
  BY DEF Samples
<1>2. Size(samples) \in Nat \ {0} /\ D # {}
  BY CountType DEF Size, SumFunction
<1>3. PICK m \in D : \A l \in D : l <= m
  BY <1>1, <1>2, Greatest
<1>4. {l \in D : l <= m} = D
  BY <1>3
<1>5. AtMost(samples, m) = Size(samples)
  BY <1>4 DEF AtMost, Size, SumFunction
<1>6. Index(Size(samples), p) < Size(samples)
  <2>1. Index(Size(samples), p) \in 0 .. Size(samples) - 1
    BY <1>2, IndexCovers
  <2> QED
    BY <1>2, <2>1
<1>7. T \subseteq Nat /\ m \in T
  BY <1>1, <1>2, <1>5, <1>6, IndexCovers
<1>8. PICK v \in T : \A l \in T : v <= l
  BY <1>7, Least
<1>9. First(samples, p, v)
  BY <1>8 DEF First
<1> QED
  BY <1>9, Zenon DEF First, Percentile

\* What it covers.
LEMMA PercentileCovers ==
    ASSUME NEW samples, Samples(samples), Size(samples) # 0, NEW p \in Shares
    PROVE  Covers(samples, p)
<1> DEFINE D == DOMAIN samples
           v == Percentile(samples, p)
           below == {l \in D : l <= v - 1}
           n == Size(samples)
<1>1. /\ D \subseteq Nat /\ IsFiniteSet(D)
      /\ \A l \in Int : AtMost(samples, l) \in Nat
      /\ n \in Nat \ {0}
  <2>1. \A s \in SUBSET D : SumFunctionOnSet(samples, s) \in Nat
    BY CountType
  <2> QED
    BY <2>1 DEF Samples, AtMost, Size, SumFunction
<1>2. First(samples, p, v)
  BY PercentileFound
<1> HIDE DEF v
<1>3. v \in D /\ v \in Nat
  BY <1>1, <1>2 DEF First
<1>4. /\ Index(n, p) \in Nat
      /\ 100 * (Index(n, p) + 1) >= p * n
      /\ 100 * Index(n, p) <= p * n
      /\ p * n \in Nat
  <2> HIDE DEF n
  <2>1. /\ Index(n, p) \in 0 .. n - 1
        /\ 100 * (Index(n, p) + 1) >= p * n
        /\ 100 * Index(n, p) <= p * n
    BY <1>1, IndexCovers, Zenon
  <2>2. p \in Nat
    BY DEF Shares
  <2> QED
    BY <1>1, <2>1, <2>2
<1> HIDE DEF n
<1>5. 100 * AtMost(samples, v) >= p * n
  <2>1. AtMost(samples, v) >= Index(n, p) + 1
    BY <1>1, <1>2, <1>3, <1>4 DEF First, n
  <2> HIDE DEF D, below
  <2> QED
    BY <1>1, <1>3, <1>4, <2>1
<1>6. 100 * AtMost(samples, v - 1) <= p * n
  <2>1. CASE below = {}
    <3>1. AtMost(samples, v - 1) = 0
      BY <2>1, CountType DEF AtMost
    <3> QED
      BY <3>1, <1>4
  <2>2. CASE below # {}
    <3>1. below \subseteq Nat /\ IsFiniteSet(below)
      BY <1>1, FS_Subset
    <3>2. PICK m \in below : \A l \in below : l <= m
      BY <2>2, <3>1, Greatest
    <3>3. {l \in D : l <= m} = below
      BY <1>1, <1>3, <3>2
    <3>4. AtMost(samples, v - 1) = AtMost(samples, m)
      BY <3>3 DEF AtMost
    <3>5. m \in D /\ m \in Nat /\ ~(v <= m)
      BY <1>1, <1>3, <3>2
    <3>6. ~(AtMost(samples, m) > Index(n, p))
      BY <1>2, <3>5 DEF First, n
    <3>7. AtMost(samples, m) \in Nat
      BY <1>1, <3>5
    <3> HIDE DEF D, below
    <3> QED
      BY <1>4, <3>4, <3>6, <3>7
  <2> QED
    BY <2>1, <2>2
<1> QED
  BY <1>5, <1>6 DEF Covers, v, n

----------------------------------------------------------------------------
(* The rows.                                                               *)

\* The file has been looked at, and had figures.
Merged(t, side) == \E i \in 1 .. next - 1 : Glob[i] = [rate |-> t, side |-> side]
Shown(t, side) == Merged(t, side) /\ Readable(t, side)

\* A row shows the files merged so far, and zeros for the others.
RowShows(t) ==
    /\ rows[t] # None <=> \E side \in Sides : Shown(t, side)
    /\ rows[t] # None =>
        /\ rows[t].sent = IF Shown(t, "producer") THEN files[t].producer.sent ELSE 0
        /\ rows[t].received =
               IF Shown(t, "consumer") THEN files[t].consumer.received ELSE 0
        /\ rows[t].p95 = IF Shown(t, "consumer") THEN files[t].consumer.p95 ELSE 0

\* After the scripts cleaned up, what can be read is of this run.
FilesNew(t) ==
    cleaned =>
        /\ Readable(t, "producer") =>
               measured[t] # None /\ files[t].producer.sent = measured[t].sent
        /\ Readable(t, "consumer") =>
               /\ measured[t] # None
               /\ files[t].consumer.received = Size(measured[t].samples)

Stages ==
    /\ phase \in {"scripts", "tests"} => next = 1
    /\ phase = "scripts" => ~cleaned
    /\ phase = "done" => next = Len(Glob) + 1

IInv == TypeOK /\ Stages /\ \A t \in Tests : RowShows(t) /\ FilesNew(t)

RowSet == [sent : Nat, received : Nat, p95 : Nat]
ProducerFile == {None, Broken} \cup [sent : Nat]
ConsumerFile == {None, Broken} \cup [received : Nat, p95 : Nat]

LEMMA RowIsNotNone == None \notin RowSet /\ None \notin Results
BY ReportAssumption DEF RowSet

\* A figure is a number only in a file that can be read.
LEMMA ReadableType ==
    ASSUME TypeOK, NEW t \in Tests
    PROVE  /\ files[t].producer \in ProducerFile /\ files[t].consumer \in ConsumerFile
           /\ Readable(t, "producer") =>
                  files[t].producer \in [sent : Nat]
           /\ Readable(t, "consumer") =>
                  files[t].consumer \in [received : Nat, p95 : Nat]
<1>1. files[t] \in [producer : ProducerFile, consumer : ConsumerFile]
  BY DEF TypeOK, ProducerFile, ConsumerFile
<1>2. files[t].producer \in ProducerFile /\ files[t].consumer \in ConsumerFile
  BY <1>1
<1>3. /\ files[t]["producer"] = files[t].producer
      /\ files[t]["consumer"] = files[t].consumer
  OBVIOUS
<1> QED
  BY <1>2, <1>3 DEF Readable, ProducerFile, ConsumerFile

\* What the processes write is well typed, with samples and without.
LEMMA StatsType ==
    ASSUME NEW result \in Results \cup {OldResult}
    PROVE  /\ ProducerStats(result) \in [sent : Nat]
           /\ ConsumerStats(result) \in [received : Nat, p95 : Nat]
           /\ Size(result.samples) \in Nat
<1> DEFINE samples == result.samples
<1>1. result.sent \in Nat /\ Samples(samples)
  BY ReportAssumption
<1> HIDE DEF samples
<1>2. Size(samples) \in Nat
  BY <1>1, CountType DEF Size, SumFunction
<1>3. Size(samples) # 0 => Percentile(samples, 95) \in Nat
  BY <1>1, PercentileFound DEF First, Samples, Shares
<1>4. Size(samples) # 0 => Milliseconds(Percentile(samples, 95)) \in Nat
  BY <1>3 DEF Milliseconds
<1> QED
  BY <1>1, <1>2, <1>4 DEF ProducerStats, ConsumerStats, samples

\* Before the report is made nothing is merged, and there are no rows.
LEMMA NothingMerged ==
    ASSUME next = 1, NEW t \in Tests
    PROVE  RowShows(t) <=> rows[t] = None
<1>1. \A side \in Sides : ~Merged(t, side)
  BY DEF Merged
<1> QED
  BY <1>1 DEF RowShows, Shown

LEMMA InitInvariant ==
    ASSUME Init
    PROVE  IInv
<1>1. /\ phase = "scripts" /\ cleaned = FALSE /\ losses = 0 /\ next = 1
      /\ measured = [t \in Tests |-> None] /\ rows = [t \in Tests |-> None]
  BY DEF Init
<1>2. files \in [Tests -> [producer : ProducerFile, consumer : ConsumerFile]]
  <2>1. CASE files = NoFiles
    BY <2>1 DEF NoFiles, ProducerFile, ConsumerFile
  <2>2. CASE files = OldFiles
    <3>1. /\ ProducerStats(OldResult) \in ProducerFile
          /\ ConsumerStats(OldResult) \in ConsumerFile
      BY StatsType DEF ProducerFile, ConsumerFile
    <3> QED
      BY <2>2, <3>1 DEF OldFiles
  <2> QED
    BY <2>1, <2>2 DEF Init
<1>3. next \in 1 .. Len(Glob) + 1 /\ losses \in 0 .. MaxLosses
  BY <1>1, ReportAssumption
<1>4. TypeOK
  BY <1>1, <1>2, <1>3 DEF TypeOK, ProducerFile, ConsumerFile
<1>5. Stages
  BY <1>1 DEF Stages
<1>6. \A t \in Tests : RowShows(t) /\ FilesNew(t)
  BY <1>1, NothingMerged DEF FilesNew
<1> QED
  BY <1>4, <1>5, <1>6 DEF IInv

\* A run of the scripts that starts with or without the old files.
LEMMA ScriptsInvariant ==
    ASSUME IInv, Clean \/ KeepOld
    PROVE  IInv'
<1>1. /\ TypeOK /\ next = 1 /\ ~cleaned
      /\ \A t \in Tests : rows[t] = None
  BY NothingMerged DEF IInv, Stages, Clean, KeepOld
<1>2. /\ phase' = "tests" /\ next' = next /\ rows' = rows
      /\ measured' = measured /\ losses' = losses
  BY DEF Clean, KeepOld
<1>3. CASE Clean
  <2>1. cleaned' = TRUE /\ files' = NoFiles
    BY <1>3 DEF Clean
  <2>2. \A t \in Tests : ~Readable(t, "producer")' /\ ~Readable(t, "consumer")'
    BY <2>1 DEF Readable, NoFiles
  <2>3. \A t \in Tests : FilesNew(t)'
    BY <2>2 DEF FilesNew
  <2>4. files' \in [Tests -> [producer : ProducerFile, consumer : ConsumerFile]]
    BY <2>1 DEF NoFiles, ProducerFile, ConsumerFile
  <2>5. TypeOK'
    BY <1>1, <1>2, <2>1, <2>4 DEF TypeOK, ProducerFile, ConsumerFile
  <2>6. \A t \in Tests : RowShows(t)'
    <3>1. \A t \in Tests, side \in Sides : ~Merged(t, side)'
      BY <1>1, <1>2 DEF Merged
    <3> QED
      BY <1>1, <1>2, <3>1 DEF RowShows, Shown
  <2>7. Stages'
    BY <1>1, <1>2 DEF Stages
  <2> QED
    BY <2>3, <2>5, <2>6, <2>7 DEF IInv
<1>4. CASE KeepOld
  <2>1. cleaned' = cleaned /\ files' = files
    BY <1>4 DEF KeepOld
  <2>2. TypeOK'
    BY <1>1, <1>2, <2>1 DEF TypeOK
  <2>3. \A t \in Tests : RowShows(t)' /\ FilesNew(t)'
    BY <1>1, <1>2, <2>1 DEF IInv, RowShows, FilesNew, Shown, Merged, Readable
  <2>4. Stages'
    BY <1>1, <1>2 DEF Stages
  <2> QED
    BY <2>2, <2>3, <2>4 DEF IInv
<1> QED
  BY <1>3, <1>4

LEMMA SidesFinite == IsFiniteSet(Sides)
<1>1. IsFiniteSet({} \cup {"producer"} \cup {"consumer"})
  BY FS_EmptySet, FS_AddElement
<1> QED
  BY <1>1 DEF Sides

\* A test that was interrupted leaves what was there, or nothing readable.
LEMMA RunTestInvariant ==
    ASSUME IInv, NEW t \in Tests, RunTest(t)
    PROVE  IInv'
<1>1. /\ TypeOK /\ phase = "tests" /\ next = 1 /\ measured[t] = None
      /\ \A u \in Tests : rows[u] = None
  BY NothingMerged DEF IInv, Stages, RunTest
<1>2. /\ phase' = phase /\ cleaned' = cleaned /\ next' = next /\ rows' = rows
  BY DEF RunTest
<1>3. PICK result \in Results, lost \in SUBSET Sides :
          /\ measured' = [measured EXCEPT ![t] = result]
          /\ losses' = losses + Cardinality(lost) /\ losses' <= MaxLosses
          /\ \E p \in Save(t, "producer", lost, ProducerStats(result)),
                c \in Save(t, "consumer", lost, ConsumerStats(result)) :
                    files' = [files EXCEPT ![t] = [producer |-> p, consumer |-> c]]
  BY DEF RunTest
<1>4. PICK p \in {files[t]["producer"], Broken, ProducerStats(result)},
           c \in {files[t]["consumer"], Broken, ConsumerStats(result)} :
          files' = [files EXCEPT ![t] = [producer |-> p, consumer |-> c]]
  BY <1>3 DEF Save, NotSaved
<1>5. /\ files[t]["producer"] = files[t].producer
      /\ files[t]["consumer"] = files[t].consumer
      /\ files[t].producer \in ProducerFile /\ files[t].consumer \in ConsumerFile
  BY <1>1, ReadableType
<1>6. /\ ProducerStats(result) \in [sent : Nat]
      /\ ConsumerStats(result) \in [received : Nat, p95 : Nat]
  BY StatsType
<1>7. p \in ProducerFile /\ c \in ConsumerFile
  BY <1>4, <1>5, <1>6 DEF ProducerFile, ConsumerFile
<1>8. /\ files \in [Tests -> [producer : ProducerFile, consumer : ConsumerFile]]
      /\ measured \in [Tests -> Results \cup {None}]
  BY <1>1 DEF TypeOK, ProducerFile, ConsumerFile
<1>9. TypeOK'
  <2>1. files' \in [Tests -> [producer : ProducerFile, consumer : ConsumerFile]]
    BY <1>4, <1>7, <1>8
  <2>2. measured' \in [Tests -> Results \cup {None}]
    BY <1>3, <1>8
  <2>3. Cardinality(lost) \in Nat
    BY SidesFinite, FS_Subset, FS_CardinalityType
  <2>4. losses' \in 0 .. MaxLosses
    BY <1>1, <1>3, <2>3, ReportAssumption DEF TypeOK
  <2> QED
    BY <1>1, <1>2, <2>1, <2>2, <2>4 DEF TypeOK, ProducerFile, ConsumerFile
<1>10. ASSUME NEW u \in Tests PROVE RowShows(u)' /\ FilesNew(u)'
  <2>1. RowShows(u)'
    <3>1. \A side \in Sides : ~Merged(u, side)'
      BY <1>1, <1>2 DEF Merged
    <3> QED
      BY <1>1, <1>2, <3>1 DEF RowShows, Shown
  <2>2. FilesNew(u)
    BY DEF IInv
  <2>3. CASE u # t
    <3>1. files'[u] = files[u] /\ measured'[u] = measured[u]
      BY <1>3, <1>4, <1>8, <2>3
    <3> QED
      BY <1>2, <2>1, <2>2, <3>1 DEF FilesNew, Readable
  <2>4. CASE u = t
    <3>1. /\ files'[t] = [producer |-> p, consumer |-> c] /\ measured'[t] = result
          /\ result # None
      BY <1>3, <1>4, <1>8, RowIsNotNone
    <3>2. /\ files'[t]["producer"] = p /\ files'[t]["consumer"] = c
          /\ files'[t].producer = p /\ files'[t].consumer = c
      BY <3>1
    <3>3. Readable(t, "producer")' /\ cleaned => p = ProducerStats(result)
      BY <1>1, <1>4, <2>2, <2>4, <3>2 DEF FilesNew, Readable
    <3>4. Readable(t, "consumer")' /\ cleaned => c = ConsumerStats(result)
      BY <1>1, <1>4, <2>2, <2>4, <3>2 DEF FilesNew, Readable
    <3>5. /\ ProducerStats(result).sent = result.sent
          /\ ConsumerStats(result).received = Size(result.samples)
      BY DEF ProducerStats, ConsumerStats
    <3>6. FilesNew(t)'
      BY <1>2, <3>1, <3>2, <3>3, <3>4, <3>5 DEF FilesNew
    <3> QED
      BY <2>1, <2>4, <3>6
  <2> QED
    BY <2>3, <2>4
<1>11. Stages'
  BY <1>1, <1>2 DEF Stages
<1> QED
  BY <1>9, <1>10, <1>11 DEF IInv

\* Steps that only move on in the report's work.
LEMMA PhaseInvariant ==
    ASSUME IInv, StartReport \/ GenerateMarkdown \/ UNCHANGED vars
    PROVE  IInv'
<1>1. /\ cleaned' = cleaned /\ files' = files /\ rows' = rows /\ next' = next
      /\ measured' = measured /\ losses' = losses
      /\ phase' \in {phase, "merging", "done"}
  BY DEF StartReport, GenerateMarkdown, vars
<1>2. TypeOK'
  BY <1>1 DEF IInv, TypeOK
<1>3. Stages'
  BY DEF IInv, Stages, StartReport, GenerateMarkdown, vars
<1>4. \A t \in Tests : RowShows(t)' /\ FilesNew(t)'
  BY <1>1 DEF IInv, RowShows, FilesNew, Shown, Merged, Readable
<1> QED
  BY <1>2, <1>3, <1>4 DEF IInv

\* Looking at a file merges that one and no other.
LEMMA Advance ==
    ASSUME TypeOK, NEW t \in Tests, NEW side \in Sides, At(t, side), next' = next + 1,
           NEW u \in Tests, NEW s \in Sides
    PROVE  Merged(u, s)' <=> Merged(u, s) \/ (u = t /\ s = side)
<1>1. next \in Nat /\ next >= 1
  BY DEF TypeOK
<1>2. Glob[next] = [rate |-> t, side |-> side]
  BY DEF At
<1>3. 1 .. next' - 1 = (1 .. next - 1) \cup {next}
  BY <1>1
<1>4. Merged(u, s)' <=> Merged(u, s) \/ Glob[next] = [rate |-> u, side |-> s]
  BY <1>3 DEF Merged
<1>5. Glob[next] = [rate |-> u, side |-> s] <=> u = t /\ s = side
  BY <1>2
<1> QED
  BY <1>4, <1>5

\* Whatever else a step on a file leaves alone.
LEMMA MergeFrame ==
    ASSUME IInv, NEW t \in Tests, NEW side \in Sides, At(t, side), next' = next + 1,
           UNCHANGED <<phase, cleaned, measured, losses, files>>,
           rows' \in [Tests -> {None} \cup RowSet],
           \A u \in Tests \ {t} : rows'[u] = rows[u],
           RowShows(t)'
    PROVE  IInv'
<1>1. phase = "merging" /\ next <= Len(Glob) /\ next \in 1 .. Len(Glob) + 1
  BY DEF At, IInv, TypeOK
<1>2. next' \in 1 .. Len(Glob) + 1
  BY <1>1, ReportAssumption
<1>3. TypeOK'
  BY <1>2 DEF IInv, TypeOK, RowSet
<1>4. Stages'
  BY <1>1 DEF Stages
<1>5. \A u \in Tests, s \in Sides : Readable(u, s)' <=> Readable(u, s)
  BY DEF Readable
<1>6. ASSUME NEW u \in Tests PROVE FilesNew(u)'
  <2>1. FilesNew(u)
    BY DEF IInv
  <2> QED
    BY <2>1 DEF FilesNew, Readable
<1>7. ASSUME NEW u \in Tests, u # t PROVE RowShows(u)'
  <2>1. \A s \in Sides : Merged(u, s)' <=> Merged(u, s)
    BY <1>7, Advance DEF IInv
  <2>2. \A s \in Sides : Shown(u, s)' <=> Shown(u, s)
    BY <1>5, <2>1 DEF Shown
  <2>3. "producer" \in Sides /\ "consumer" \in Sides
    BY DEF Sides
  <2>4. RowShows(u) /\ rows'[u] = rows[u]
    BY <1>7 DEF IInv
  <2> QED
    BY <2>2, <2>3, <2>4 DEF RowShows
<1> QED
  BY <1>3, <1>4, <1>6, <1>7 DEF IInv

\* A row that is not there yet counts as zeros.
LEMMA RowIs ==
    ASSUME IInv, NEW t \in Tests
    PROVE  /\ Row(t) \in RowSet
           /\ Row(t).sent = IF Shown(t, "producer") THEN files[t].producer.sent ELSE 0
           /\ Row(t).received =
                  IF Shown(t, "consumer") THEN files[t].consumer.received ELSE 0
           /\ Row(t).p95 = IF Shown(t, "consumer") THEN files[t].consumer.p95 ELSE 0
<1>1. RowShows(t)
  BY DEF IInv
<1>2. rows[t] \in {None} \cup RowSet
  BY DEF IInv, TypeOK, RowSet
<1>3. CASE rows[t] = None
  <2>1. ~Shown(t, "producer") /\ ~Shown(t, "consumer")
    BY <1>1, <1>3 DEF RowShows, Sides
  <2> QED
    BY <1>3, <2>1 DEF Row, NoRow, RowSet
<1>4. CASE rows[t] # None
  BY <1>1, <1>2, <1>4 DEF Row, RowShows
<1> QED
  BY <1>3, <1>4

LEMMA ProducerInvariant ==
    ASSUME IInv, NEW t \in Tests, ProcessProducerFile(t)
    PROVE  IInv'
<1> DEFINE row == [Row(t) EXCEPT !.sent = files[t].producer.sent]
<1>1. /\ At(t, "producer") /\ Readable(t, "producer")
      /\ rows' = [rows EXCEPT ![t] = row] /\ next' = next + 1
      /\ UNCHANGED <<phase, cleaned, measured, losses, files>>
  BY DEF ProcessProducerFile, Merge
<1>2. files[t].producer \in [sent : Nat]
  BY <1>1, ReadableType DEF IInv
<1>3. /\ row \in RowSet /\ row.sent = files[t].producer.sent
      /\ row.received = Row(t).received /\ row.p95 = Row(t).p95
  BY <1>2, RowIs DEF RowSet
<1>4. rows \in [Tests -> {None} \cup RowSet]
  BY DEF IInv, TypeOK, RowSet
<1> HIDE DEF row
<1>5. /\ rows' \in [Tests -> {None} \cup RowSet] /\ rows'[t] = row
      /\ \A u \in Tests \ {t} : rows'[u] = rows[u]
  BY <1>1, <1>3, <1>4
<1>6. "producer" \in Sides /\ "consumer" \in Sides
  BY DEF Sides
<1>7. /\ Shown(t, "producer")'
      /\ Shown(t, "consumer")' <=> Shown(t, "consumer")
  <2>1. /\ Merged(t, "producer")'
        /\ Merged(t, "consumer")' <=> Merged(t, "consumer")
    BY <1>1, <1>6, Advance DEF IInv
  <2> QED
    BY <1>1, <2>1 DEF Shown, Readable
<1>8. rows'[t] # None
  BY <1>3, <1>5, RowIsNotNone
<1>9. RowShows(t)'
  BY <1>1, <1>3, <1>5, <1>6, <1>7, <1>8, RowIs DEF RowShows
<1> QED
  BY <1>1, <1>5, <1>6, <1>9, MergeFrame

LEMMA ConsumerInvariant ==
    ASSUME IInv, NEW t \in Tests, ProcessConsumerFile(t)
    PROVE  IInv'
<1> DEFINE row == [Row(t) EXCEPT !.received = files[t].consumer.received,
                                 !.p95 = files[t].consumer.p95]
<1>1. /\ At(t, "consumer") /\ Readable(t, "consumer")
      /\ rows' = [rows EXCEPT ![t] = row] /\ next' = next + 1
      /\ UNCHANGED <<phase, cleaned, measured, losses, files>>
  BY DEF ProcessConsumerFile, Merge
<1>2. files[t].consumer \in [received : Nat, p95 : Nat]
  BY <1>1, ReadableType DEF IInv
<1>3. /\ row \in RowSet /\ row.sent = Row(t).sent
      /\ row.received = files[t].consumer.received
      /\ row.p95 = files[t].consumer.p95
  BY <1>2, RowIs DEF RowSet
<1>4. rows \in [Tests -> {None} \cup RowSet]
  BY DEF IInv, TypeOK, RowSet
<1> HIDE DEF row
<1>5. /\ rows' \in [Tests -> {None} \cup RowSet] /\ rows'[t] = row
      /\ \A u \in Tests \ {t} : rows'[u] = rows[u]
  BY <1>1, <1>3, <1>4
<1>6. "producer" \in Sides /\ "consumer" \in Sides
  BY DEF Sides
<1>7. /\ Shown(t, "consumer")'
      /\ Shown(t, "producer")' <=> Shown(t, "producer")
  <2>1. /\ Merged(t, "consumer")'
        /\ Merged(t, "producer")' <=> Merged(t, "producer")
    BY <1>1, <1>6, Advance DEF IInv
  <2> QED
    BY <1>1, <2>1 DEF Shown, Readable
<1>8. rows'[t] # None
  BY <1>3, <1>5, RowIsNotNone
<1>9. RowShows(t)'
  BY <1>1, <1>3, <1>5, <1>6, <1>7, <1>8, RowIs DEF RowShows
<1> QED
  BY <1>1, <1>5, <1>6, <1>9, MergeFrame

LEMMA SkipInvariant ==
    ASSUME IInv, NEW t \in Tests, NEW side \in Sides, SkipFile(t, side)
    PROVE  IInv'
<1>1. /\ At(t, side) /\ ~Readable(t, side) /\ next' = next + 1
      /\ UNCHANGED <<phase, cleaned, measured, losses, files, rows>>
  BY DEF SkipFile
<1>2. rows' \in [Tests -> {None} \cup RowSet]
  BY <1>1 DEF IInv, TypeOK, RowSet
<1>3. \A s \in Sides : Shown(t, s)' <=> Shown(t, s)
  <2>1. \A s \in Sides : Merged(t, s)' <=> Merged(t, s) \/ s = side
    BY <1>1, Advance DEF IInv
  <2> QED
    BY <1>1, <2>1 DEF Shown, Readable
<1>4. RowShows(t)'
  <2>1. RowShows(t) /\ "producer" \in Sides /\ "consumer" \in Sides
    BY DEF IInv, Sides
  <2> QED
    BY <1>1, <1>3, <2>1 DEF RowShows
<1> QED
  BY <1>1, <1>2, <1>4, MergeFrame

----------------------------------------------------------------------------

THEOREM Invariance == Spec => []IInv
<1>1. Init => IInv
  BY InitInvariant
<1>2. IInv /\ [Next]_vars => IInv'
  <2> SUFFICES ASSUME IInv, [Next]_vars PROVE IInv'
    OBVIOUS
  <2>1. CASE Clean \/ KeepOld
    BY <2>1, ScriptsInvariant
  <2>2. CASE StartReport \/ GenerateMarkdown \/ UNCHANGED vars
    BY <2>2, PhaseInvariant
  <2>3. CASE Over
    BY <2>3, PhaseInvariant DEF Over
  <2>4. CASE \E t \in Tests : RunTest(t)
    BY <2>4, RunTestInvariant
  <2>5. CASE \E t \in Tests : ProcessProducerFile(t)
    BY <2>5, ProducerInvariant
  <2>6. CASE \E t \in Tests : ProcessConsumerFile(t)
    BY <2>6, ConsumerInvariant
  <2>7. CASE \E t \in Tests, side \in Sides : SkipFile(t, side)
    BY <2>7, SkipInvariant
  <2> QED
    BY <2>1, <2>2, <2>3, <2>4, <2>5, <2>6, <2>7 DEF Next
<1> QED
  BY <1>1, <1>2, PTL DEF Spec

\* The report's variables stay well typed: every percentile that is written
\* is a number, with samples and without.
THEOREM TypeCorrect == Spec => []TypeOK
<1>1. IInv => TypeOK
  BY DEF IInv
<1> QED
  BY <1>1, Invariance, PTL

\* Whatever files are missing, broken or left over and in whatever order they
\* are merged, the rows of the finished report show what the files hold.
THEOREM FaithfulRows == Spec => []RowsFaithful
<1>1. IInv => RowsFaithful
  <2> SUFFICES ASSUME IInv, phase = "done", NEW t \in Tests
               PROVE  /\ rows[t] # None <=> \E side \in Sides : Readable(t, side)
                      /\ Readable(t, "producer") =>
                             rows[t].sent = files[t].producer.sent
                      /\ Readable(t, "consumer") =>
                             /\ rows[t].received = files[t].consumer.received
                             /\ rows[t].p95 = files[t].consumer.p95
                      /\ cleaned /\ rows[t] # None =>
                             /\ measured[t] # None
                             /\ rows[t].sent \in {0, measured[t].sent}
                             /\ rows[t].received \in {0, Size(measured[t].samples)}
    BY DEF RowsFaithful
  <2>1. next = Len(Glob) + 1 /\ Len(Glob) \in Nat
    BY ReportAssumption DEF IInv, Stages
  <2>2. ASSUME NEW side \in Sides PROVE Merged(t, side)
    <3>1. [rate |-> t, side |-> side] \in Range(Glob)
      BY ReportAssumption
    <3>2. DOMAIN Glob = 1 .. Len(Glob)
      BY ReportAssumption
    <3>3. PICK i \in 1 .. Len(Glob) : Glob[i] = [rate |-> t, side |-> side]
      BY <3>1, <3>2 DEF Range
    <3> QED
      BY <2>1, <3>3 DEF Merged
  <2>3. \A side \in Sides : Shown(t, side) <=> Readable(t, side)
    BY <2>2 DEF Shown
  <2>4. "producer" \in Sides /\ "consumer" \in Sides
    BY DEF Sides
  <2>5. RowShows(t) /\ FilesNew(t)
    BY DEF IInv
  <2>6. cleaned /\ rows[t] # None =>
            /\ measured[t] # None
            /\ rows[t].sent \in {0, measured[t].sent}
            /\ rows[t].received \in {0, Size(measured[t].samples)}
    <3> SUFFICES ASSUME cleaned, rows[t] # None
                 PROVE  /\ measured[t] # None
                        /\ rows[t].sent \in {0, measured[t].sent}
                        /\ rows[t].received \in {0, Size(measured[t].samples)}
      OBVIOUS
    <3>1. Readable(t, "producer") \/ Readable(t, "consumer")
      BY <2>3, <2>5 DEF RowShows, Sides
    <3> QED
      BY <2>3, <2>4, <2>5, <3>1 DEF RowShows, FilesNew
  <2> QED
    BY <2>3, <2>4, <2>5, <2>6 DEF RowShows
<1> QED
  BY <1>1, Invariance, PTL

\* Every percentile of a test that measured something covers the share it
\* promises, and not much more.
THEOREM Coverage == Spec => []PercentilesCover
<1>1. TypeOK => PercentilesCover
  <2> SUFFICES ASSUME TypeOK, NEW t \in Tests, measured[t] # None,
                      Size(measured[t].samples) > 0, NEW p \in {95, 99}
               PROVE  Covers(measured[t].samples, p)
    BY DEF PercentilesCover
  <2>1. measured[t] \in Results
    BY DEF TypeOK
  <2>2. Samples(measured[t].samples) /\ Size(measured[t].samples) # 0
    BY <2>1, StatsType, ReportAssumption
  <2> QED
    BY <2>2, PercentileCovers DEF Shares
<1> QED
  BY <1>1, TypeCorrect, PTL

----------------------------------------------------------------------------
(* The loop over the rates.                                                *)

Verdicts == [prevP95 : Nat, degraded : 0 .. Rates]
Start == [prevP95 |-> 0, degraded |-> 0]

\* A turn of the loop leaves a latency and a rate.
LEMMA JudgeType ==
    ASSUME TypeOK, NEW v \in Verdicts, NEW t \in Tests
    PROVE  Judge(v, t) \in Verdicts
<1>1. rows[t] \in {None} \cup RowSet
  BY DEF TypeOK, RowSet
<1>2. t \in 0 .. Rates
  BY ReportAssumption DEF Tests
<1>3. CASE rows[t] = None
  BY <1>3 DEF Judge
<1>4. CASE rows[t] # None
  <2>1. rows[t].p95 \in Nat
    BY <1>1, <1>4 DEF RowSet
  <2>2. Judge(v, t).prevP95 = rows[t].p95 /\ Judge(v, t).degraded \in {t, v.degraded}
    BY <1>4 DEF Judge
  <2>3. Judge(v, t) = [prevP95 |-> Judge(v, t).prevP95, degraded |-> Judge(v, t).degraded]
    BY <1>4 DEF Judge
  <2>4. Judge(v, t).degraded \in 0 .. Rates
    BY <1>2, <2>2 DEF Verdicts
  <2> QED
    BY <2>1, <2>2, <2>3, <2>4 DEF Verdicts
<1> QED
  BY <1>3, <1>4

\* The verdict v[t] after the rates up to t.
Run(v) ==
    /\ v \in [0 .. Rates -> Verdicts]
    /\ v[0] = Start
    /\ \A t \in Tests : v[t] = Judge(v[t - 1], t)

\* The rates are judged in their order, the slowest first.
LEMMA Loop ==
    ASSUME TypeOK
    PROVE  \E v : Run(v) /\ DegradedRate = v[Rates].degraded
<1> DEFINE seq == [t \in Tests |-> t]
           Eq(g) == g = [s \in SUBSET DOMAIN seq |->
                             IF s = {} THEN Start
                             ELSE Judge(g[s \ {Max(s)}], seq[Max(s)])]
<1>1. Rates \in Nat /\ DOMAIN seq = 1 .. Rates /\ Tests = 1 .. Rates
  BY ReportAssumption DEF Tests
<1>2. DegradedRate = (CHOOSE g : Eq(g))[DOMAIN seq].degraded
  BY Zenon DEF DegradedRate, FoldLeft, MapThenFoldSet, Start
<1>3. Start \in Verdicts
  BY <1>1 DEF Start, Verdicts
<1>4. PICK n, V, b, F : /\ n = Rates /\ V = Verdicts /\ b = Start
                        /\ F = [x \in (1 .. n) \X V |-> Judge(x[2], x[1])]
  OBVIOUS
<1>5. Loops(n, V, b, F)
  BY <1>1, <1>3, <1>4, JudgeType DEF Loops
<1>6. \A t \in 1 .. n, v \in V : F[<<t, v>>] = Judge(v, t)
  BY <1>4
<1>7. \A s \in (SUBSET (1 .. n)) \ {{}} :
          Max(s) \in 1 .. n /\ seq[Max(s)] = Max(s)
  BY <1>1, <1>4, MaxOfIndices
<1> HIDE DEF seq
<1>8. PICK k : Unfolds(k, n, V, b, F)
  BY <1>5, LoopExists
<1>9. Eq(k)
  <2>1. \A s \in (SUBSET (1 .. n)) \ {{}} :
            k[s] = Judge(k[s \ {Max(s)}], seq[Max(s)])
    BY <1>6, <1>7, <1>8 DEF Unfolds
  <2> QED
    BY <1>1, <1>4, <1>8, <2>1 DEF Unfolds
<1> DEFINE g == CHOOSE g : Eq(g)
<1>10. Eq(g)
  <2> HIDE DEF Eq
  <2> QED
    BY <1>9, Zenon
<1> HIDE DEF g
<1>11. IsLoop(g, n, V, b, F)
  <2>1. g[{}] = b
    BY <1>1, <1>4, <1>10
  <2>2. ASSUME NEW s \in (SUBSET (1 .. n)) \ {{}}, g[s \ {Max(s)}] \in V
        PROVE  g[s] = F[<<Max(s), g[s \ {Max(s)}]>>]
    <3>1. g[s] = Judge(g[s \ {Max(s)}], seq[Max(s)])
      BY <1>1, <1>4, <1>10
    <3> QED
      BY <1>6, <1>7, <2>2, <3>1
  <2> QED
    BY <2>1, <2>2 DEF IsLoop
<1>12. PICK v : Turns(v, n, V, b, F) /\ v[n] = g[1 .. n]
  BY <1>5, <1>11, LoopSolves
<1>13. DegradedRate = v[Rates].degraded
  BY <1>1, <1>2, <1>4, <1>12 DEF g
<1>14. Run(v)
  <2>1. \A t \in 1 .. n : v[t - 1] \in V /\ v[t] = F[<<t, v[t - 1]>>]
    BY <1>5, <1>12 DEF Loops, Turns
  <2> QED
    BY <1>1, <1>4, <1>6, <1>12, <2>1 DEF Run, Turns
<1> QED
  BY <1>13, <1>14

\* The latency to compare with moves on at the rates that have results.
LEMMA LatencyMovesOn ==
    ASSUME NEW t \in Nat, NEW r, r = t + 1
    PROVE  /\ rows[r] = None => LatencyBefore(r + 1) = LatencyBefore(r)
           /\ rows[r] # None => LatencyBefore(r + 1) = rows[r].p95
<1>1. /\ (r + 1) - 1 = r /\ r - 1 = t
      /\ 1 .. r = (1 .. t) \cup {r} /\ r \in 1 .. r
      /\ \A u \in 1 .. r : u <= r /\ u \in Nat
  OBVIOUS
<1>2. ASSUME rows[r] = None PROVE LatencyBefore(r + 1) = LatencyBefore(r)
  <2>1. Known(r) = Known(t)
    BY <1>1, <1>2 DEF Known
  <2>2. Known((r + 1) - 1) = Known(t) /\ Known(r - 1) = Known(t)
    BY <1>1, <2>1
  <2> DEFINE Latest(K) == IF K = {} THEN 0
                          ELSE rows[CHOOSE u \in K : \A x \in K : x <= u].p95
  <2>3. /\ LatencyBefore(r + 1) = Latest(Known((r + 1) - 1))
        /\ LatencyBefore(r) = Latest(Known(r - 1))
    BY Zenon DEF LatencyBefore
  <2> HIDE DEF Latest
  <2> QED
    BY <2>2, <2>3
<1>3. ASSUME rows[r] # None PROVE LatencyBefore(r + 1) = rows[r].p95
  <2>1. r \in Known(r) /\ \A u \in Known(r) : u <= r /\ u \in Nat
    BY <1>1, <1>3 DEF Known
  <2>2. \A u \in Known(r) : (\A x \in Known(r) : x <= u) <=> u = r
    BY <2>1
  <2>3. (CHOOSE u \in Known(r) : \A x \in Known(r) : x <= u) = r
    BY <2>1, <2>2
  <2>4. Known(r) # {}
    BY <2>1
  <2> QED
    BY <1>1, <2>3, <2>4, Zenon DEF LatencyBefore
<1> QED
  BY <1>2, <1>3

\* What the loop knows after the rates up to t.
Knows(v, t) ==
    /\ v.prevP95 = LatencyBefore(t + 1)
    /\ v.degraded # 0 => v.degraded \in 1 .. t /\ Degrades(v.degraded)
    /\ \A u \in 1 .. t : Degrades(u) => v.degraded \in 1 .. u

LEMMA JudgeKnows ==
    ASSUME TypeOK, NEW t \in Nat, NEW r \in Tests, r = t + 1,
           NEW v \in Verdicts, Knows(v, t)
    PROVE  Knows(Judge(v, r), r)
<1>1. /\ v.degraded \in Nat /\ r \in Nat /\ r \in 1 .. r
      /\ 1 .. r = (1 .. t) \cup {r}
  BY ReportAssumption DEF Verdicts, Tests
<1>2. CASE rows[r] = None
  <2>1. Judge(v, r) = v /\ LatencyBefore(r + 1) = LatencyBefore(r) /\ ~Degrades(r)
    BY <1>2, LatencyMovesOn DEF Judge, Degrades
  <2> QED
    BY <1>1, <2>1 DEF Knows
<1>3. CASE rows[r] # None
  <2>1. /\ Judge(v, r).prevP95 = LatencyBefore(r + 1)
        /\ v.prevP95 = LatencyBefore(r)
    BY <1>3, LatencyMovesOn DEF Judge, Knows
  <2>2. Judge(v, r).degraded =
            IF v.degraded = 0 /\ Degrades(r) THEN r ELSE v.degraded
    BY <1>3, <2>1 DEF Judge, Degrades
  <2>3. CASE v.degraded = 0 /\ Degrades(r)
    <3>1. \A u \in 1 .. t : ~Degrades(u)
      BY <2>3 DEF Knows
    <3> QED
      BY <1>1, <2>1, <2>2, <2>3, <3>1 DEF Knows
  <2>4. CASE v.degraded # 0
    <3>1. v.degraded \in 1 .. t /\ Degrades(v.degraded) /\ v.degraded \in 1 .. r
      BY <1>1, <2>4 DEF Knows
    <3> QED
      BY <1>1, <2>1, <2>2, <2>4, <3>1 DEF Knows
  <2>5. CASE v.degraded = 0 /\ ~Degrades(r)
    BY <1>1, <2>1, <2>2, <2>5 DEF Knows
  <2> QED
    BY <2>3, <2>4, <2>5
<1> QED
  BY <1>2, <1>3

LEMMA LoopKnows ==
    ASSUME TypeOK, NEW v, Run(v)
    PROVE  Knows(v[Rates], Rates)
<1>1. Rates \in Nat
  BY ReportAssumption
<1>2. PICK P : P = {t \in Nat : t <= Rates => Knows(v[t], t)}
  OBVIOUS
<1>3. 0 \in P
  <2>1. v[0].prevP95 = 0 /\ v[0].degraded = 0
    BY DEF Run, Start
  <2>2. LatencyBefore(0 + 1) = 0
    <3>1. Known((0 + 1) - 1) = {}
      BY DEF Known
    <3> QED
      BY <3>1 DEF LatencyBefore
  <2>3. \A u \in 1 .. 0 : FALSE
    OBVIOUS
  <2>4. Knows(v[0], 0)
    BY <2>1, <2>2, <2>3 DEF Knows
  <2> QED
    BY <1>2, <2>4
<1>4. ASSUME NEW t \in P PROVE t + 1 \in P
  <2>1. ASSUME t + 1 <= Rates PROVE Knows(v[t + 1], t + 1)
    <3>1. /\ t \in Nat /\ t \in 0 .. Rates /\ t + 1 \in Tests /\ (t + 1) - 1 = t
          /\ Knows(v[t], t)
      BY <1>1, <1>2, <1>4, <2>1 DEF Tests
    <3>2. v[t] \in Verdicts /\ v[t + 1] = Judge(v[t], t + 1)
      BY <3>1 DEF Run
    <3> QED
      BY <3>1, <3>2, JudgeKnows
  <2> QED
    BY <1>2, <1>4, <2>1
<1>5. P = Nat
  <2>1. P \in SUBSET Nat
    BY <1>2
  <2> QED
    BY <1>3, <1>4, <2>1, NumberInduction
<1> QED
  BY <1>1, <1>2, <1>5

\* However many rates there are and whichever of them have results, the
\* report names the lowest rate that degrades, or none when none does.
THEOREM Degradation == Spec => []DegradationFound
<1>1. TypeOK => DegradationFound
  <2> SUFFICES ASSUME TypeOK PROVE DegradationFound
    OBVIOUS
  <2>1. PICK v : Run(v) /\ DegradedRate = v[Rates].degraded
    BY Loop
  <2>2. Knows(v[Rates], Rates)
    BY <2>1, LoopKnows
  <2> QED
    BY <2>1, <2>2 DEF Knows, DegradationFound, Tests
<1> QED
  BY <1>1, TypeCorrect, PTL
=============================================================================
