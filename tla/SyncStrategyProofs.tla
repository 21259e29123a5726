------------------------- MODULE SyncStrategyProofs -------------------------
(***************************************************************************)
(* Lazy Loading and Write-Through keep the cache explained by the DB, for  *)
(* any number of keys, workers and calls and any combination of faults.    *)
(* Both are proved at once, for a Write that ends as one of either does.   *)
(***************************************************************************)
EXTENDS TLAPS, SyncStrategy, FiniteSetTheorems

----------------------------------------------------------------------------
(* The load generator.                                                     *)

InProgress(stages) == [at : stages, key : Keys, val : MaybeValue]

Counters == [reads : Nat, writes : Nat, hits : Nat, misses : Nat]

\* A worker that is not idle is in a call of one of the stages.
LEMMA Busy ==
    ASSUME NEW stages, LoadTypeOK(stages),
           NEW w \in Workers, NEW s \in stages \ {"idle"}, At(w, s)
    PROVE  op[w] \in InProgress(stages)
<1>1. op[w] \in Calls(stages)
  BY DEF LoadTypeOK
<1>2. op[w] # Idle
  BY DEF At, Idle
<1> QED
  BY <1>1, <1>2 DEF Calls, InProgress

\* Counting keeps the counters numbers.
LEMMA RecordType ==
    ASSUME metrics \in Counters, NEW hit \in BOOLEAN,
           RecordRead(hit) \/ RecordWrite
    PROVE  metrics' \in Counters
<1>1. ASSUME NEW a \in Nat, NEW b \in Nat
      PROVE  /\ [metrics EXCEPT !.reads = a, !.hits = b] \in Counters
             /\ [metrics EXCEPT !.reads = a, !.misses = b] \in Counters
             /\ [metrics EXCEPT !.writes = a] \in Counters
  BY DEF Counters
<1>2. /\ metrics.reads + 1 \in Nat /\ metrics.writes + 1 \in Nat
      /\ metrics.hits + 1 \in Nat /\ metrics.misses + 1 \in Nat
  BY DEF Counters
<1>3. CASE RecordWrite
  BY <1>1, <1>2, <1>3 DEF RecordWrite
<1>4. CASE RecordRead(hit)
  <2>1. CASE hit
    BY <1>1, <1>2, <1>4, <2>1 DEF RecordRead
  <2>2. CASE ~hit
    BY <1>1, <1>2, <1>4, <2>2 DEF RecordRead
  <2> QED
    BY <2>1, <2>2
<1> QED
  BY <1>3, <1>4

\* The counters agree: a Read that is recorded hit or missed.
Counted == metrics \in Counters /\ metrics.reads = metrics.hits + metrics.misses

LEMMA RecordCounted ==
    ASSUME Counted, NEW hit \in BOOLEAN, RecordRead(hit) \/ RecordWrite
    PROVE  Counted'
<1>1. metrics' \in Counters
  BY RecordType DEF Counted
<1>2. /\ metrics.reads \in Nat /\ metrics.hits \in Nat /\ metrics.misses \in Nat
      /\ metrics.reads = metrics.hits + metrics.misses
  BY DEF Counted, Counters
<1>3. CASE RecordWrite
  <2>1. /\ metrics'.reads = metrics.reads /\ metrics'.hits = metrics.hits
        /\ metrics'.misses = metrics.misses
    BY <1>3 DEF RecordWrite, Counted, Counters
  <2> QED
    BY <1>1, <1>2, <2>1 DEF Counted
<1>4. CASE RecordRead(hit) /\ hit
  <2>1. /\ metrics'.reads = metrics.reads + 1 /\ metrics'.hits = metrics.hits + 1
        /\ metrics'.misses = metrics.misses
    BY <1>4 DEF RecordRead, Counted, Counters
  <2> QED
    BY <1>1, <1>2, <2>1 DEF Counted
<1>5. CASE RecordRead(hit) /\ ~hit
  <2>1. /\ metrics'.reads = metrics.reads + 1 /\ metrics'.hits = metrics.hits
        /\ metrics'.misses = metrics.misses + 1
    BY <1>5 DEF RecordRead, Counted, Counters
  <2> QED
    BY <1>1, <1>2, <2>1 DEF Counted
<1> QED
  BY <1>3, <1>4, <1>5

\* The value of a Write that starts is one of the run's values, and new.
LEMMA FreshIsValue ==
    ASSUME issued \in 0 .. MaxWrites, NEW w \in Workers, StartWrite(w)
    PROVE  /\ Fresh \in Values /\ Fresh \in MaybeValue
           /\ issued \in Nat /\ Fresh = issued + 1 /\ issued' = issued + 1
           /\ issued' \in 0 .. MaxWrites
BY BackendAssumption DEF StartWrite, Fresh, Values, MaybeValue

----------------------------------------------------------------------------
(* The invariant.                                                          *)

\* Rows hold values of writes that were issued.
DBIssued == \A k \in Keys : db[k] <= issued

\* A call that has passed the DB holds a value no newer than the row of its key.
HoldsCommitted ==
    \A w \in Workers :
        op[w].at \in {"backfill", "settle"} =>
            op[w].val \in Values /\ op[w].val <= db[op[w].key]

\* What holds whatever the cache was found with.
Base == TypeOK /\ DBIssued /\ HoldsCommitted

\* An entry of a key is not ahead of the DB, and stale for a reason only.
EntryExplained(k) ==
    cache[k] # None =>
        /\ cache[k] <= db[k]
        /\ cache[k] = db[k] \/ k \in suspect \/ Settling(k)

\* The inductive invariant.
IInv == Base /\ \A k \in Keys : EntryExplained(k)

----------------------------------------------------------------------------
\* Initial states satisfy the invariant.
LEMMA SharedInit == Init => IInv
<1> SUFFICES ASSUME Init PROVE IInv
  OBVIOUS
<1> USE DEF Init, BackendInit, LoadInit
<1>1. TypeOK
  <2>1. issued \in 0 .. MaxWrites /\ looked \in 0 .. MaxReads
    BY BackendAssumption, LoadAssumption
  <2>2. BackendTypeOK
    BY BackendAssumption DEF BackendTypeOK, MaybeValue, Values, Seeded
  <2>3. op \in [Workers -> Calls(Stages)]
    BY DEF Calls
  <2> QED
    BY <2>1, <2>2, <2>3 DEF TypeOK, LoadTypeOK
<1>2. DBIssued
  BY DEF DBIssued, Seeded
<1>3. HoldsCommitted
  BY DEF HoldsCommitted, Idle
<1>4. \A k \in Keys : EntryExplained(k)
  BY DEF EntryExplained
<1> QED
  BY <1>1, <1>2, <1>3, <1>4 DEF IInv, Base

----------------------------------------------------------------------------
(* Type correctness.                                                       *)

\* A step of a Read, or the start of a Write, preserves the types.
LEMMA SharedType ==
    ASSUME TypeOK, NEW w \in Workers, ReadStep(w) \/ WriteStart(w)
    PROVE  TypeOK'
<1> USE LoadAssumption
<1>1. ASSUME NEW k \in Keys, ReadHit(w, k) PROVE TypeOK'
  <2>1. metrics' \in Counters
    BY <1>1, RecordType DEF TypeOK, LoadTypeOK, Counters, ReadHit
  <2> QED
    BY <1>1, <2>1 DEF TypeOK, BackendTypeOK, LoadTypeOK, Counters, ReadHit,
              StartRead, backends
<1>2. ASSUME NEW k \in Keys, ReadMiss(w, k) PROVE TypeOK'
  BY <1>2 DEF TypeOK, BackendTypeOK, LoadTypeOK, ReadMiss, StartRead, Goto,
              backends, Calls, Stages, MaybeValue
<1>3. ASSUME ReadError(w) PROVE TypeOK'
  BY <1>3 DEF TypeOK, BackendTypeOK, LoadTypeOK, ReadError, StartRead,
              backends
<1>4. ASSUME Fetch(w) PROVE TypeOK'
  <2>1. op[w] \in InProgress(Stages)
    BY <1>4, Busy DEF TypeOK, Fetch, Stages
  <2> QED
    BY <1>4, <2>1 DEF TypeOK, BackendTypeOK, LoadTypeOK, Fetch, DBGet, Goto,
              Proceeds, Calls, Stages, MaybeValue, InProgress
<1>5. ASSUME FetchFails(w) PROVE TypeOK'
  BY <1>5 DEF TypeOK, BackendTypeOK, LoadTypeOK, FetchFails, DBGet, Return,
              Proceeds, Calls
<1>6. ASSUME Backfill(w) PROVE TypeOK'
  <2>1. op[w] \in InProgress(Stages)
    BY <1>6, Busy DEF TypeOK, Backfill, Stages
  <2>2. metrics' \in Counters
    BY <1>6, RecordType DEF TypeOK, LoadTypeOK, Counters, Backfill
  <2>3. cache' \in [Keys -> MaybeValue] /\ suspect' \subseteq Keys
    BY <1>6, <2>1 DEF TypeOK, BackendTypeOK, Backfill, CacheSetIgnored,
              CacheSet, CacheUnreached, Mark, InProgress
  <2>4. op' \in [Workers -> Calls(Stages)]
    BY <1>6 DEF TypeOK, LoadTypeOK, Backfill, Return, Calls
  <2> QED
    BY <1>6, <2>2, <2>3, <2>4
       DEF TypeOK, BackendTypeOK, LoadTypeOK, Counters, Backfill, Proceeds
<1>7. ASSUME NEW k \in Keys, WriteDB(w, k) PROVE TypeOK'
  <2>1. StartWrite(w)
    BY <1>7 DEF WriteDB
  <2>2. Fresh \in Values /\ Fresh \in MaybeValue /\ issued' \in 0 .. MaxWrites
    BY <2>1, FreshIsValue DEF TypeOK, LoadTypeOK
  <2> QED
    BY <1>7, <2>2 DEF TypeOK, BackendTypeOK, LoadTypeOK, WriteDB, StartWrite,
              DBSet, Goto, Calls, Stages
<1>8. ASSUME NEW k \in Keys, WriteDBFails(w, k) PROVE TypeOK'
  <2>1. StartWrite(w)
    BY <1>8 DEF WriteDBFails
  <2>2. Fresh \in Values /\ issued' \in 0 .. MaxWrites
    BY <2>1, FreshIsValue DEF TypeOK, LoadTypeOK
  <2> QED
    BY <1>8, <2>2 DEF TypeOK, BackendTypeOK, LoadTypeOK, WriteDBFails,
              StartWrite, DBSet, DBSetLost
<1> QED
  BY <1>1, <1>2, <1>3, <1>4, <1>5, <1>6, <1>7, <1>8 DEF ReadStep, WriteStart

\* The deadline and evictions preserve the types.
LEMMA EnvironmentType ==
    ASSUME TypeOK, Environment
    PROVE  TypeOK'
<1>1. ASSUME Deadline PROVE TypeOK'
  BY <1>1 DEF TypeOK, BackendTypeOK, LoadTypeOK, Deadline, Expire, backends
<1>2. ASSUME NEW k \in Keys, EvictEntry(k) PROVE TypeOK'
  BY <1>2 DEF TypeOK, BackendTypeOK, LoadTypeOK, EvictEntry, Evict,
              CacheDelete, Clear, load, MaybeValue
<1> QED
  BY <1>1, <1>2 DEF Environment

----------------------------------------------------------------------------
(* The rest of the invariant.                                              *)

\* A step leaves an explained entry explained, and what it puts into the
\* cache is explained whatever was there before.
Coherent ==
    /\ DBIssued' /\ HoldsCommitted'
    /\ \A k \in Keys : EntryExplained(k) \/ cache'[k] # cache[k]
                          => EntryExplained(k)'

\* A step that leaves stores and suspicion alone, and takes no Write out of
\* its last step, leaves the entries explained.
LEMMA EntriesStay ==
    ASSUME UNCHANGED <<cache, db, suspect>>, \A j \in Keys : Settling(j) => Settling(j)'
    PROVE  \A k \in Keys : EntryExplained(k) \/ cache'[k] # cache[k]
                              => EntryExplained(k)'
BY DEF EntryExplained

\* A step of a Read preserves it: a backfill that no db.Set overtook stores
\* what the DB holds, and one that was overtaken makes the key suspect.
LEMMA ReadCoherent ==
    ASSUME Base, NEW w \in Workers, ReadStep(w)
    PROVE  Coherent
<1> USE DEF Base
<1>1. CASE \/ \E k \in Keys : ReadHit(w, k)
           \/ ReadError(w)
  <2>1. /\ UNCHANGED <<op, cache, db, suspect, issued>>
    BY <1>1 DEF ReadHit, ReadError, StartRead, backends
  <2> QED
    BY <2>1, EntriesStay DEF Coherent, DBIssued, HoldsCommitted, Settling, At
<1>2. ASSUME NEW k \in Keys, ReadMiss(w, k) PROVE Coherent
  <2>1. /\ UNCHANGED <<cache, db, suspect, issued>>
        /\ op[w] = Idle
        /\ op' = [op EXCEPT ![w] = [at |-> "fetch", key |-> k, val |-> None]]
    BY <1>2 DEF ReadMiss, StartRead, Goto, backends
  <2>2. \A x \in Workers : op'[x].at \in {"backfill", "settle"} =>
            op[x].at \in {"backfill", "settle"} /\ op'[x] = op[x]
    BY <2>1 DEF TypeOK, LoadTypeOK
  <2>3. \A j \in Keys : Settling(j) => Settling(j)'
    BY <2>1 DEF TypeOK, LoadTypeOK, Settling, At, Idle
  <2> QED
    BY <2>1, <2>2, <2>3, EntriesStay DEF Coherent, DBIssued, HoldsCommitted
<1>3. ASSUME Fetch(w) PROVE Coherent
  <2> DEFINE k == op[w].key
  <2>1. op[w] \in InProgress(Stages)
    BY <1>3, Busy DEF TypeOK, Fetch, Stages
  <2>2. /\ UNCHANGED <<cache, db, suspect, issued>>
        /\ op' = [op EXCEPT ![w] =
                     [at |-> "backfill", key |-> k, val |-> db[k]]]
        /\ op[w].at = "fetch"
    BY <1>3 DEF Fetch, DBGet, Goto, Proceeds, At
  <2>3. k \in Keys /\ db[k] \in Values
    BY <2>1 DEF InProgress, TypeOK, BackendTypeOK
  <2>4. HoldsCommitted'
    BY <2>2, <2>3 DEF HoldsCommitted, TypeOK, LoadTypeOK, Values
  <2>5. \A j \in Keys : Settling(j) => Settling(j)'
    BY <2>2 DEF TypeOK, LoadTypeOK, Settling, At
  <2> QED
    BY <2>2, <2>4, <2>5, EntriesStay DEF Coherent, DBIssued
<1>4. ASSUME FetchFails(w) PROVE Coherent
  <2>1. /\ UNCHANGED <<cache, db, suspect, issued>>
        /\ op' = [op EXCEPT ![w] = Idle]
        /\ op[w].at = "fetch"
    BY <1>4 DEF FetchFails, DBGet, Return, Proceeds, At
  <2>2. HoldsCommitted'
    BY <2>1 DEF HoldsCommitted, TypeOK, LoadTypeOK, Idle
  <2>3. \A j \in Keys : Settling(j) => Settling(j)'
    BY <2>1 DEF TypeOK, LoadTypeOK, Settling, At
  <2> QED
    BY <2>1, <2>2, <2>3, EntriesStay DEF Coherent, DBIssued
<1>5. ASSUME Backfill(w) PROVE Coherent
  <2> DEFINE k == op[w].key
             v == op[w].val
  <2>1. op[w] \in InProgress(Stages)
    BY <1>5, Busy DEF TypeOK, Backfill, Stages
  <2>2. /\ UNCHANGED <<db, issued>>
        /\ op' = [op EXCEPT ![w] = Idle]
        /\ op[w].at = "backfill"
    BY <1>5 DEF Backfill, Return, Proceeds, At
  <2>3. \/ /\ cache' = [cache EXCEPT ![k] = v]
           /\ suspect' = IF v # db[k] THEN suspect \cup {k}
                                      ELSE suspect \ {k}
        \/ UNCHANGED <<cache, suspect>>
    BY <1>5 DEF Backfill, CacheSetIgnored, CacheSet, Mark, Overtaken,
                CacheUnreached
  <2>4. k \in Keys /\ v \in Values /\ v <= db[k]
    BY <2>1, <2>2 DEF InProgress, HoldsCommitted
  <2>5. HoldsCommitted'
    BY <2>2 DEF HoldsCommitted, TypeOK, LoadTypeOK, Idle
  <2>6. \A j \in Keys : Settling(j) => Settling(j)'
    BY <2>2 DEF TypeOK, LoadTypeOK, Settling, At
  <2>7. \A j \in Keys : EntryExplained(j) \/ cache'[j] # cache[j] => EntryExplained(j)'
    BY <2>2, <2>3, <2>4, <2>6 DEF EntryExplained, TypeOK, BackendTypeOK, Values
  <2> QED
    BY <2>2, <2>5, <2>7 DEF Coherent, DBIssued
<1> QED
  BY <1>1, <1>2, <1>3, <1>4, <1>5 DEF ReadStep

\* The first step of a Write preserves it: what the DB gets is the newest
\* value, and the key is settling, or suspect when the call failed.
LEMMA WriteCoherent ==
    ASSUME Base, NEW w \in Workers, WriteStart(w)
    PROVE  Coherent
<1> USE DEF Base
<1>1. PICK k \in Keys : WriteDB(w, k) \/ WriteDBFails(w, k)
  BY DEF WriteStart
<1>2. /\ op[w] = Idle /\ StartWrite(w)
      /\ issued' = issued + 1 /\ cache' = cache
  BY <1>1 DEF WriteDB, WriteDBFails, StartWrite
<1>3. Fresh = issued + 1 /\ Fresh \in Values /\ issued \in Nat
  BY <1>2, FreshIsValue DEF Fresh, TypeOK, LoadTypeOK
<1>4. db' \in {db, [db EXCEPT ![k] = Fresh]}
  BY <1>1 DEF WriteDB, WriteDBFails, DBSet, DBSetLost
<1>5. \A j \in Keys : db[j] \in Nat /\ db[j] <= issued
  BY DEF TypeOK, BackendTypeOK, Values, DBIssued
<1>6. \A j \in Keys : db'[j] \in Nat /\ db[j] <= db'[j] /\ db'[j] <= issued'
  BY <1>2, <1>3, <1>4, <1>5 DEF TypeOK, BackendTypeOK
<1>7. \A x \in Workers \ {w} : op'[x] = op[x]
  BY <1>1 DEF WriteDB, WriteDBFails, Goto, TypeOK, LoadTypeOK
<1>8. \/ op'[w] = Idle
      \/ /\ op'[w] = [at |-> "settle", key |-> k, val |-> Fresh]
         /\ db' = [db EXCEPT ![k] = Fresh]
  BY <1>1, <1>2 DEF WriteDB, WriteDBFails, Goto, DBSet, TypeOK, LoadTypeOK
<1>9. HoldsCommitted'
  <2> SUFFICES ASSUME NEW x \in Workers,
                      op'[x].at \in {"backfill", "settle"}
               PROVE  op'[x].val \in Values /\ op'[x].val <= db'[op'[x].key]
    BY DEF HoldsCommitted
  <2>1. CASE x = w
    BY <2>1, <1>3, <1>8 DEF Idle, TypeOK, BackendTypeOK
  <2>2. CASE x # w
    <3>1. op'[x] = op[x]
      BY <2>2, <1>7
    <3>2. op[x] \in InProgress(Stages)
      BY <3>1, Busy DEF TypeOK, Stages, At
    <3> QED
      BY <3>1, <3>2, <1>5, <1>6 DEF HoldsCommitted, InProgress, Values
  <2> QED
    BY <2>1, <2>2
<1>10. ASSUME NEW j \in Keys, EntryExplained(j) PROVE EntryExplained(j)'
  <2>1. Settling(j) => Settling(j)'
    BY <1>2, <1>7 DEF Settling, At, Idle
  <2>2. suspect \subseteq suspect'
    BY <1>1 DEF WriteDB, WriteDBFails
  <2>3. db'[j] = db[j] \/ j \in suspect' \/ Settling(j)'
    <3>1. db'[j] # db[j] => j = k
      BY <1>4 DEF TypeOK, BackendTypeOK
    <3>2. CASE WriteDB(w, k)
      <4>1. Settling(k)'
        BY <3>2 DEF WriteDB, Goto, Settling, At, TypeOK, LoadTypeOK
      <4> QED
        BY <3>1, <4>1
    <3>3. CASE WriteDBFails(w, k)
      BY <3>1, <3>3 DEF WriteDBFails, DBSetLost
    <3> QED
      BY <1>1, <3>2, <3>3
  <2>4. cache[j] # None => cache[j] \in Nat
    BY DEF TypeOK, BackendTypeOK, MaybeValue, Values
  <2> QED
    BY <1>2, <1>5, <1>6, <1>10, <2>1, <2>2, <2>3, <2>4 DEF EntryExplained
<1> QED
  BY <1>2, <1>6, <1>9, <1>10 DEF Coherent, DBIssued

\* So do the deadline and evictions.
LEMMA EnvironmentCoherent ==
    ASSUME Base, Environment
    PROVE  Coherent
<1> USE DEF Base
<1>1. CASE Deadline
  BY <1>1, EntriesStay DEF Deadline, Expire, backends, Coherent, DBIssued, HoldsCommitted,
     Settling, At
<1>2. ASSUME NEW k \in Keys, EvictEntry(k) PROVE Coherent
  <2>1. /\ UNCHANGED <<db, op, issued>>
        /\ cache' = [cache EXCEPT ![k] = None]
        /\ suspect' = suspect \ {k}
    BY <1>2 DEF EvictEntry, Evict, CacheDelete, Clear, load
  <2>2. DBIssued' /\ HoldsCommitted'
    BY <2>1 DEF DBIssued, HoldsCommitted
  <2>3. \A j \in Keys : Settling(j)' = Settling(j)
    BY <2>1 DEF Settling, At
  <2> QED
    BY <2>1, <2>2, <2>3 DEF Coherent, EntryExplained, TypeOK, BackendTypeOK
<1> QED
  BY <1>1, <1>2 DEF Environment

----------------------------------------------------------------------------
(* The DB calls of the report.                                             *)

\* Between the DB and the counters.
Past == {"backfill", "settle"}

\* A call that passes the DB is one more on its way to the counters.
LEMMA Joins ==
    ASSUME TypeOK, NEW w \in Workers, op[w].at \notin Past,
           NEW s \in Past, NEW k, NEW v, Goto(w, s, k, v)
    PROVE  Cardinality(Unrecorded') = Cardinality(Unrecorded) + 1
<1>1. Unrecorded' = Unrecorded \cup {w} /\ w \notin Unrecorded
  BY DEF Unrecorded, Past, TypeOK, LoadTypeOK, Goto
<1>2. IsFiniteSet(Unrecorded)
  BY WorkersAssumption, FS_Subset DEF Unrecorded
<1> QED
  BY <1>1, <1>2, FS_AddElement

\* A call that is recorded is one less.
LEMMA Leaves ==
    ASSUME TypeOK, NEW w \in Workers, op[w].at \in Past,
           op' = [op EXCEPT ![w] = Idle]
    PROVE  Cardinality(Unrecorded') = Cardinality(Unrecorded) - 1
<1>1. Unrecorded' = Unrecorded \ {w} /\ w \in Unrecorded
  BY DEF Unrecorded, Past, TypeOK, LoadTypeOK, Idle
<1>2. IsFiniteSet(Unrecorded)
  BY WorkersAssumption, FS_Subset DEF Unrecorded
<1> QED
  BY <1>1, <1>2, FS_RemoveElement

\* The sum is one of natural numbers.
LEMMA Summands ==
    ASSUME TypeOK
    PROVE  /\ calls \in Nat /\ failed \in Nat
           /\ metrics.misses \in Nat /\ metrics.writes \in Nat
           /\ Cardinality(Unrecorded) \in Nat
<1>1. IsFiniteSet(Unrecorded)
  BY WorkersAssumption, FS_Subset DEF Unrecorded
<1> QED
  BY <1>1, FS_CardinalityType DEF TypeOK, BackendTypeOK, LoadTypeOK

\* Nothing is counted and nobody passes the DB or the counters.
Uncounted == UNCHANGED <<calls, failed, metrics.misses, metrics.writes, Unrecorded>>

LEMMA UncountedExplained ==
    ASSUME DBCallsExplained, Uncounted
    PROVE  DBCallsExplained'
BY DEF DBCallsExplained, Uncounted

LEMMA SharedExplained ==
    ASSUME TypeOK, DBCallsExplained, NEW w \in Workers, ReadStep(w) \/ WriteStart(w)
    PROVE  DBCallsExplained'
<1> USE Summands
<1>1. metrics \in Counters /\ op \in [Workers -> Calls(Stages)]
  BY DEF TypeOK, LoadTypeOK, Counters
<1>2. CASE (\E k \in Keys : ReadHit(w, k)) \/ ReadError(w)
  <2>1. UNCHANGED <<calls, failed, op, metrics.misses, metrics.writes>>
    BY <1>1, <1>2 DEF ReadHit, ReadError, RecordRead, backends, Counters
  <2> QED
    BY <2>1, UncountedExplained DEF Uncounted, Unrecorded
<1>3. ASSUME NEW k \in Keys, ReadMiss(w, k) PROVE DBCallsExplained'
  <2>1. /\ UNCHANGED <<calls, failed, metrics>> /\ op[w] = Idle
        /\ op' = [op EXCEPT ![w] = [at |-> "fetch", key |-> k, val |-> None]]
    BY <1>3 DEF ReadMiss, StartRead, Goto, backends
  <2>2. Unrecorded' = Unrecorded
    BY <1>1, <2>1 DEF Unrecorded, Idle
  <2> QED
    BY <2>1, <2>2, UncountedExplained DEF Uncounted
<1>4. CASE Fetch(w)
  <2>1. /\ UNCHANGED <<failed, metrics>> /\ op[w].at = "fetch" /\ calls' = calls + 1
        /\ Goto(w, "backfill", op[w].key, db[op[w].key])
    BY <1>4 DEF Fetch, DBGet, At
  <2>2. op[w].at \notin Past
    BY <2>1 DEF Past
  <2>3. Cardinality(Unrecorded') = Cardinality(Unrecorded) + 1
    BY <2>1, <2>2, Joins DEF Past
  <2> QED
    BY <2>1, <2>3 DEF DBCallsExplained
<1>5. CASE FetchFails(w)
  <2>1. /\ UNCHANGED metrics /\ op[w].at = "fetch" /\ calls' = calls + 1
        /\ failed' = failed + 1 /\ op' = [op EXCEPT ![w] = Idle]
    BY <1>5 DEF FetchFails, DBGet, Return, At
  <2>2. Unrecorded' = Unrecorded
    BY <1>1, <2>1 DEF Unrecorded, Idle
  <2> QED
    BY <2>1, <2>2 DEF DBCallsExplained
<1>6. CASE Backfill(w)
  <2>1. /\ UNCHANGED <<calls, failed>> /\ op[w].at = "backfill"
        /\ metrics' = [metrics EXCEPT !.reads = @ + 1, !.misses = @ + 1]
        /\ op' = [op EXCEPT ![w] = Idle]
    BY <1>6 DEF Backfill, RecordRead, Return, At
  <2>2. metrics'.misses = metrics.misses + 1 /\ metrics'.writes = metrics.writes
    BY <1>1, <2>1 DEF Counters
  <2>3. Cardinality(Unrecorded') = Cardinality(Unrecorded) - 1
    BY <2>1, Leaves DEF Past
  <2> QED
    BY <2>1, <2>2, <2>3 DEF DBCallsExplained
<1>7. ASSUME NEW k \in Keys, WriteDB(w, k) PROVE DBCallsExplained'
  <2>1. /\ UNCHANGED <<failed, metrics>> /\ op[w] = Idle /\ calls' = calls + 1
        /\ Goto(w, "settle", k, Fresh)
    BY <1>7 DEF WriteDB, StartWrite, DBSet
  <2>2. op[w].at \notin Past
    BY <2>1 DEF Past, Idle
  <2>3. Cardinality(Unrecorded') = Cardinality(Unrecorded) + 1
    BY <2>1, <2>2, Joins DEF Past
  <2> QED
    BY <2>1, <2>3 DEF DBCallsExplained
<1>8. ASSUME NEW k \in Keys, WriteDBFails(w, k) PROVE DBCallsExplained'
  <2>1. UNCHANGED <<metrics, op>> /\ calls' = calls + 1 /\ failed' = failed + 1
    BY <1>8 DEF WriteDBFails, DBSet, DBSetLost
  <2> QED
    BY <2>1 DEF DBCallsExplained, Unrecorded
<1> QED
  BY <1>2, <1>3, <1>4, <1>5, <1>6, <1>7, <1>8 DEF ReadStep, WriteStart

\* The step with which a Write ends is recorded; the strategies differ only
\* in what they do to the cache.
LEMMA SettleExplained ==
    ASSUME TypeOK, DBCallsExplained, NEW w \in Workers, At(w, "settle"),
           UNCHANGED <<calls, failed>>, RecordWrite, Return(w)
    PROVE  DBCallsExplained'
<1>1. metrics'.misses = metrics.misses /\ metrics'.writes = metrics.writes + 1
  BY DEF RecordWrite, TypeOK, LoadTypeOK
<1>2. Cardinality(Unrecorded') = Cardinality(Unrecorded) - 1
  BY Leaves DEF Past, At, Return
<1> QED
  BY <1>1, <1>2, Summands DEF DBCallsExplained

LEMMA RestExplained ==
    ASSUME DBCallsExplained, Environment \/ UNCHANGED vars
    PROVE  DBCallsExplained'
<1>1. UNCHANGED <<calls, failed, op, metrics>>
  BY DEF Environment, Deadline, Expire, backends, EvictEntry, Evict, load, vars
<1> QED
  BY <1>1, UncountedExplained DEF Uncounted, Unrecorded

LEMMA InitExplained == Init => DBCallsExplained
<1> SUFFICES ASSUME Init PROVE DBCallsExplained
  OBVIOUS
<1>1. Unrecorded = {}
  BY DEF Init, LoadInit, Unrecorded, Idle
<1>2. Cardinality(Unrecorded) = 0
  BY <1>1, FS_EmptySet
<1> QED
  BY <1>2 DEF Init, LoadInit, BackendInit, DBCallsExplained

----------------------------------------------------------------------------
(* The step in which a Write reaches the cache: it deletes the entry, or   *)
(* sets it, or does not get through.                                       *)

Settles(w) ==
    /\ At(w, "settle")
    /\ \/ CacheDelete(op[w].key) /\ Clear(op[w].key)
       \/ CacheSet(op[w].key, op[w].val) /\ Mark(w)
       \/ CacheUnreached /\ suspect' = suspect \cup {op[w].key}
    /\ RecordWrite
    /\ Return(w)
    /\ Proceeds
    /\ UNCHANGED <<db, calls, failed>>

LEMMA SettleType ==
    ASSUME TypeOK, NEW w \in Workers, Settles(w)
    PROVE  TypeOK'
<1>1. op[w] \in InProgress(Stages)
  BY Busy DEF TypeOK, Settles, Stages
<1>2. metrics' \in Counters
  BY RecordType DEF TypeOK, LoadTypeOK, Counters, Settles
<1>3. cache' \in [Keys -> MaybeValue] /\ suspect' \subseteq Keys
  BY <1>1 DEF TypeOK, BackendTypeOK, Settles, CacheDelete, CacheSet, CacheUnreached,
               Clear, Mark, InProgress, MaybeValue
<1>4. op' \in [Workers -> Calls(Stages)]
  BY DEF TypeOK, LoadTypeOK, Settles, Return, Calls
<1> QED
  BY <1>2, <1>3, <1>4
     DEF TypeOK, BackendTypeOK, LoadTypeOK, Counters, Settles, Proceeds

\* The entry is gone, or the row, or the key suspect because the Write was
\* overtaken or the call failed.
LEMMA SettleCoherent ==
    ASSUME Base, NEW w \in Workers, Settles(w)
    PROVE  Coherent
<1> USE DEF Base
<1> DEFINE k == op[w].key
           v == op[w].val
<1>1. op[w] \in InProgress(Stages)
  BY Busy DEF TypeOK, Settles, Stages
<1>2. /\ UNCHANGED <<db, issued>>
      /\ op' = [op EXCEPT ![w] = Idle]
      /\ op[w].at = "settle"
  BY DEF Settles, Return, Proceeds, At
<1>3. \/ /\ cache' = [cache EXCEPT ![k] = None]
         /\ suspect' = suspect \ {k}
      \/ /\ cache' = [cache EXCEPT ![k] = v]
         /\ suspect' = IF v # db[k] THEN suspect \cup {k}
                                    ELSE suspect \ {k}
      \/ /\ cache' = cache
         /\ suspect' = suspect \cup {k}
  BY DEF Settles, CacheDelete, Clear, CacheSet, Mark, Overtaken, CacheUnreached
<1>4. k \in Keys /\ v \in Values /\ v <= db[k]
  BY <1>1, <1>2 DEF InProgress, HoldsCommitted
<1>5. HoldsCommitted'
  BY <1>2 DEF HoldsCommitted, TypeOK, LoadTypeOK, Idle
<1>6. \A j \in Keys \ {k} : Settling(j) => Settling(j)'
  BY <1>2 DEF TypeOK, LoadTypeOK, Settling, At
<1>7. \A j \in Keys : EntryExplained(j) \/ cache'[j] # cache[j] => EntryExplained(j)'
  BY <1>2, <1>3, <1>4, <1>6 DEF EntryExplained, TypeOK, BackendTypeOK, Values
<1> QED
  BY <1>2, <1>5, <1>7 DEF Coherent, DBIssued

----------------------------------------------------------------------------
(* A benchmark of either strategy.                                         *)

SyncNext ==
    \/ \E w \in Workers : ReadStep(w) \/ WriteStart(w) \/ Settles(w)
    \/ Environment \/ Over

SyncSpec == Init /\ [][SyncNext]_vars

\* A step preserves what holds whatever the cache was found with, and keeps
\* entries explained.
LEMMA StepCoherent ==
    ASSUME Base, [SyncNext]_vars
    PROVE  Base' /\ Coherent
<1>1. ASSUME NEW w \in Workers, ReadStep(w) PROVE Base' /\ Coherent
  BY <1>1, SharedType, ReadCoherent DEF Base, Coherent
<1>2. ASSUME NEW w \in Workers, WriteStart(w) PROVE Base' /\ Coherent
  BY <1>2, SharedType, WriteCoherent DEF Base, Coherent
<1>3. ASSUME NEW w \in Workers, Settles(w) PROVE Base' /\ Coherent
  BY <1>3, SettleType, SettleCoherent DEF Base, Coherent
<1>4. CASE Environment
  BY <1>4, EnvironmentType, EnvironmentCoherent DEF Base, Coherent
<1>5. CASE Over \/ UNCHANGED vars
  <2>1. UNCHANGED vars
    BY <1>5 DEF Over
  <2>2. UNCHANGED <<cache, db, suspect, op>>
    BY <2>1 DEF vars
  <2>3. \A j \in Keys : Settling(j)' = Settling(j)
    BY <2>2 DEF Settling, At
  <2>4. Base'
    BY <2>1 DEF vars, Base, TypeOK, BackendTypeOK, LoadTypeOK, DBIssued, HoldsCommitted
  <2> QED
    BY <2>2, <2>3, <2>4, EntriesStay DEF Base, Coherent
<1> QED
  BY <1>1, <1>2, <1>3, <1>4, <1>5 DEF SyncNext

\* The invariant is inductive.
THEOREM Invariance == SyncSpec => []IInv
<1>1. Init => IInv
  BY SharedInit
<1>2. IInv /\ [SyncNext]_vars => IInv'
  BY StepCoherent DEF IInv, Coherent
<1> QED
  BY <1>1, <1>2, PTL DEF SyncSpec

\* A step keeps the DB calls explained.
LEMMA StepExplained ==
    ASSUME Base, DBCallsExplained, [SyncNext]_vars
    PROVE  DBCallsExplained'
<1>1. TypeOK
  BY DEF Base
<1>2. ASSUME NEW w \in Workers, Settles(w) PROVE DBCallsExplained'
  BY <1>1, <1>2, SettleExplained DEF Settles
<1> QED
  BY <1>1, <1>2, SharedExplained, RestExplained DEF SyncNext, Over

\* So the DB calls are explained throughout.
THEOREM Explained == SyncSpec => []DBCallsExplained
<1>1. IInv => Base
  BY DEF IInv
<1> QED
  BY <1>1, InitExplained, StepExplained, Invariance, PTL DEF SyncSpec

\* A step counts at most one DB call and one operation.
LEMMA StepCounts ==
    ASSUME calls \in Nat, Counted, [SyncNext]_vars
    PROVE  calls' \in Nat /\ Counted'
<1> DEFINE Calling == calls' \in {calls, calls + 1} /\ metrics' = metrics
           Counting(hit) == calls' = calls /\ (RecordRead(hit) \/ RecordWrite)
<1>1. ASSUME NEW w \in Workers, NEW k \in Keys,
             ReadMiss(w, k) \/ WriteDB(w, k) \/ WriteDBFails(w, k)
      PROVE  Calling
  BY <1>1 DEF ReadMiss, WriteDB, WriteDBFails, DBSet, DBSetLost, backends
<1>2. ASSUME NEW w \in Workers, ReadError(w) \/ Fetch(w) \/ FetchFails(w)
      PROVE  Calling
  BY <1>2 DEF ReadError, Fetch, FetchFails, DBGet, backends
<1>3. ASSUME Environment \/ Over \/ UNCHANGED vars PROVE Calling
  BY <1>3 DEF Environment, Deadline, Expire, EvictEntry, Evict, Over, vars, backends
<1>4. ASSUME NEW w \in Workers, NEW k \in Keys, ReadHit(w, k) PROVE Counting(TRUE)
  BY <1>4, Zenon DEF ReadHit, backends
<1>5. ASSUME NEW w \in Workers, Backfill(w) PROVE Counting(FALSE)
  BY <1>5, Zenon DEF Backfill
<1>6. ASSUME NEW w \in Workers, Settles(w) PROVE Counting(TRUE)
  BY <1>6, Zenon DEF Settles
<1>7. Calling => calls' \in Nat /\ Counted'
  BY DEF Counted
<1>8. ASSUME NEW hit \in BOOLEAN, Counting(hit) PROVE calls' \in Nat /\ Counted'
  <2>1. Counted'
    BY <1>8, RecordCounted
  <2> QED
    BY <1>8, <2>1
<1>9. TRUE \in BOOLEAN /\ FALSE \in BOOLEAN
  OBVIOUS
<1>10. Calling \/ Counting(TRUE) \/ Counting(FALSE)
  <2> HIDE DEF Calling, Counting
  <2> QED
    BY <1>1, <1>2, <1>3, <1>4, <1>5, <1>6, Zenon DEF SyncNext, ReadStep, WriteStart
<1> HIDE DEF Calling, Counting
<1> QED
  BY <1>7, <1>8, <1>9, <1>10

Lazy    == INSTANCE LazyLoading
Through == INSTANCE WriteThrough

\* Lazy Loading is one of the two.
LEMMA LazyIsSync == Lazy!Spec => SyncSpec
<1>1. Lazy!Init <=> Init
  BY DEF Lazy!Init, Lazy!BackendInit, Lazy!LoadInit, Lazy!Seeded, Lazy!Idle,
         Init, BackendInit, LoadInit, Seeded, Idle
<1>2. ASSUME NEW w \in Workers PROVE Lazy!ReadStep(w) <=> ReadStep(w)
  BY Zenon DEF Lazy!ReadStep, Lazy!ReadHit, Lazy!ReadMiss, Lazy!ReadError, Lazy!Fetch, Lazy!FetchFails,
         Lazy!Backfill, Lazy!CacheSetIgnored, Lazy!CacheSet, Lazy!CacheUnreached, Lazy!Mark,
         Lazy!Overtaken, Lazy!StartRead, Lazy!RecordRead, Lazy!Goto, Lazy!Return,
         Lazy!Proceeds, Lazy!DBGet, Lazy!At, Lazy!Idle, Lazy!backends,
         ReadStep, ReadHit, ReadMiss, ReadError, Fetch, FetchFails,
         Backfill, CacheSetIgnored, CacheSet, CacheUnreached, Mark,
         Overtaken, StartRead, RecordRead, Goto, Return,
         Proceeds, DBGet, At, Idle, backends
<1>3. ASSUME NEW w \in Workers PROVE Lazy!WriteStart(w) <=> WriteStart(w)
  BY Zenon DEF Lazy!WriteStart, Lazy!WriteDB, Lazy!WriteDBFails, Lazy!StartWrite, Lazy!DBSet,
         Lazy!DBSetLost, Lazy!Fresh, Lazy!Goto, Lazy!Idle,
         WriteStart, WriteDB, WriteDBFails, StartWrite, DBSet,
         DBSetLost, Fresh, Goto, Idle
<1>4. ASSUME NEW w \in Workers, Lazy!Settle(w) PROVE Settles(w)
  BY <1>4 DEF Lazy!Settle, Lazy!At, Lazy!CacheDelete, Lazy!Clear, Lazy!CacheUnreached,
         Lazy!RecordWrite, Lazy!Return, Lazy!Proceeds, Lazy!Idle,
         Settles, At, CacheDelete, CacheSet, Clear, Mark, Overtaken, CacheUnreached,
         RecordWrite, Return, Proceeds, Idle
<1>5. Lazy!Environment <=> Environment
  BY Zenon DEF Lazy!Environment, Lazy!Deadline, Lazy!Expire, Lazy!EvictEntry, Lazy!Evict, Lazy!Clear,
         Lazy!CacheDelete, Lazy!backends, Lazy!load,
         Environment, Deadline, Expire, EvictEntry, Evict, Clear, CacheDelete, backends, load
<1>6. Lazy!Over <=> Over
  BY Zenon DEF Lazy!Over, Lazy!RunOver, Lazy!Idle, Lazy!vars, Over, RunOver, Idle, vars
<1>7. Lazy!Next => SyncNext
  <2>1. ASSUME NEW w \in Workers, Lazy!WorkerStep(w)
        PROVE  ReadStep(w) \/ WriteStart(w) \/ Settles(w)
    BY <1>2, <1>3, <1>4, <2>1, Zenon DEF Lazy!WorkerStep
  <2> QED
    BY <1>5, <1>6, <2>1, Zenon DEF Lazy!Next, SyncNext
<1>8. [Lazy!Next]_(Lazy!vars) => [SyncNext]_vars
  BY <1>7 DEF Lazy!vars, vars
<1> QED
  BY <1>1, <1>8, PTL DEF Lazy!Spec, SyncSpec

\* Write-Through is one of the two.
LEMMA ThroughIsSync == Through!Spec => SyncSpec
<1>1. Through!Init <=> Init
  BY DEF Through!Init, Through!BackendInit, Through!LoadInit, Through!Seeded, Through!Idle,
         Init, BackendInit, LoadInit, Seeded, Idle
<1>2. ASSUME NEW w \in Workers PROVE Through!ReadStep(w) <=> ReadStep(w)
  BY Zenon DEF Through!ReadStep, Through!ReadHit, Through!ReadMiss, Through!ReadError, Through!Fetch, Through!FetchFails,
         Through!Backfill, Through!CacheSetIgnored, Through!CacheSet, Through!CacheUnreached, Through!Mark,
         Through!Overtaken, Through!StartRead, Through!RecordRead, Through!Goto, Through!Return,
         Through!Proceeds, Through!DBGet, Through!At, Through!Idle, Through!backends,
         ReadStep, ReadHit, ReadMiss, ReadError, Fetch, FetchFails,
         Backfill, CacheSetIgnored, CacheSet, CacheUnreached, Mark,
         Overtaken, StartRead, RecordRead, Goto, Return,
         Proceeds, DBGet, At, Idle, backends
<1>3. ASSUME NEW w \in Workers PROVE Through!WriteStart(w) <=> WriteStart(w)
  BY Zenon DEF Through!WriteStart, Through!WriteDB, Through!WriteDBFails, Through!StartWrite, Through!DBSet,
         Through!DBSetLost, Through!Fresh, Through!Goto, Through!Idle,
         WriteStart, WriteDB, WriteDBFails, StartWrite, DBSet,
         DBSetLost, Fresh, Goto, Idle
<1>4. ASSUME NEW w \in Workers, Through!Settle(w) PROVE Settles(w)
  BY <1>4 DEF Through!Settle, Through!At, Through!CacheSet, Through!Mark, Through!Overtaken, Through!CacheUnreached,
         Through!RecordWrite, Through!Return, Through!Proceeds, Through!Idle,
         Settles, At, CacheDelete, CacheSet, Clear, Mark, Overtaken, CacheUnreached,
         RecordWrite, Return, Proceeds, Idle
<1>5. Through!Environment <=> Environment
  BY Zenon DEF Through!Environment, Through!Deadline, Through!Expire, Through!EvictEntry, Through!Evict, Through!Clear,
         Through!CacheDelete, Through!backends, Through!load,
         Environment, Deadline, Expire, EvictEntry, Evict, Clear, CacheDelete, backends, load
<1>6. Through!Over <=> Over
  BY Zenon DEF Through!Over, Through!RunOver, Through!Idle, Through!vars, Over, RunOver, Idle, vars
<1>7. Through!Next => SyncNext
  <2>1. ASSUME NEW w \in Workers, Through!WorkerStep(w)
        PROVE  ReadStep(w) \/ WriteStart(w) \/ Settles(w)
    BY <1>2, <1>3, <1>4, <2>1, Zenon DEF Through!WorkerStep
  <2> QED
    BY <1>5, <1>6, <2>1, Zenon DEF Through!Next, SyncNext
<1>8. [Through!Next]_(Through!vars) => [SyncNext]_vars
  BY <1>7 DEF Through!vars, vars
<1> QED
  BY <1>1, <1>8, PTL DEF Through!Spec, SyncSpec

\* Every reachable state is well typed.
THEOREM TypeCorrect == (Lazy!Spec => []TypeOK) /\ (Through!Spec => []TypeOK)
<1>1. IInv => TypeOK
  BY DEF IInv, Base
<1> QED
  BY <1>1, LazyIsSync, ThroughIsSync, Invariance, PTL

\* A stale entry is always explained: a Write of the key is still on its way
\* to the cache, or an overtaken or failed call left it.
THEOREM Staleness ==
    (Lazy!Spec => []StaleOnlyIfOvertaken) /\ (Through!Spec => []StaleOnlyIfOvertaken)
<1>1. IInv => StaleOnlyIfOvertaken
  BY DEF IInv, EntryExplained, StaleOnlyIfOvertaken
<1> QED
  BY <1>1, LazyIsSync, ThroughIsSync, Invariance, PTL

\* The cache never shows a value newer than the row, whichever calls fail.
THEOREM Authority ==
    (Lazy!Spec => []NeverAheadOfDB) /\ (Through!Spec => []NeverAheadOfDB)
<1>1. IInv => NeverAheadOfDB
  BY DEF IInv, EntryExplained, NeverAheadOfDB
<1> QED
  BY <1>1, LazyIsSync, ThroughIsSync, Invariance, PTL

\* Every DB call a report shows is one of a miss, a write, a failure or a
\* call still on its way from the DB to the counters.
THEOREM CallsExplained ==
    (Lazy!Spec => []DBCallsExplained) /\ (Through!Spec => []DBCallsExplained)
BY LazyIsSync, ThroughIsSync, Explained, PTL
=============================================================================
