-------------------------- MODULE WriteBackProofs ---------------------------
(***************************************************************************)
(* Write-back never moves the DB backwards, never loses an accepted write  *)
(* but to a failed db.Set, and implements the write-behind store, for any  *)
(* finite set of keys, any workers, bounds and faults.                     *)
(***************************************************************************)
EXTENDS TLAPS, WriteBack, FiniteSetTheorems

----------------------------------------------------------------------------
(* The load generator.                                                     *)

InProgress(stages) == [at : stages, key : Keys, val : MaybeValue]

Counters == [reads : Nat, writes : Nat, hits : Nat, misses : Nat]

\* A worker that is not idle is in a call of one of the stages.
LEMMA Busy ==
    ASSUME NEW stages, LoadTypeOK(stages),
           NEW w \in Workers, NEW s \in stages \ {"idle"}, At(w, s)
    PROVE  op[w] \in InProgress(stages)
<1>1. op[w] \in Calls(stages)
  BY DEF LoadTypeOK
<1>2. op[w] # Idle
  BY DEF At, Idle
<1> QED
  BY <1>1, <1>2 DEF Calls, InProgress

\* Counting keeps the counters numbers.
LEMMA RecordType ==
    ASSUME metrics \in Counters, NEW hit \in BOOLEAN,
           RecordRead(hit) \/ RecordWrite
    PROVE  metrics' \in Counters
<1>1. ASSUME NEW a \in Nat, NEW b \in Nat
      PROVE  /\ [metrics EXCEPT !.reads = a, !.hits = b] \in Counters
             /\ [metrics EXCEPT !.reads = a, !.misses = b] \in Counters
             /\ [metrics EXCEPT !.writes = a] \in Counters
  BY DEF Counters
<1>2. /\ metrics.reads + 1 \in Nat /\ metrics.writes + 1 \in Nat
      /\ metrics.hits + 1 \in Nat /\ metrics.misses + 1 \in Nat
  BY DEF Counters
<1>3. CASE RecordWrite
  BY <1>1, <1>2, <1>3 DEF RecordWrite
<1>4. CASE RecordRead(hit)
  <2>1. CASE hit
    BY <1>1, <1>2, <1>4, <2>1 DEF RecordRead
  <2>2. CASE ~hit
    BY <1>1, <1>2, <1>4, <2>2 DEF RecordRead
  <2> QED
    BY <2>1, <2>2
<1> QED
  BY <1>3, <1>4

\* The counters agree: a Read that is recorded hit or missed.
Counted == metrics \in Counters /\ metrics.reads = metrics.hits + metrics.misses

LEMMA RecordCounted ==
    ASSUME Counted, NEW hit \in BOOLEAN, RecordRead(hit) \/ RecordWrite
    PROVE  Counted'
<1>1. metrics' \in Counters
  BY RecordType DEF Counted
<1>2. /\ metrics.reads \in Nat /\ metrics.hits \in Nat /\ metrics.misses \in Nat
      /\ metrics.reads = metrics.hits + metrics.misses
  BY DEF Counted, Counters
<1>3. CASE RecordWrite
  <2>1. /\ metrics'.reads = metrics.reads /\ metrics'.hits = metrics.hits
        /\ metrics'.misses = metrics.misses
    BY <1>3 DEF RecordWrite, Counted, Counters
  <2> QED
    BY <1>1, <1>2, <2>1 DEF Counted
<1>4. CASE RecordRead(hit) /\ hit
  <2>1. /\ metrics'.reads = metrics.reads + 1 /\ metrics'.hits = metrics.hits + 1
        /\ metrics'.misses = metrics.misses
    BY <1>4 DEF RecordRead, Counted, Counters
  <2> QED
    BY <1>1, <1>2, <2>1 DEF Counted
<1>5. CASE RecordRead(hit) /\ ~hit
  <2>1. /\ metrics'.reads = metrics.reads + 1 /\ metrics'.hits = metrics.hits
        /\ metrics'.misses = metrics.misses + 1
    BY <1>5 DEF RecordRead, Counted, Counters
  <2> QED
    BY <1>1, <1>2, <2>1 DEF Counted
<1> QED
  BY <1>3, <1>4, <1>5

\* The value of a Write that starts is one of the run's values, and new.
LEMMA FreshIsValue ==
    ASSUME issued \in 0 .. MaxWrites, NEW w \in Workers, StartWrite(w)
    PROVE  /\ Fresh \in Values /\ Fresh \in MaybeValue
           /\ issued \in Nat /\ Fresh = issued + 1 /\ issued' = issued + 1
           /\ issued' \in 0 .. MaxWrites
BY BackendAssumption DEF StartWrite, Fresh, Values, MaybeValue

----------------------------------------------------------------------------
(* The invariant.                                                          *)

\* A Write carries a value, which is more than the type of op says.
Carried ==
    \A w \in Workers :
        op[w].at \in {"mark", "publish"} => op[w].val \in Values

\* A value gets its rank when it is marked, and never before it is issued.
RankedLate ==
    /\ rank[Seeded] = 0
    /\ \A v \in Values : v > issued => rank[v] = 0

\* Writes between their two steps carry distinct values without a rank.
Unmarked ==
    \A w \in Workers : At(w, "mark") =>
        /\ op[w].val \in 1 .. issued
        /\ rank[op[w].val] = 0
        /\ \A x \in Workers \ {w} : At(x, "mark") => op[x].val # op[w].val

\* The ranks of a key increase from the DB to the batch to the dirty map.
DBBehind == \A k \in Keys : DBRank(k) <= accepted[k]

DirtyNewest ==
    \A k \in Keys : dirty[k] # None =>
        /\ rank[dirty[k]] = accepted[k]
        /\ DBRank(k) < accepted[k]

BatchBetween ==
    \A f \in Flushers, k \in Keys : toFlush[f][k] # None =>
        /\ DBRank(k) < rank[toFlush[f][k]]
        /\ rank[toFlush[f][k]] <= accepted[k]
        /\ dirty[k] # None => rank[toFlush[f][k]] < accepted[k]

\* Who may hold a batch when: Stop flushes after the goroutine has exited
\* and after the last Write.
Phases ==
    /\ \A k \in Keys : toFlush["ticker"][k] # None => flusher = "flushing"
    /\ \A k \in Keys : toFlush["stopper"][k] # None => stopper = "draining"
    /\ stopper \in {"draining", "stopped"} =>
           flusher = "exited" /\ \A k \in Keys : dirty[k] = None
    /\ stopper # "running" => RunOver

Order == RankedLate /\ Unmarked /\ DBBehind /\ DirtyNewest /\ BatchBetween

\* A value from before every write of this run.
Older(v) ==
    /\ v \in 0 .. issued
    /\ \A u \in Values : rank[u] > 0 => v < u
    /\ \A w \in Workers : At(w, "mark") => v < op[w].val

\* A row is an accepted value, or still the one the run found.
RowsKnown == \A k \in Keys : DBRank(k) > 0 \/ Older(db[k])

IInv == TypeOK /\ Carried /\ Order /\ Phases /\ NothingLost /\ RowsKnown

----------------------------------------------------------------------------
(* Small facts.                                                            *)

\* None is not a value, so an entry that is there has one.
LEMMA EntryIsValue ==
    ASSUME NEW v \in MaybeValue, v # None
    PROVE  v \in Values
BY DEF MaybeValue

\* The parts of the state that Write, flush and Stop add are well typed.
FlushTypeOK ==
    /\ dirty \in [Keys -> MaybeValue]
    /\ pendingWrites \in Nat
    /\ pend \in [Workers -> Nat]
    /\ toFlush \in [Flushers -> [Keys -> MaybeValue]]
    /\ flusher \in {"waiting", "flushing", "exited"}
    /\ stopper \in {"running", "closing", "draining", "stopped"}

HistoryTypeOK ==
    /\ rank \in [Values -> Nat]
    /\ accepted \in [Keys -> Nat]
    /\ acked \in [Keys -> Nat]
    /\ dropped \subseteq Keys
    /\ refused \subseteq Values

\* TypeOK speaks of these three parts of the state.
LEMMA TypeParts ==
    TypeOK <=> BackendTypeOK /\ LoadTypeOK(Stages)
                             /\ FlushTypeOK /\ HistoryTypeOK
BY DEF TypeOK, FlushTypeOK, HistoryTypeOK

\* Any set of dirty keys can be counted.
LEMMA CountIsNat ==
    ASSUME NEW map
    PROVE  Cardinality(KeysOf(map)) \in Nat
<1>1. KeysOf(map) \subseteq Keys
  BY DEF KeysOf
<1> QED
  BY <1>1, KeysAssumption, FS_Subset, FS_CardinalityType

----------------------------------------------------------------------------
(* Type correctness.                                                       *)

\* A run of write-back starts well typed.
LEMMA InitType == Init => TypeOK
<1> SUFFICES ASSUME Init PROVE TypeOK
  OBVIOUS
<1>1. BackendTypeOK /\ LoadTypeOK(Stages)
  <2> USE DEF Init, NewWriteBack, BackendInit, LoadInit
  <2>1. issued \in 0 .. MaxWrites /\ looked \in 0 .. MaxReads
    BY BackendAssumption, LoadAssumption
  <2>2. BackendTypeOK
    BY BackendAssumption DEF BackendTypeOK, MaybeValue, Values, Seeded
  <2>3. op \in [Workers -> Calls(Stages)]
    BY DEF Calls
  <2> QED
    BY <2>1, <2>2, <2>3 DEF LoadTypeOK
<1>2. FlushTypeOK
  BY DEF Init, NewWriteBack, FlushTypeOK, NoEntries, MaybeValue
<1>3. HistoryTypeOK
  BY DEF Init, NewWriteBack, HistoryTypeOK
<1> QED
  BY <1>1, <1>2, <1>3, TypeParts

\* What a step leaves alone keeps its type.
LEMMA FrameType ==
    ASSUME TypeOK
    PROVE  /\ UNCHANGED wbState => FlushTypeOK'
           /\ UNCHANGED history => HistoryTypeOK'
           /\ UNCHANGED backends => BackendTypeOK'
BY DEF TypeOK, FlushTypeOK, HistoryTypeOK, BackendTypeOK, wbState, history,
       backends

\* The types from those of the parts.
LEMMA AssembleType ==
    ASSUME BackendTypeOK', LoadTypeOK(Stages)', FlushTypeOK', HistoryTypeOK'
    PROVE  TypeOK'
BY DEF TypeOK, FlushTypeOK, HistoryTypeOK

\* A step of a Read preserves the types.
LEMMA ReadType ==
    ASSUME TypeOK, NEW w \in Workers,
           \/ \E k \in Keys : ReadHit(w, k) \/ ReadMiss(w, k)
           \/ ReadError(w) \/ CheckDirty(w)
           \/ Fetch(w) \/ FetchFails(w) \/ Backfill(w)
    PROVE  TypeOK'
<1> USE LoadAssumption
<1> SUFFICES BackendTypeOK' /\ LoadTypeOK(Stages)'
  <2>1. UNCHANGED wbState /\ UNCHANGED history
    BY DEF ReadHit, ReadMiss, ReadError, CheckDirty, Fetch, FetchFails,
           Backfill
  <2> QED
    BY <2>1, FrameType, AssembleType
<1>1. ASSUME NEW k \in Keys, ReadHit(w, k)
      PROVE  BackendTypeOK' /\ LoadTypeOK(Stages)'
  <2>1. metrics' \in Counters
    BY <1>1, RecordType DEF TypeOK, LoadTypeOK, Counters, ReadHit
  <2>2. UNCHANGED backends
    BY <1>1 DEF ReadHit
  <2> QED
    BY <1>1, <2>1, <2>2, FrameType
       DEF TypeOK, LoadTypeOK, Counters, ReadHit, StartRead
<1>2. ASSUME NEW k \in Keys, ReadMiss(w, k)
      PROVE  BackendTypeOK' /\ LoadTypeOK(Stages)'
  <2>1. UNCHANGED backends
    BY <1>2 DEF ReadMiss
  <2> QED
    BY <1>2, <2>1, FrameType
       DEF TypeOK, LoadTypeOK, ReadMiss, StartRead, Goto, Calls, Stages,
           MaybeValue
<1>3. ASSUME ReadError(w) PROVE BackendTypeOK' /\ LoadTypeOK(Stages)'
  <2>1. UNCHANGED backends
    BY <1>3 DEF ReadError
  <2> QED
    BY <1>3, <2>1, FrameType DEF TypeOK, LoadTypeOK, ReadError, StartRead
<1>4. ASSUME CheckDirty(w) PROVE BackendTypeOK' /\ LoadTypeOK(Stages)'
  <2>1. op[w] \in InProgress(Stages)
    BY <1>4, Busy DEF TypeOK, CheckDirty, Stages
  <2>2. UNCHANGED backends
    BY <1>4 DEF CheckDirty
  <2>3. op' \in [Workers -> Calls(Stages)]
    BY <1>4, <2>1 DEF TypeOK, LoadTypeOK, CheckDirty, Goto, Calls, Stages,
       MaybeValue, InProgress
  <2> QED
    BY <1>4, <2>2, <2>3, FrameType DEF TypeOK, LoadTypeOK, CheckDirty, Proceeds
<1>5. ASSUME Fetch(w) PROVE BackendTypeOK' /\ LoadTypeOK(Stages)'
  <2>1. op[w] \in InProgress(Stages)
    BY <1>5, Busy DEF TypeOK, Fetch, Stages
  <2>2. BackendTypeOK'
    BY <1>5 DEF TypeOK, BackendTypeOK, Fetch, DBGet
  <2>3. op' \in [Workers -> Calls(Stages)]
    BY <1>5, <2>1 DEF TypeOK, BackendTypeOK, LoadTypeOK, Fetch, Goto, Calls,
       Stages, MaybeValue, InProgress
  <2> QED
    BY <1>5, <2>2, <2>3 DEF TypeOK, LoadTypeOK, Fetch, Proceeds
<1>6. ASSUME FetchFails(w) PROVE BackendTypeOK' /\ LoadTypeOK(Stages)'
  BY <1>6 DEF TypeOK, BackendTypeOK, LoadTypeOK, FetchFails, DBGet, Return,
              Proceeds, Calls
<1>7. ASSUME Backfill(w) PROVE BackendTypeOK' /\ LoadTypeOK(Stages)'
  <2>1. op[w] \in InProgress(Stages)
    BY <1>7, Busy DEF TypeOK, Backfill, Stages
  <2>2. metrics' \in Counters
    BY <1>7, RecordType DEF TypeOK, LoadTypeOK, Counters, Backfill
  <2>3. BackendTypeOK'
    BY <1>7, <2>1 DEF TypeOK, BackendTypeOK, Backfill, CacheSet,
       CacheUnreached, InProgress
  <2> QED
    BY <1>7, <2>2, <2>3
       DEF TypeOK, LoadTypeOK, Counters, Backfill, Return, Proceeds, Calls
<1> QED
  BY <1>1, <1>2, <1>3, <1>4, <1>5, <1>6, <1>7

\* A step of a Write preserves the types.
LEMMA WriteType ==
    ASSUME TypeOK, Carried, NEW w \in Workers,
           \/ \E k \in Keys : WriteCache(w, k) \/ WriteCacheFails(w, k)
           \/ MarkDirty(w) \/ PublishPending(w)
    PROVE  TypeOK'
<1>1. ASSUME NEW k \in Keys, WriteCache(w, k) \/ WriteCacheFails(w, k)
      PROVE  TypeOK'
  <2>1. /\ Fresh \in Values /\ Fresh \in MaybeValue
        /\ issued' \in 0 .. MaxWrites
    BY <1>1, FreshIsValue DEF TypeOK, LoadTypeOK, WriteCache, WriteCacheFails
  <2>2. FlushTypeOK'
    BY <1>1, FrameType DEF WriteCache, WriteCacheFails
  <2>3. HistoryTypeOK'
    BY <1>1, <2>1 DEF TypeOK, HistoryTypeOK, history, WriteCache,
       WriteCacheFails
  <2>4. BackendTypeOK'
    BY <1>1, <2>1 DEF TypeOK, BackendTypeOK, WriteCache, WriteCacheFails,
       CacheSet, CacheUnreached
  <2>5. op' \in [Workers -> Calls(Stages)]
    BY <1>1, <2>1 DEF TypeOK, LoadTypeOK, WriteCache, WriteCacheFails, Goto,
       Calls, Stages
  <2>6. LoadTypeOK(Stages)'
    BY <1>1, <2>1, <2>5 DEF TypeOK, LoadTypeOK, StartWrite, WriteCache,
       WriteCacheFails
  <2> QED
    BY <2>2, <2>3, <2>4, <2>6, AssembleType
<1>2. ASSUME MarkDirty(w) PROVE TypeOK'
  <2>1. op[w] \in InProgress(Stages)
    BY <1>2, Busy DEF TypeOK, MarkDirty, Stages
  <2>2. op[w].key \in Keys /\ op[w].val \in MaybeValue
    BY <2>1 DEF InProgress
  <2>3. BackendTypeOK'
    BY <1>2, FrameType DEF MarkDirty
  <2>4. LoadTypeOK(Stages)'
    BY <1>2, <2>2 DEF TypeOK, LoadTypeOK, MarkDirty, Goto, Proceeds, Calls,
       Stages
  <2>5. Cardinality(KeysOf(dirty')) \in Nat
    BY CountIsNat
  <2>6. pend' \in [Workers -> Nat]
    BY <1>2, <2>5 DEF TypeOK, MarkDirty
  <2>7. FlushTypeOK'
    BY <1>2, <2>2, <2>6 DEF TypeOK, FlushTypeOK, MarkDirty
  <2>8. HistoryTypeOK'
    <3>1. accepted[op[w].key] + 1 \in Nat
      BY <2>2 DEF TypeOK
    <3>2. /\ accepted' = [accepted EXCEPT ![op[w].key] = accepted[op[w].key] + 1]
          /\ rank' = [rank EXCEPT ![op[w].val] = accepted[op[w].key] + 1]
          /\ dropped' = dropped \ {op[w].key}
          /\ UNCHANGED <<acked, refused>>
      BY <1>2 DEF MarkDirty
    <3> QED
      BY <3>1, <3>2 DEF TypeOK, HistoryTypeOK
  <2> QED
    BY <2>3, <2>4, <2>7, <2>8, AssembleType
<1>3. ASSUME PublishPending(w) PROVE TypeOK'
  <2>1. op[w] \in InProgress(Stages)
    BY <1>3, Busy DEF TypeOK, PublishPending, Stages
  <2>2. op[w].key \in Keys /\ op[w].val \in MaybeValue
    BY <2>1 DEF InProgress
  <2>3. BackendTypeOK'
    BY <1>3, FrameType DEF PublishPending
  <2>4. metrics' \in Counters
    BY <1>3, RecordType DEF TypeOK, LoadTypeOK, Counters, PublishPending
  <2>5. LoadTypeOK(Stages)'
    BY <1>3, <2>4 DEF TypeOK, LoadTypeOK, Counters, PublishPending, Return,
       Proceeds, Calls
  <2>6. FlushTypeOK'
    BY <1>3 DEF TypeOK, FlushTypeOK, PublishPending
  <2>7. HistoryTypeOK'
    <3>1. rank[op[w].val] \in Nat
      BY <1>3 DEF PublishPending, At, Carried, TypeOK
    <3> QED
      BY <1>3, <2>2, <3>1 DEF TypeOK, HistoryTypeOK, PublishPending
  <2> QED
    BY <2>3, <2>5, <2>6, <2>7, AssembleType
<1> QED
  BY <1>1, <1>2, <1>3

\* A step of flush, of the goroutine or of Stop preserves the types, and so
\* do the deadline and evictions.
LEMMA RestType ==
    ASSUME TypeOK, FlushStep \/ Tick \/ TickDone \/ FlusherExit \/ StopStep
                   \/ Deadline \/ \E k \in Keys : EvictEntry(k)
    PROVE  TypeOK'
<1>1. ASSUME NEW f \in Flushers, NEW k \in Keys, 
             FlushEntry(f, k) \/ FlushEntryFails(f, k)
      PROVE  TypeOK'
  <2>1. LoadTypeOK(Stages)'
    BY <1>1 DEF FlushEntry, FlushEntryFails, load, TypeOK, LoadTypeOK
  <2>2. toFlush[f][k] \in Values
    BY <1>1, EntryIsValue DEF FlushEntry, FlushEntryFails, TypeOK
  <2>3. BackendTypeOK'
    BY <1>1, <2>2 DEF FlushEntry, FlushEntryFails, DBSet, DBSetLost, load,
       TypeOK, BackendTypeOK
  <2>4. FlushTypeOK'
    BY <1>1 DEF FlushEntry, FlushEntryFails, Taken, TypeOK, FlushTypeOK,
       MaybeValue
  <2>5. HistoryTypeOK'
    BY <1>1, FrameType
       DEF FlushEntry, FlushEntryFails, TypeOK, HistoryTypeOK
  <2> QED
    BY <2>1, <2>3, <2>4, <2>5, AssembleType
<1>2. ASSUME Tick \/ TickDone \/ FlusherExit \/ StopStep PROVE TypeOK'
  <2>1. UNCHANGED backends /\ UNCHANGED load /\ UNCHANGED metrics
        /\ UNCHANGED history
    BY <1>2 DEF Tick, TickDone, FlusherExit, StopStep, CloseStopCh, Drain,
       Drained
  <2>2. LoadTypeOK(Stages)'
    BY <2>1 DEF load, TypeOK, LoadTypeOK
  <2>3. FlushTypeOK'
    <3>1. NoEntries \in [Keys -> MaybeValue]
      BY DEF NoEntries, MaybeValue
    <3> QED
      BY <1>2, <3>1 DEF Tick, TickDone, FlusherExit, StopStep, CloseStopCh,
         Drain, Drained, Swap, TypeOK, FlushTypeOK
  <2> QED
    BY <2>1, <2>2, <2>3, FrameType, AssembleType
<1>3. ASSUME Deadline \/ \E k \in Keys : EvictEntry(k) PROVE TypeOK'
  <2>1. UNCHANGED wbState /\ UNCHANGED history
    BY <1>3 DEF Deadline, EvictEntry
  <2>2. BackendTypeOK'
    BY <1>3 DEF Deadline, EvictEntry, Evict, CacheDelete, backends, TypeOK,
       BackendTypeOK, MaybeValue
  <2>3. LoadTypeOK(Stages)'
    BY <1>3 DEF Deadline, Expire, EvictEntry, load, TypeOK, LoadTypeOK
  <2> QED
    BY <2>1, <2>2, <2>3, FrameType, AssembleType
<1> QED
  BY <1>1, <1>2, <1>3 DEF FlushStep

----------------------------------------------------------------------------
(* The order of the ranks.                                                 *)

Safe == Carried /\ Order /\ Phases /\ NothingLost

\* Everything the ranks of the stored values depend on.
stores == <<db, dirty, toFlush, stopper, rank, accepted, dropped>>

\* A step that leaves the stores alone keeps what only speaks of them.
LEMMA StoresFrame ==
    ASSUME IInv, UNCHANGED stores
    PROVE  DBBehind' /\ DirtyNewest' /\ BatchBetween' /\ NothingLost'
BY DEF IInv, Order, stores, DBBehind, DirtyNewest, BatchBetween, NothingLost,
       InTransit, DBRank

\* No call is in progress, and none starts, once Stop has been called.
LEMMA CallsBeforeStop ==
    ASSUME IInv, NEW w \in Workers, Start(w) \/ Continue(w)
    PROVE  stopper = "running"
<1>1. ~(expired /\ op[w] = Idle)
  <2>1. ASSUME Start(w) PROVE ~expired
    BY <2>1 DEF Start, ReadHit, ReadMiss, ReadError, WriteCache,
       WriteCacheFails, StartRead, StartWrite
  <2>2. ASSUME Continue(w) PROVE op[w].at # "idle"
    BY <2>2 DEF Continue, CheckDirty, Fetch, FetchFails, Backfill, MarkDirty,
       PublishPending, At
  <2> QED
    BY <2>1, <2>2 DEF Idle
<1> QED
  BY <1>1 DEF IInv, Phases, RunOver

\* Until Stop is called, its phases ask nothing of the goroutines.
LEMMA PhasesWhileRunning ==
    ASSUME IInv, stopper = "running", UNCHANGED <<toFlush, flusher, stopper>>
    PROVE  Phases'
BY DEF IInv, Phases

\* A worker that moves to a step which is neither "mark" nor "publish" takes
\* nothing away from the writes in progress.
LEMMA MoveOn ==
    ASSUME IInv, NEW w \in Workers, NEW call,
           op' = [op EXCEPT ![w] = call], call.at \notin {"mark", "publish"},
           UNCHANGED <<issued, rank>>
    PROVE  Carried' /\ Unmarked' /\ RankedLate'
<1>1. \A x \in Workers : op'[x].at \in {"mark", "publish"} =>
          x # w /\ op'[x] = op[x]
  BY DEF IInv, TypeOK, LoadTypeOK
<1>2. Carried'
  BY <1>1 DEF IInv, Carried
<1>3. RankedLate'
  BY DEF IInv, Order, RankedLate
<1>4. Unmarked'
  BY <1>1 DEF IInv, Order, Unmarked, At
<1> QED
  BY <1>2, <1>3, <1>4

\* Reads leave all of it alone.
LEMMA ReadSafe ==
    ASSUME IInv, NEW w \in Workers,
           \/ \E k \in Keys : ReadHit(w, k) \/ ReadMiss(w, k)
           \/ ReadError(w) \/ CheckDirty(w)
           \/ Fetch(w) \/ FetchFails(w) \/ Backfill(w)
    PROVE  Safe'
<1>1. UNCHANGED stores /\ UNCHANGED <<flusher, issued, rank>>
  BY DEF ReadHit, ReadMiss, ReadError, CheckDirty, Fetch, FetchFails,
         Backfill, stores, wbState, history, backends, DBGet, StartRead,
         Proceeds
<1>2. stopper = "running"
  BY CallsBeforeStop DEF Start, Continue
<1>3. Phases'
  BY <1>1, <1>2, PhasesWhileRunning DEF stores
<1>4. Carried' /\ Unmarked' /\ RankedLate'
  <2>1. CASE op' = op
    BY <1>1, <2>1 DEF IInv, Order, Carried, Unmarked, RankedLate, At
  <2>2. CASE op' # op
    <3>1. \E call : op' = [op EXCEPT ![w] = call]
                    /\ call.at \notin {"mark", "publish"}
      <4>1. ASSUME NEW s \in {"check", "fetch", "backfill"}, NEW k, NEW v,
                   Goto(w, s, k, v)
            PROVE  \E call : op' = [op EXCEPT ![w] = call]
                             /\ call.at \notin {"mark", "publish"}
        <5> DEFINE call == [at |-> s, key |-> k, val |-> v]
        <5>1. call.at \notin {"mark", "publish"}
          OBVIOUS
        <5>2. op' = [op EXCEPT ![w] = call]
          BY <4>1 DEF Goto
        <5> HIDE DEF call
        <5> QED
          BY <5>1, <5>2
      <4>2. ASSUME Return(w)
            PROVE  \E call : op' = [op EXCEPT ![w] = call]
                             /\ call.at \notin {"mark", "publish"}
        <5>1. Idle.at \notin {"mark", "publish"}
          BY DEF Idle
        <5> QED
          BY <4>2, <5>1 DEF Return
      <4> QED
        BY <2>2, <4>1, <4>2 DEF ReadHit, ReadMiss, ReadError, CheckDirty,
           Fetch, FetchFails, Backfill
    <3> QED
      BY <1>1, <3>1, MoveOn
  <2> QED
    BY <2>1, <2>2
<1> QED
  BY <1>1, <1>3, <1>4, StoresFrame DEF Safe, Order

\* A Write that starts carries a value nobody else has.
LEMMA WriteCacheSafe ==
    ASSUME IInv, NEW w \in Workers, NEW k \in Keys,
           WriteCache(w, k) \/ WriteCacheFails(w, k)
    PROVE  Safe'
<1>1. UNCHANGED stores /\ UNCHANGED flusher
  BY DEF WriteCache, WriteCacheFails, stores, wbState, history
<1>2. stopper = "running"
  BY CallsBeforeStop DEF Start
<1>3. Phases'
  BY <1>1, <1>2, PhasesWhileRunning DEF stores
<1>4. /\ Fresh \in Values /\ issued \in Nat
      /\ Fresh = issued + 1 /\ issued' = issued + 1
  BY FreshIsValue DEF IInv, TypeOK, LoadTypeOK, WriteCache, WriteCacheFails
<1>5. /\ \A x \in Workers \ {w} : op'[x] = op[x]
      /\ op'[w] \in {[at |-> "mark", key |-> k, val |-> Fresh], Idle}
  BY DEF WriteCache, WriteCacheFails, StartWrite, Goto, IInv, TypeOK,
         LoadTypeOK
<1>6. rank' = rank /\ rank[Fresh] = 0
  BY <1>1, <1>4 DEF stores, IInv, Order, RankedLate
<1>7. Carried'
  BY <1>4, <1>5 DEF IInv, Carried, Idle
<1>8. RankedLate'
  BY <1>4, <1>6 DEF IInv, Order, RankedLate, Values
<1>9. Unmarked'
  <2>1. ASSUME NEW x \in Workers \ {w}, op'[x].at = "mark"
        PROVE  /\ op'[x].val \in 1 .. issued /\ rank[op'[x].val] = 0
               /\ op'[x].val # Fresh
               /\ \A y \in Workers \ {x, w} :
                      op'[y].at = "mark" => op'[y].val # op'[x].val
    BY <1>4, <1>5, <2>1 DEF IInv, Order, Unmarked, At
  <2>2. ASSUME op'[w].at = "mark"
        PROVE  op'[w].val = Fresh
    BY <1>5, <2>2 DEF Idle
  <2> QED
    BY <1>4, <1>6, <2>1, <2>2 DEF Unmarked, At
<1> QED
  BY <1>1, <1>3, <1>7, <1>8, <1>9, StoresFrame DEF Safe, Order

\* Publishing the counter and returning changes none of it.
LEMMA PublishSafe ==
    ASSUME IInv, NEW w \in Workers, PublishPending(w)
    PROVE  Safe'
<1>1. UNCHANGED stores /\ UNCHANGED <<flusher, issued, rank>>
  BY DEF PublishPending, stores, backends, Proceeds
<1>2. stopper = "running"
  BY CallsBeforeStop DEF Continue
<1>3. Phases'
  BY <1>1, <1>2, PhasesWhileRunning DEF stores
<1>4. Carried' /\ Unmarked' /\ RankedLate'
  BY <1>1, MoveOn DEF PublishPending, Return, Idle
<1> QED
  BY <1>1, <1>3, <1>4, StoresFrame DEF Safe, Order

\* The value being marked is stored nowhere yet.
LEMMA MarkedIsNew ==
    ASSUME IInv, NEW w \in Workers, At(w, "mark"), NEW j \in Keys
    PROVE  /\ op[w].val \in Values
           /\ op[w].val # db[j]
           /\ dirty[j] # None => op[w].val # dirty[j]
           /\ \A f \in Flushers :
                  toFlush[f][j] # None => op[w].val # toFlush[f][j]
<1> DEFINE v == op[w].val
<1>1. v \in Values /\ v \in 1 .. issued /\ rank[v] = 0
  BY DEF IInv, Carried, Order, Unmarked, At
<1>2. DBRank(j) \in Nat /\ accepted[j] \in Nat
  BY DEF IInv, TypeOK, BackendTypeOK, DBRank
<1>3. v # db[j]
  <2>1. DBRank(j) > 0 \/ db[j] < v
    BY DEF IInv, RowsKnown, Older
  <2> QED
    BY <1>1, <1>2, <2>1 DEF DBRank, IInv, TypeOK, LoadTypeOK
<1>4. dirty[j] # None => v # dirty[j]
  BY <1>1, <1>2 DEF IInv, Order, DirtyNewest
<1>5. \A f \in Flushers : toFlush[f][j] # None => v # toFlush[f][j]
  BY <1>1, <1>2 DEF IInv, Order, BatchBetween
<1> QED
  BY <1>1, <1>3, <1>4, <1>5

\* Accepting a write gives its value the highest rank of the key.
LEMMA MarkDirtySafe ==
    ASSUME IInv, NEW w \in Workers, MarkDirty(w)
    PROVE  Safe'
<1> DEFINE k == op[w].key
           v == op[w].val
           n == accepted[k] + 1
<1>1. op[w] \in InProgress(Stages)
  BY Busy DEF IInv, TypeOK, MarkDirty, Stages
<1>2. k \in Keys /\ v \in Values /\ v # None /\ accepted[k] \in Nat
  BY <1>1, MarkedIsNew, BackendAssumption
     DEF InProgress, MarkDirty, Values, IInv, TypeOK
<1>3. /\ dirty' = [dirty EXCEPT ![k] = v]
      /\ accepted' = [accepted EXCEPT ![k] = n]
      /\ rank' = [rank EXCEPT ![v] = n]
      /\ dropped' = dropped \ {k}
      /\ op' = [op EXCEPT ![w] = [at |-> "publish", key |-> k, val |-> v]]
      /\ op[w].at = "mark"
      /\ UNCHANGED <<db, toFlush, flusher, stopper, issued>>
  BY DEF MarkDirty, Goto, Proceeds, backends, At
<1>4. stopper = "running"
  BY CallsBeforeStop DEF Continue
<1>5. Phases'
  BY <1>3, <1>4, PhasesWhileRunning
<1>6. /\ rank'[v] = n /\ accepted'[k] = n
      /\ \A u \in Values \ {v} : rank'[u] = rank[u]
      /\ \A j \in Keys \ {k} : accepted'[j] = accepted[j]
                               /\ dirty'[j] = dirty[j]
      /\ dirty'[k] = v
  BY <1>2, <1>3 DEF IInv, TypeOK
<1>7. \A j \in Keys :
          /\ DBRank(j)' = DBRank(j)
          /\ dirty[j] # None => rank'[dirty[j]] = rank[dirty[j]]
          /\ \A f \in Flushers : toFlush[f][j] # None =>
                 rank'[toFlush[f][j]] = rank[toFlush[f][j]]
  <2> SUFFICES ASSUME NEW j \in Keys
               PROVE  /\ DBRank(j)' = DBRank(j)
                      /\ dirty[j] # None => rank'[dirty[j]] = rank[dirty[j]]
                      /\ \A f \in Flushers : toFlush[f][j] # None =>
                             rank'[toFlush[f][j]] = rank[toFlush[f][j]]
    OBVIOUS
  <2>1. /\ v # db[j]
        /\ dirty[j] # None => v # dirty[j]
        /\ \A f \in Flushers : toFlush[f][j] # None => v # toFlush[f][j]
    BY <1>3, MarkedIsNew DEF At
  <2>2. /\ db[j] \in Values
        /\ dirty[j] # None => dirty[j] \in Values
        /\ \A f \in Flushers : toFlush[f][j] # None => toFlush[f][j] \in Values
    BY EntryIsValue DEF IInv, TypeOK, BackendTypeOK
  <2> QED
    BY <1>3, <1>6, <2>1, <2>2 DEF DBRank
<1>8. \A j \in Keys : DBRank(j) \in Nat /\ accepted[j] \in Nat
  BY DEF IInv, TypeOK, BackendTypeOK, DBRank
<1>9. Carried'
  BY <1>2, <1>3 DEF IInv, Carried, TypeOK, LoadTypeOK
<1>10. RankedLate' /\ Unmarked'
  <2>1. v \in 1 .. issued /\ issued \in Nat
    BY <1>3 DEF IInv, Order, Unmarked, At, TypeOK, LoadTypeOK
  <2>2. RankedLate'
    BY <1>3, <1>6, <2>1 DEF IInv, Order, RankedLate, Seeded, Values, TypeOK
  <2>3. \A x \in Workers : op'[x].at = "mark" =>
            /\ op'[x] = op[x] /\ x # w /\ op[x].val # v
    BY <1>3 DEF IInv, Order, Unmarked, At, TypeOK, LoadTypeOK
  <2>4. \A x \in Workers : op'[x].at = "mark" => op[x].val \in Values
    BY <2>3 DEF IInv, Carried
  <2>5. Unmarked'
    BY <1>3, <1>6, <2>3, <2>4 DEF IInv, Order, Unmarked, At
  <2> QED
    BY <2>2, <2>5
<1>11. DBBehind'
  BY <1>3, <1>6, <1>7, <1>8 DEF IInv, Order, DBBehind
<1>12. DirtyNewest'
  BY <1>2, <1>6, <1>7, <1>8 DEF IInv, Order, DBBehind, DirtyNewest
<1>13. BatchBetween'
  <2> SUFFICES ASSUME NEW f \in Flushers, NEW j \in Keys, toFlush[f][j] # None
               PROVE  /\ DBRank(j) < rank[toFlush[f][j]]
                      /\ rank[toFlush[f][j]] <= accepted'[j]
                      /\ dirty'[j] # None =>
                             rank[toFlush[f][j]] < accepted'[j]
    BY <1>3, <1>7 DEF BatchBetween
  <2>1. rank[toFlush[f][j]] \in Nat
    BY EntryIsValue DEF IInv, TypeOK
  <2> QED
    BY <1>2, <1>6, <1>8, <2>1 DEF IInv, Order, BatchBetween
<1>14. NothingLost'
  <2> SUFFICES ASSUME NEW j \in Keys
               PROVE  \/ j \in dropped'
                      \/ DBRank(j)' = accepted'[j]
                      \/ InTransit(j)' /\ stopper' # "stopped"
    BY DEF NothingLost
  <2>1. CASE j = k
    BY <1>2, <1>3, <1>4, <1>6, <2>1 DEF InTransit
  <2>2. CASE j # k
    <3>1. InTransit(j) => InTransit(j)'
      BY <1>3, <1>6, <1>7, <2>2 DEF InTransit
    <3> QED
      BY <1>3, <1>6, <1>7, <2>2, <3>1 DEF IInv, NothingLost
  <2> QED
    BY <2>1, <2>2
<1> QED
  BY <1>5, <1>9, <1>10, <1>11, <1>12, <1>13, <1>14 DEF Safe, Order

\* Whoever holds an entry is alone: nobody else is in flush().
LEMMA OneHolder ==
    ASSUME IInv, NEW f \in Flushers, NEW k \in Keys, toFlush[f][k] # None
    PROVE  /\ \A g \in Flushers \ {f}, j \in Keys : toFlush[g][j] = None
           /\ stopper # "stopped"
BY DEF IInv, Phases, Flushers

\* A batch entry is never older than the row it replaces.
LEMMA FlushSafe ==
    ASSUME IInv, NEW f \in Flushers, NEW k \in Keys,
           FlushEntry(f, k) \/ FlushEntryFails(f, k)
    PROVE  Safe'
<1> DEFINE v == toFlush[f][k]
<1>1. /\ v # None
      /\ toFlush' = [toFlush EXCEPT ![f][k] = None]
      /\ UNCHANGED <<dirty, flusher, stopper, rank, accepted, op, issued,
                     expired>>
      /\ \/ db' = [db EXCEPT ![k] = v] /\ dropped' = dropped
         \/ /\ db' = db
            /\ dropped' = IF rank[v] = accepted[k]
                          THEN dropped \cup {k} ELSE dropped
  BY DEF FlushEntry, FlushEntryFails, Taken, DBSet, DBSetLost, history, load
<1>2. /\ \A g \in Flushers \ {f}, j \in Keys : toFlush[g][j] = None
      /\ stopper # "stopped"
  BY <1>1, OneHolder
<1>3. /\ \A j \in Keys \ {k} : toFlush'[f][j] = toFlush[f][j]
      /\ toFlush'[f][k] = None
      /\ \A g \in Flushers \ {f}, j \in Keys : toFlush'[g][j] = None
  BY <1>1, <1>2 DEF IInv, TypeOK
<1>4. /\ v \in Values /\ rank[v] \in Nat
      /\ DBRank(k) < rank[v] /\ rank[v] <= accepted[k]
      /\ dirty[k] # None => rank[v] < accepted[k]
  BY <1>1, EntryIsValue DEF IInv, TypeOK, Order, BatchBetween
<1>5. \A j \in Keys : /\ DBRank(j) \in Nat /\ accepted[j] \in Nat
                      /\ DBRank(j)' \in Nat
  BY <1>1, <1>4 DEF IInv, TypeOK, BackendTypeOK, DBRank
<1>6. /\ \A j \in Keys \ {k} : db'[j] = db[j] /\ DBRank(j)' = DBRank(j)
      /\ DBRank(k)' \in {DBRank(k), rank[v]}
      /\ db'[k] = db[k] \/ DBRank(k)' = rank[v]
  BY <1>1 DEF IInv, TypeOK, BackendTypeOK, DBRank
<1>7. Carried' /\ Unmarked' /\ RankedLate'
  BY <1>1 DEF IInv, Order, Carried, Unmarked, RankedLate, At
<1>8. DBBehind'
  BY <1>1, <1>4, <1>5, <1>6 DEF IInv, Order, DBBehind
<1>9. DirtyNewest'
  BY <1>1, <1>4, <1>5, <1>6 DEF IInv, Order, DirtyNewest
<1>10. BatchBetween'
  <2> SUFFICES ASSUME NEW j \in Keys \ {k}, toFlush[f][j] # None
               PROVE  /\ DBRank(j)' < rank[toFlush[f][j]]
                      /\ rank[toFlush[f][j]] <= accepted[j]
                      /\ dirty[j] # None =>
                             rank[toFlush[f][j]] < accepted[j]
    BY <1>1, <1>3 DEF BatchBetween
  <2> QED
    BY <1>6 DEF IInv, Order, BatchBetween
<1>11. Phases'
  BY <1>1, <1>3 DEF IInv, Phases, RunOver
<1>12. NothingLost'
  <2> SUFFICES ASSUME NEW j \in Keys
               PROVE  \/ j \in dropped'
                      \/ DBRank(j)' = accepted[j]
                      \/ InTransit(j)'
    BY <1>1, <1>2 DEF NothingLost
  <2>1. j \in dropped \/ DBRank(j) = accepted[j] \/ InTransit(j)
    BY DEF IInv, NothingLost
  <2>2. dropped \subseteq dropped'
    BY <1>1
  <2>3. CASE j # k
    <3>1. InTransit(j) => InTransit(j)'
      BY <1>1, <1>2, <1>3, <2>3 DEF InTransit
    <3> QED
      BY <1>6, <2>1, <2>2, <2>3, <3>1
  <2>4. CASE j = k
    <3>1. DBRank(k) # accepted[k]
      BY <1>4, <1>5
    <3>2. CASE dirty[k] # None /\ rank[dirty[k]] = accepted[k]
      BY <1>1, <2>4, <3>2 DEF InTransit
    <3>3. CASE InTransit(k) /\ ~(dirty[k] # None
                                 /\ rank[dirty[k]] = accepted[k])
      <4>1. rank[v] = accepted[k]
        BY <1>2, <3>3 DEF InTransit
      <4>2. k \in dropped' \/ DBRank(k)' = rank[v]
        BY <1>1, <4>1 DEF IInv, TypeOK, BackendTypeOK, DBRank
      <4> QED
        BY <2>4, <4>1, <4>2
    <3> QED
      BY <2>1, <2>2, <2>4, <3>1, <3>2, <3>3
  <2> QED
    BY <2>3, <2>4
<1> QED
  BY <1>7, <1>8, <1>9, <1>10, <1>11, <1>12 DEF Safe, Order

\* Swapping the map out moves its entries to the batch of a flush that had
\* none left.
LEMMA SwapSafe ==
    ASSUME IInv, NEW f \in Flushers, Swap(f),
           \A g \in Flushers, k \in Keys : toFlush[g][k] = None,
           stopper' # "stopped",
           UNCHANGED <<db, rank, accepted, dropped, op, issued, expired>>
    PROVE  /\ Carried' /\ Order' /\ NothingLost'
           /\ \A g \in Flushers \ {f}, k \in Keys : toFlush'[g][k] = None
           /\ \A k \in Keys : dirty'[k] = None
<1>1. /\ toFlush' = [toFlush EXCEPT ![f] = dirty]
      /\ \A k \in Keys : dirty'[k] = None
  BY DEF Swap, NoEntries
<1>2. /\ toFlush'[f] = dirty
      /\ \A g \in Flushers \ {f}, k \in Keys : toFlush'[g][k] = None
  BY <1>1 DEF IInv, TypeOK
<1>3. Carried' /\ Unmarked' /\ RankedLate' /\ DBBehind'
  BY DEF IInv, Order, Carried, Unmarked, RankedLate, DBBehind, DBRank, At
<1>4. DirtyNewest'
  BY <1>1 DEF DirtyNewest
<1>5. BatchBetween'
  <2> SUFFICES ASSUME NEW k \in Keys, dirty[k] # None
               PROVE  DBRank(k) < rank[dirty[k]]
                      /\ rank[dirty[k]] <= accepted[k]
    BY <1>1, <1>2 DEF BatchBetween, DBRank
  <2>1. rank[dirty[k]] = accepted[k] /\ accepted[k] \in Nat
    BY DEF IInv, Order, DirtyNewest, TypeOK
  <2> QED
    BY <2>1 DEF IInv, Order, DirtyNewest
<1>6. NothingLost'
  <2>1. \A k \in Keys : InTransit(k) => InTransit(k)'
    BY <1>2 DEF InTransit
  <2> QED
    BY <2>1 DEF IInv, NothingLost, DBRank
<1> QED
  BY <1>1, <1>2, <1>3, <1>4, <1>5, <1>6 DEF Order

\* The steps of the goroutine and of Stop.
LEMMA ControlSafe ==
    ASSUME IInv, Tick \/ TickDone \/ FlusherExit \/ StopStep
    PROVE  Safe'
<1>1. UNCHANGED <<db, rank, accepted, dropped, op, issued, expired>>
  BY DEF Tick, TickDone, FlusherExit, StopStep, CloseStopCh, Drain, Drained,
         backends, history, load
<1>2. Carried' /\ RankedLate' /\ Unmarked'
  BY <1>1 DEF IInv, Order, Carried, RankedLate, Unmarked, At
<1>3. RunOver' = RunOver
  BY <1>1 DEF RunOver
<1>4. ASSUME Tick PROVE Safe'
  <2>1. \A g \in Flushers, k \in Keys : toFlush[g][k] = None
    BY <1>4 DEF Tick, IInv, Phases, Flushers
  <2>2. /\ Swap("ticker") /\ flusher = "waiting" /\ flusher' = "flushing"
        /\ stopper' = stopper /\ stopper \notin {"draining", "stopped"}
    BY <1>4 DEF Tick, IInv, Phases
  <2>3. /\ Carried' /\ Order' /\ NothingLost'
        /\ \A g \in Flushers \ {"ticker"}, k \in Keys : toFlush'[g][k] = None
    BY <1>1, <2>1, <2>2, SwapSafe DEF Flushers
  <2>4. Phases'
    BY <1>3, <2>2, <2>3 DEF IInv, Phases, Flushers
  <2> QED
    BY <2>3, <2>4 DEF Safe
<1>5. ASSUME TickDone \/ FlusherExit \/ CloseStopCh PROVE Safe'
  <2>1. UNCHANGED <<dirty, toFlush>>
    BY <1>5 DEF TickDone, FlusherExit, CloseStopCh
  <2>2. \/ stopper' = stopper
        \/ stopper = "running" /\ stopper' = "closing" /\ RunOver
    BY <1>5 DEF TickDone, FlusherExit, CloseStopCh
  <2>3. DBBehind' /\ DirtyNewest' /\ BatchBetween' /\ NothingLost'
    BY <1>1, <2>1, <2>2 DEF IInv, Order, DBBehind, DirtyNewest, BatchBetween,
       NothingLost, InTransit, DBRank
  <2>4. Phases'
    <3>1. ASSUME TickDone PROVE Phases'
      BY <1>3, <2>1, <3>1 DEF TickDone, NoEntries, IInv, Phases
    <3>2. ASSUME FlusherExit PROVE Phases'
      BY <1>3, <2>1, <3>2 DEF FlusherExit, IInv, Phases
    <3>3. ASSUME CloseStopCh PROVE Phases'
      BY <1>3, <2>1, <3>3 DEF CloseStopCh, IInv, Phases
    <3> QED
      BY <1>5, <3>1, <3>2, <3>3
  <2> QED
    BY <1>2, <2>3, <2>4 DEF Safe, Order
<1>6. ASSUME Drain, Swap("stopper"), stopper' = "draining" PROVE Safe'
  <2>1. \A g \in Flushers, k \in Keys : toFlush[g][k] = None
    BY <1>6 DEF Drain, IInv, Phases, Flushers
  <2>2. flusher = "exited" /\ flusher' = flusher /\ RunOver
    BY <1>6 DEF Drain, IInv, Phases
  <2>3. /\ Carried' /\ Order' /\ NothingLost'
        /\ \A g \in Flushers \ {"stopper"}, k \in Keys : toFlush'[g][k] = None
        /\ \A k \in Keys : dirty'[k] = None
    BY <1>1, <1>6, <2>1, SwapSafe DEF Flushers
  <2>4. Phases'
    BY <1>3, <1>6, <2>2, <2>3 DEF Phases, Flushers
  <2> QED
    BY <2>3, <2>4 DEF Safe
<1>7. ASSUME \/ Drained
             \/ Drain /\ KeysOf(dirty) = {} /\ UNCHANGED <<dirty, toFlush>>
                      /\ stopper' = "stopped"
      PROVE  Safe'
  <2>1. /\ UNCHANGED <<dirty, toFlush, flusher>>
        /\ stopper' = "stopped" /\ stopper # "running" /\ flusher = "exited"
    BY <1>7 DEF Drain, Drained, IInv, Phases
  <2>2. \A k \in Keys : dirty[k] = None
    BY <1>7 DEF Drain, Drained, KeysOf, IInv, Phases
  <2>3. \A g \in Flushers, k \in Keys : toFlush[g][k] = None
    BY <1>7, <2>1 DEF Drain, Drained, NoEntries, IInv, Phases, Flushers
  <2>4. \A k \in Keys : ~InTransit(k)
    BY <2>2, <2>3 DEF InTransit
  <2>5. NothingLost'
    BY <1>1, <2>1, <2>4 DEF IInv, NothingLost, DBRank
  <2>6. DBBehind' /\ DirtyNewest' /\ BatchBetween'
    BY <1>1, <2>1 DEF IInv, Order, DBBehind, DirtyNewest, BatchBetween, DBRank
  <2>7. Phases'
    BY <1>3, <2>1, <2>2, <2>3 DEF IInv, Phases, Flushers
  <2> QED
    BY <1>2, <2>5, <2>6, <2>7 DEF Safe, Order
<1> QED
  BY <1>4, <1>5, <1>6, <1>7 DEF StopStep, Drain

\* The deadline and evictions.
LEMMA EnvironmentSafe ==
    ASSUME IInv, Deadline \/ \E k \in Keys : EvictEntry(k)
    PROVE  Safe'
<1>1. /\ UNCHANGED stores /\ UNCHANGED <<flusher, op, issued>>
      /\ expired => expired'
  BY DEF Deadline, Expire, EvictEntry, Evict, stores, wbState, history,
         backends, load
<1>2. Carried' /\ RankedLate' /\ Unmarked'
  BY <1>1 DEF stores, IInv, Order, Carried, RankedLate, Unmarked, At
<1>3. RunOver => RunOver'
  BY <1>1 DEF RunOver
<1>4. Phases'
  BY <1>1, <1>3 DEF stores, IInv, Phases
<1> QED
  BY <1>1, <1>2, <1>4, StoresFrame DEF Safe, Order

----------------------------------------------------------------------------
(* The theorems.                                                           *)

\* Initial states satisfy the invariant.
LEMMA InitSafe == Init => IInv
<1> SUFFICES ASSUME Init PROVE IInv
  OBVIOUS
<1>1. TypeOK
  BY InitType
<1>2. /\ op = [w \in Workers |-> Idle] /\ issued = 0
      /\ db = [k \in Keys |-> Seeded]
  BY DEF Init, NewWriteBack, LoadInit, BackendInit
<1>3. Carried /\ RankedLate /\ Unmarked
  <2>1. \A w \in Workers : op[w].at = "idle"
    BY <1>2 DEF Idle
  <2>2. rank = [v \in Values |-> 0] /\ Seeded \in Values
    BY BackendAssumption DEF Init, NewWriteBack, Values, Seeded
  <2> QED
    BY <2>1, <2>2 DEF Carried, RankedLate, Unmarked, At
<1>4. \A k \in Keys : DBRank(k) = 0 /\ accepted[k] = 0 /\ dirty[k] = None
                      /\ \A f \in Flushers : toFlush[f][k] = None
  BY <1>2, BackendAssumption
     DEF Init, NewWriteBack, NoEntries, DBRank, Values, Seeded
<1>5. DBBehind /\ DirtyNewest /\ BatchBetween /\ NothingLost
  BY <1>2, <1>4 DEF DBBehind, DirtyNewest, BatchBetween, NothingLost
<1>6. Phases
  BY <1>4 DEF Init, NewWriteBack, Phases, Flushers
<1>7. RowsKnown
  <2>1. \A w \in Workers : ~At(w, "mark")
    BY <1>2 DEF At, Idle
  <2>2. \A v \in Values : rank[v] = 0
    BY DEF Init, NewWriteBack
  <2> QED
    BY <1>2, <2>1, <2>2 DEF RowsKnown, Older, Seeded
<1> QED
  BY <1>1, <1>3, <1>5, <1>6, <1>7 DEF IInv, Order

\* Every step preserves the invariant but for the rows, of which below.
LEMMA StepOrdered ==
    ASSUME IInv, [Next]_vars
    PROVE  TypeOK' /\ Safe'
<1>1. ASSUME NEW w \in Workers,
             \/ \E k \in Keys : ReadHit(w, k) \/ ReadMiss(w, k)
             \/ ReadError(w) \/ CheckDirty(w)
             \/ Fetch(w) \/ FetchFails(w) \/ Backfill(w)
      PROVE  TypeOK' /\ Safe'
  BY <1>1, ReadType, ReadSafe DEF IInv
<1>2. ASSUME NEW w \in Workers, NEW k \in Keys,
             WriteCache(w, k) \/ WriteCacheFails(w, k)
      PROVE  TypeOK' /\ Safe'
  BY <1>2, WriteType, WriteCacheSafe DEF IInv
<1>3. ASSUME NEW w \in Workers, MarkDirty(w) \/ PublishPending(w)
      PROVE  TypeOK' /\ Safe'
  BY <1>3, WriteType, MarkDirtySafe, PublishSafe DEF IInv
<1>4. ASSUME FlushStep PROVE TypeOK' /\ Safe'
  BY <1>4, RestType, FlushSafe DEF IInv, FlushStep
<1>5. ASSUME Tick \/ TickDone \/ FlusherExit \/ StopStep PROVE TypeOK' /\ Safe'
  BY <1>5, RestType, ControlSafe DEF IInv
<1>6. ASSUME Deadline \/ \E k \in Keys : EvictEntry(k) PROVE TypeOK' /\ Safe'
  BY <1>6, RestType, EnvironmentSafe DEF IInv
<1>7. ASSUME Over \/ UNCHANGED vars PROVE TypeOK' /\ Safe'
  <2>1. UNCHANGED vars
    BY <1>7 DEF Over
  <2>2. TypeOK'
    BY <2>1 DEF vars, wbState, history, IInv, TypeOK, BackendTypeOK,
       LoadTypeOK
  <2>3. UNCHANGED stores /\ UNCHANGED <<flusher, op, issued, expired>>
    BY <2>1 DEF vars, wbState, history, stores
  <2>4. Carried' /\ RankedLate' /\ Unmarked' /\ Phases'
    BY <2>3 DEF stores, IInv, Order, Carried, RankedLate, Unmarked, At,
       Phases, RunOver
  <2> QED
    BY <2>2, <2>3, <2>4, StoresFrame DEF Safe, Order
<1> QED
  BY <1>1, <1>2, <1>3, <1>4, <1>5, <1>6, <1>7 DEF Next, Start, Continue

\* A rank that is given stays, and is a positive number.
LEMMA RankStays ==
    ASSUME IInv, [Next]_vars, NEW v, rank[v] > 0
    PROVE  rank'[v] > 0
<1>1. CASE rank' = rank
  BY <1>1
<1>2. ASSUME NEW w \in Workers, MarkDirty(w) PROVE rank'[v] > 0
  <2>1. op[w] \in InProgress(Stages)
    BY <1>2, Busy DEF IInv, TypeOK, MarkDirty, Stages
  <2>2. accepted[op[w].key] \in Nat /\ rank \in [Values -> Nat]
    BY <2>1 DEF InProgress, IInv, TypeOK
  <2>3. rank' = [rank EXCEPT ![op[w].val] = accepted[op[w].key] + 1]
    BY <1>2 DEF MarkDirty
  <2>4. op[w].val \in Values
    BY <1>2 DEF IInv, Carried, MarkDirty, At
  <2>5. CASE v = op[w].val
    BY <2>2, <2>3, <2>4, <2>5
  <2>6. CASE v # op[w].val
    BY <2>2, <2>3, <2>6
  <2> QED
    BY <2>5, <2>6
<1>3. (\E w \in Workers : MarkDirty(w)) \/ rank' = rank
  BY DEF Next, Start, Continue, ReadHit, ReadMiss, ReadError, CheckDirty, Fetch, FetchFails, Backfill,
     WriteCache, WriteCacheFails, PublishPending, FlushStep, FlushEntry, FlushEntryFails,
     Tick, TickDone, FlusherExit, StopStep, CloseStopCh, Drain, Drained,
     Deadline, EvictEntry, Over, vars, history
<1> QED
  BY <1>1, <1>2, <1>3

\* A row that changes gets a newer accepted value.
LEMMA RowsAdvance ==
    ASSUME IInv, [Next]_vars, NEW k \in Keys, db'[k] # db[k]
    PROVE  DBRank(k)' > DBRank(k) /\ DBRank(k)' > 0
<1>1. PICK f \in Flushers, j \in Keys : FlushEntry(f, j)
  BY DEF Next, Start, Continue, ReadHit, ReadMiss, ReadError, CheckDirty,
     Fetch, FetchFails, Backfill, WriteCache, WriteCacheFails, MarkDirty,
     PublishPending, FlushStep, FlushEntryFails, DBSetLost, DBGet, Tick,
     TickDone, FlusherExit, StopStep, CloseStopCh, Drain, Drained,
     Deadline, EvictEntry, Evict, Over, vars, backends
<1>2. /\ toFlush[f][j] # None
      /\ db' = [db EXCEPT ![j] = toFlush[f][j]]
      /\ rank' = rank
  BY <1>1 DEF FlushEntry, DBSet, history
<1>3. k = j /\ db'[k] = toFlush[f][k]
  BY <1>2 DEF IInv, TypeOK, BackendTypeOK
<1>4. DBRank(k) < rank[toFlush[f][k]] /\ toFlush[f][k] \in Values
  BY <1>2, <1>3, EntryIsValue DEF IInv, TypeOK, Order, BatchBetween
<1> QED
  BY <1>2, <1>3, <1>4 DEF DBRank, IInv, TypeOK, BackendTypeOK

\* Whoever is between the steps of a Write was there before, or has just
\* started with a new value.
LEMMA MarksStay ==
    ASSUME IInv, [Next]_vars, NEW x \in Workers, op'[x].at = "mark", op'[x] # op[x]
    PROVE  op'[x].val = issued + 1
<1>0. op \in [Workers -> Calls(Stages)]
  BY DEF IInv, TypeOK, LoadTypeOK
<1>1. PICK w \in Workers : Start(w) \/ Continue(w)
  BY DEF Next, FlushStep, FlushEntry, FlushEntryFails,
     Tick, TickDone, FlusherExit, StopStep, CloseStopCh, Drain, Drained,
     Deadline, Expire, EvictEntry, Over, vars, load
<1>2. ASSUME NEW k \in Keys, WriteCache(w, k) PROVE op'[x].val = issued + 1
  BY <1>0, <1>2 DEF WriteCache, Goto, Fresh
<1>3. CASE \/ Continue(w)
           \/ \E k \in Keys : ReadHit(w, k) \/ ReadMiss(w, k) \/ WriteCacheFails(w, k)
           \/ ReadError(w)
  <2>1. UNCHANGED op \/ Return(w)
        \/ \E s \in {"check", "fetch", "backfill", "publish"} : \E k, v : Goto(w, s, k, v)
    BY <1>3 DEF Continue, ReadHit, ReadMiss, ReadError, WriteCacheFails, CheckDirty, Fetch,
       FetchFails, Backfill, MarkDirty, PublishPending
  <2>2. op'[x].at \in {"idle", "check", "fetch", "backfill", "publish"}
    BY <1>0, <2>1 DEF Return, Goto, Idle
  <2> QED
    BY <2>2
<1> QED
  BY <1>1, <1>2, <1>3 DEF Start

\* A value from before the run stays one.
OlderNext(v) ==
    /\ v \in 0 .. issued'
    /\ \A u \in Values : rank'[u] > 0 => v < u
    /\ \A w \in Workers : op'[w].at = "mark" => v < op'[w].val

LEMMA OlderStays ==
    ASSUME IInv, [Next]_vars, NEW v, Older(v)
    PROVE  OlderNext(v)
<1>1. issued \in Nat /\ v \in 0 .. issued /\ \A u \in Values : u \in Nat
  BY BackendAssumption DEF IInv, TypeOK, LoadTypeOK, Older, Values
<1>2. issued' \in {issued, issued + 1}
  BY DEF Next, Start, Continue, ReadHit, ReadMiss, ReadError, CheckDirty, Fetch, FetchFails, Backfill,
     WriteCache, WriteCacheFails, MarkDirty, PublishPending, FlushStep, FlushEntry, FlushEntryFails,
     Tick, TickDone, FlusherExit, StopStep, CloseStopCh, Drain, Drained, StartRead, StartWrite,
     Deadline, Expire, EvictEntry, Over, vars, load, Proceeds
<1>3. \A w \in Workers : op'[w].at = "mark" => v < op'[w].val
  BY <1>1, MarksStay DEF Older, At
<1>4. ASSUME NEW u \in Values, rank'[u] > 0 PROVE v < u
  <2>1. CASE rank' = rank
    BY <1>4, <2>1 DEF Older
  <2>2. ASSUME NEW w \in Workers, MarkDirty(w) PROVE v < u
    <3>1. rank' = [rank EXCEPT ![op[w].val] = accepted[op[w].key] + 1] /\ At(w, "mark")
      BY <2>2 DEF MarkDirty
    <3>2. u = op[w].val \/ rank'[u] = rank[u]
      BY <3>1 DEF IInv, TypeOK
    <3> QED
      BY <1>4, <3>1, <3>2 DEF Older
  <2>3. (\E w \in Workers : MarkDirty(w)) \/ rank' = rank
    BY DEF Next, Start, Continue, ReadHit, ReadMiss, ReadError, CheckDirty, Fetch, FetchFails, Backfill,
       WriteCache, WriteCacheFails, PublishPending, FlushStep, FlushEntry, FlushEntryFails,
       Tick, TickDone, FlusherExit, StopStep, CloseStopCh, Drain, Drained,
       Deadline, EvictEntry, Over, vars, history
  <2> QED
    BY <2>1, <2>2, <2>3
<1> QED
  BY <1>1, <1>2, <1>3, <1>4 DEF OlderNext

\* Rows stay known.
LEMMA RowsStep ==
    ASSUME IInv, [Next]_vars
    PROVE  RowsKnown'
<1> SUFFICES ASSUME NEW k \in Keys
             PROVE  DBRank(k)' > 0 \/ OlderNext(db'[k])
  BY DEF RowsKnown, Older, OlderNext, At
<1>1. CASE db'[k] # db[k]
  BY <1>1, RowsAdvance
<1>2. CASE db'[k] = db[k]
  <2>1. rank[db[k]] > 0 \/ Older(db[k])
    BY DEF IInv, RowsKnown, DBRank
  <2>2. rank'[db[k]] > 0 \/ OlderNext(db[k])
    BY <2>1, RankStays, OlderStays
  <2> QED
    BY <1>2, <2>2 DEF DBRank
<1> QED
  BY <1>1, <1>2

\* Every step preserves the invariant.
LEMMA StepSafe ==
    ASSUME IInv, [Next]_vars
    PROVE  IInv'
BY StepOrdered, RowsStep DEF IInv, Safe

\* The invariant is inductive.
THEOREM Invariance == Spec => []IInv
<1>1. IInv /\ [Next]_vars => IInv'
  BY StepSafe
<1> QED
  BY <1>1, InitSafe, PTL DEF Spec

\* Every reachable state is well typed.
THEOREM TypeCorrect == Spec => []TypeOK
<1>1. IInv => TypeOK
  BY DEF IInv
<1> QED
  BY <1>1, Invariance, PTL

\* An accepted write is in the DB, on its way there, or was given up on by a
\* failed db.Set; after Stop it is not on its way any more.
THEOREM Durability == Spec => []NothingLost
<1>1. IInv => NothingLost
  BY DEF IInv
<1> QED
  BY <1>1, Invariance, PTL

\* Stop's flush and a ticker flush never run together.
THEOREM Exclusion == Spec => []OneFlushAtATime
<1>1. IInv => OneFlushAtATime
  <2> DEFINE S == {f \in Flushers : KeysOf(toFlush[f]) # {}}
  <2> SUFFICES ASSUME IInv PROVE Cardinality(S) <= 1
    BY DEF OneFlushAtATime
  <2>1. S = {} \/ S = {"ticker"} \/ S = {"stopper"}
    BY OneHolder DEF KeysOf, Flushers
  <2>2. Cardinality(S) = 0 \/ Cardinality(S) = 1
    BY <2>1, FS_EmptySet, FS_Singleton
  <2> QED
    BY <2>2
<1> QED
  BY <1>1, Invariance, PTL

\* No flush overwrites a newer accepted value with an older one.
THEOREM NoRollback == Spec => DBMonotone
<1>1. IInv /\ [Next]_vars =>
          [\A k \in Keys : db'[k] # db[k] => DBRank(k)' > DBRank(k)]_vars
  BY RowsAdvance
<1> QED
  BY <1>1, Invariance, PTL DEF Spec, DBMonotone

----------------------------------------------------------------------------
(* Refinement: every step is a step of the write-behind store or changes   *)
(* nothing it can see.                                                     *)

\* A step that leaves these alone is a stutter of the store.
LEMMA Unseen ==
    ASSUME UNCHANGED <<accepted, db, rank, dropped>>,
           (stopper' = "stopped") = (stopper = "stopped")
    PROVE  UNCHANGED Promise!store
BY DEF Promise!store, DBRank

\* Marking a key dirty is accepting a write.
LEMMA MarkDirtyAccepts ==
    ASSUME IInv, NEW w \in Workers, MarkDirty(w)
    PROVE  Promise!Accept(op[w].key)
<1> DEFINE k == op[w].key
<1>1. stopper = "running"
  BY CallsBeforeStop DEF Continue
<1>2. /\ accepted' = [accepted EXCEPT ![k] = accepted[k] + 1]
      /\ rank' = [rank EXCEPT ![op[w].val] = accepted[k] + 1]
      /\ dropped' = dropped \ {k}
      /\ UNCHANGED <<db, stopper>>
      /\ At(w, "mark")
  BY DEF MarkDirty, backends
<1>3. \A j \in Keys : DBRank(j)' = DBRank(j)
  <2> TAKE j \in Keys
  <2>1. db[j] \in Values /\ db[j] # op[w].val
    BY <1>2, MarkedIsNew DEF IInv, TypeOK, BackendTypeOK
  <2> QED
    BY <1>2, <2>1 DEF DBRank, IInv, TypeOK
<1> QED
  BY <1>1, <1>2, <1>3 DEF Promise!Accept

\* Writing an entry persists it, and losing one gives the newest write up or
\* changes nothing.
LEMMA FlushPersists ==
    ASSUME IInv, NEW f \in Flushers, NEW k \in Keys,
           FlushEntry(f, k) \/ FlushEntryFails(f, k)
    PROVE  Promise!Persist(k) \/ Promise!GiveUp(k) \/ UNCHANGED Promise!store
<1> DEFINE v == toFlush[f][k]
<1>1. v # None /\ UNCHANGED <<accepted, rank, stopper>>
  BY DEF FlushEntry, FlushEntryFails, history
<1>2. stopper # "stopped"
  BY <1>1, OneHolder
<1>3. /\ v \in Values /\ rank[v] \in Nat
      /\ DBRank(k) < rank[v] /\ rank[v] <= accepted[k]
      /\ DBRank(k) \in Nat /\ accepted[k] \in Nat
  BY <1>1, EntryIsValue DEF IInv, TypeOK, BackendTypeOK, Order, BatchBetween,
     DBRank
<1>4. ASSUME FlushEntry(f, k) PROVE Promise!Persist(k)
  <2>1. db' = [db EXCEPT ![k] = v] /\ UNCHANGED dropped
    BY <1>4 DEF FlushEntry, DBSet, history
  <2>2. /\ DBRank(k)' = rank[v]
        /\ \A j \in Keys \ {k} : DBRank(j)' = DBRank(j)
    BY <1>1, <2>1 DEF DBRank, IInv, TypeOK, BackendTypeOK
  <2>3. rank[v] \in DBRank(k) + 1 .. accepted[k]
    BY <1>3
  <2>4. [j \in Keys |-> DBRank(j)]' =
            [[j \in Keys |-> DBRank(j)] EXCEPT ![k] = rank[v]]
    BY <2>2
  <2> QED
    BY <1>1, <1>2, <2>1, <2>3, <2>4 DEF Promise!Persist
<1>5. ASSUME FlushEntryFails(f, k), rank[v] = accepted[k]
      PROVE  Promise!GiveUp(k)
  <2>1. /\ "db" \in Faults /\ UNCHANGED db
        /\ dropped' = dropped \cup {k}
    BY <1>5 DEF FlushEntryFails, DBSetLost
  <2>2. [j \in Keys |-> DBRank(j)]' = [j \in Keys |-> DBRank(j)]
    BY <1>1, <2>1 DEF DBRank
  <2>3. [j \in Keys |-> DBRank(j)][k] < accepted[k]
    BY <1>3
  <2> QED
    BY <1>1, <1>2, <2>1, <2>2, <2>3 DEF Promise!GiveUp
<1>6. ASSUME FlushEntryFails(f, k), rank[v] # accepted[k]
      PROVE  UNCHANGED Promise!store
  <2>1. UNCHANGED db /\ UNCHANGED dropped
    BY <1>6 DEF FlushEntryFails, DBSetLost
  <2> QED
    BY <1>1, <2>1, Unseen
<1> QED
  BY <1>4, <1>5, <1>6

\* The step with which Stop returns closes the store.
LEMMA StopCloses ==
    ASSUME IInv, IInv', Drain \/ Drained, stopper' = "stopped"
    PROVE  Promise!Close
<1>1. UNCHANGED <<accepted, db, rank, dropped>> /\ stopper # "stopped"
  BY DEF Drain, Drained, backends, history
<1>2. [j \in Keys |-> DBRank(j)]' = [j \in Keys |-> DBRank(j)]
  BY <1>1 DEF DBRank
<1>3. \A k \in Keys \ dropped : DBRank(k) = accepted[k]
  BY <1>1 DEF IInv, NothingLost, DBRank
<1> QED
  BY <1>1, <1>2, <1>3 DEF Promise!Close

\* Write-back implements the write-behind store.
THEOREM Implements == Spec => KeepsPromise
<1>1. Init => Promise!Init
  <2> SUFFICES ASSUME Init PROVE Promise!Init
    OBVIOUS
  <2>1. \A k \in Keys : DBRank(k) = 0
    BY BackendAssumption DEF Init, NewWriteBack, BackendInit, DBRank, Values, Seeded
  <2> QED
    BY <2>1 DEF Init, NewWriteBack, Promise!Init
<1>2. IInv /\ IInv' /\ [Next]_vars => [Promise!Next]_(Promise!store)
  <2> SUFFICES ASSUME IInv, IInv', [Next]_vars
               PROVE  Promise!Next \/ UNCHANGED Promise!store
    OBVIOUS
  <2>1. ASSUME NEW w \in Workers, MarkDirty(w) PROVE Promise!Next
    <3>1. op[w].key \in Keys
      BY <2>1, Busy DEF IInv, TypeOK, MarkDirty, Stages, InProgress
    <3> QED
      BY <2>1, <3>1, MarkDirtyAccepts DEF Promise!Next
  <2>2. ASSUME FlushStep PROVE Promise!Next \/ UNCHANGED Promise!store
    BY <2>2, FlushPersists DEF FlushStep, Promise!Next
  <2>3. ASSUME StopStep PROVE Promise!Next \/ UNCHANGED Promise!store
    <3>1. CASE stopper' = "stopped"
      BY <2>3, <3>1, StopCloses DEF StopStep, CloseStopCh, Promise!Next
    <3>2. CASE stopper' # "stopped"
      <4>1. UNCHANGED <<accepted, db, rank, dropped>> /\ stopper # "stopped"
        BY <2>3 DEF StopStep, CloseStopCh, Drain, Drained, backends, history
      <4> QED
        BY <3>2, <4>1, Unseen
    <3> QED
      BY <3>1, <3>2
  <2>4. ASSUME NEW w \in Workers,
               \/ \E k \in Keys : \/ ReadHit(w, k) \/ ReadMiss(w, k)
                                  \/ WriteCache(w, k) \/ WriteCacheFails(w, k)
               \/ ReadError(w) \/ CheckDirty(w) \/ Fetch(w) \/ FetchFails(w)
               \/ Backfill(w) \/ PublishPending(w)
        PROVE  UNCHANGED Promise!store
    <3>1. UNCHANGED <<accepted, db, rank, dropped, stopper>>
      BY <2>4 DEF ReadHit, ReadMiss, WriteCache, WriteCacheFails, ReadError,
         CheckDirty, Fetch, FetchFails, Backfill, PublishPending, DBGet,
         backends, wbState, history
    <3> QED
      BY <3>1, Unseen
  <2>5. ASSUME \/ Tick \/ TickDone \/ FlusherExit \/ Deadline \/ Over
               \/ UNCHANGED vars \/ \E k \in Keys : EvictEntry(k)
        PROVE  UNCHANGED Promise!store
    <3>1. UNCHANGED <<accepted, db, rank, dropped, stopper>>
      BY <2>5 DEF Tick, TickDone, FlusherExit, Deadline, Over, EvictEntry,
         Evict, vars, backends, wbState, history
    <3> QED
      BY <3>1, Unseen
  <2> QED
    BY <2>1, <2>2, <2>3, <2>4, <2>5 DEF Next, Start, Continue
<1> QED
  BY <1>1, <1>2, Invariance, PTL DEF Spec, KeepsPromise, Promise!Spec

----------------------------------------------------------------------------
(* What readers are shown.                                                 *)

\* A value of k the strategy answers for: the one of the run's first state,
\* or an accepted one.
Known(base, k, v) == v = base[k] \/ rank[v] > 0

\* The rows are such values, and so is what a Read is about to backfill.
RowsFrom(base) == \A k \in Keys : Known(base, k, db[k])
ReadsFrom(base) ==
    \A w \in Workers : op[w].at = "backfill" => Known(base, op[w].key, op[w].val)

\* An entry of the dirty map is an accepted value.
LEMMA DirtyIsKnown ==
    ASSUME IInv, NEW base, NEW k \in Keys, dirty[k] # None
    PROVE  Known(base, k, dirty[k])
<1>1. rank[db[k]] \in Nat /\ rank[dirty[k]] > rank[db[k]]
  BY DEF IInv, TypeOK, BackendTypeOK, Order, DirtyNewest, DBRank
<1>2. rank[dirty[k]] \in Nat
  BY EntryIsValue DEF IInv, TypeOK
<1> QED
  BY <1>1, <1>2 DEF Known

KnownNext(base, k, v) == v = base[k] \/ rank'[v] > 0

\* What is known stays known.
LEMMA KnownStays ==
    ASSUME IInv, [Next]_vars, NEW base, NEW k, NEW v, Known(base, k, v)
    PROVE  KnownNext(base, k, v)
BY RankStays DEF Known, KnownNext

\* The rows stay such values.
LEMMA RowsFromStep ==
    ASSUME IInv, [Next]_vars, NEW base, RowsFrom(base)
    PROVE  RowsFrom(base)'
<1> SUFFICES ASSUME NEW k \in Keys PROVE KnownNext(base, k, db'[k])
  BY DEF RowsFrom, Known, KnownNext
<1>1. CASE db'[k] # db[k]
  BY <1>1, RowsAdvance DEF DBRank, KnownNext
<1>2. CASE db'[k] = db[k]
  BY <1>2, KnownStays DEF RowsFrom
<1> QED
  BY <1>1, <1>2

\* A Read gets its value from the dirty map or from the row.
LEMMA ReadsStep ==
    ASSUME IInv, [Next]_vars, NEW base, RowsFrom(base), ReadsFrom(base)
    PROVE  ReadsFrom(base)'
<1> SUFFICES ASSUME NEW x \in Workers, op'[x].at = "backfill"
             PROVE  KnownNext(base, op'[x].key, op'[x].val)
  BY DEF ReadsFrom, Known, KnownNext
<1>0. op \in [Workers -> Calls(Stages)]
  BY DEF IInv, TypeOK, LoadTypeOK
<1>1. CASE op'[x] = op[x]
  BY <1>1, KnownStays DEF ReadsFrom
<1>2. CASE op'[x] # op[x]
  <2>1. PICK w \in Workers : Start(w) \/ Continue(w)
    BY <1>2 DEF Next, FlushStep, FlushEntry, FlushEntryFails,
       Tick, TickDone, FlusherExit, StopStep, CloseStopCh, Drain, Drained,
       Deadline, Expire, EvictEntry, Over, vars, load
  <2>2. CASE CheckDirty(w)
    <3>1. op[w] \in InProgress(Stages) /\ op[w].at = "check"
      BY <2>2, Busy DEF IInv, TypeOK, CheckDirty, Stages, At
    <3>2. \/ dirty[op[w].key] # None /\ Goto(w, "backfill", op[w].key, dirty[op[w].key])
          \/ Goto(w, "fetch", op[w].key, None)
      BY <2>2 DEF CheckDirty
    <3>3. w = x
      BY <1>0, <1>2, <3>2 DEF Goto
    <3>4. dirty[op[w].key] # None /\ op'[x].val = dirty[op[w].key] /\ op'[x].key = op[w].key
      BY <1>0, <3>2, <3>3 DEF Goto
    <3>5. Known(base, op'[x].key, op'[x].val)
      BY <3>1, <3>4, DirtyIsKnown DEF InProgress, RowsFrom
    <3>6. rank' = rank
      BY <2>2 DEF CheckDirty, history
    <3> QED
      BY <3>5, <3>6 DEF Known, KnownNext
  <2>3. CASE Fetch(w)
    <3>1. op[w] \in InProgress(Stages)
      BY <2>3, Busy DEF IInv, TypeOK, Fetch, Stages
    <3>2. Goto(w, "backfill", op[w].key, db[op[w].key]) /\ rank' = rank
      BY <2>3 DEF Fetch, history
    <3>3. w = x
      BY <1>0, <1>2, <3>2 DEF Goto
    <3>4. op'[x].val = db[op[w].key] /\ op'[x].key = op[w].key
      BY <1>0, <3>2, <3>3 DEF Goto
    <3>5. Known(base, op'[x].key, op'[x].val)
      BY <3>1, <3>4, DirtyIsKnown DEF InProgress, RowsFrom
    <3> QED
      BY <3>2, <3>5 DEF Known, KnownNext
  <2>4. CASE Start(w) \/ FetchFails(w) \/ Backfill(w) \/ MarkDirty(w) \/ PublishPending(w)
    <3>1. UNCHANGED op \/ Return(w)
          \/ \E s \in {"check", "mark", "publish"} : \E k, v : Goto(w, s, k, v)
      BY <2>4 DEF Start, ReadHit, ReadMiss, ReadError, WriteCache, WriteCacheFails, FetchFails, Backfill,
         MarkDirty, PublishPending
    <3>2. op'[x].at \in {"idle", "check", "mark", "publish"}
      BY <1>0, <1>2, <3>1 DEF Return, Goto, Idle
    <3> QED
      BY <3>2
  <2> QED
    BY <2>1, <2>2, <2>3, <2>4 DEF Continue
<1> QED
  BY <1>1, <1>2

\* A Write of k carries v and has not marked it yet.
Mid(k, v) == \E w \in Workers : op[w].at = "mark" /\ op[w].key = k /\ op[w].val = v
MidNext(k, v) == \E w \in Workers : op'[w].at = "mark" /\ op'[w].key = k /\ op'[w].val = v

\* A Write that is no longer between its two steps has marked its value.
LEMMA MidStays ==
    ASSUME IInv, [Next]_vars, NEW k, NEW v, Mid(k, v)
    PROVE  MidNext(k, v) \/ rank'[v] > 0
<1>0. op \in [Workers -> Calls(Stages)]
  BY DEF IInv, TypeOK, LoadTypeOK
<1>1. PICK y \in Workers : op[y].at = "mark" /\ op[y].key = k /\ op[y].val = v
  BY DEF Mid
<1>2. CASE op'[y] = op[y]
  BY <1>1, <1>2 DEF MidNext
<1>3. CASE op'[y] # op[y]
  <2>1. PICK w \in Workers : Start(w) \/ Continue(w)
    BY <1>3 DEF Next, FlushStep, FlushEntry, FlushEntryFails,
       Tick, TickDone, FlusherExit, StopStep, CloseStopCh, Drain, Drained,
       Deadline, Expire, EvictEntry, Over, vars, load
  <2>2. op' = op \/ \E call : op' = [op EXCEPT ![w] = call]
    BY <2>1 DEF Start, Continue, ReadHit, ReadMiss, ReadError, CheckDirty, Fetch, FetchFails, Backfill,
       WriteCache, WriteCacheFails, MarkDirty, PublishPending, Goto, Return
  <2>3. w = y
    BY <1>0, <1>3, <2>2
  <2>4. MarkDirty(y)
    <3>1. ASSUME Start(y) PROVE op[y] = Idle
      BY <3>1 DEF Start, ReadHit, ReadMiss, ReadError, WriteCache, WriteCacheFails, StartRead, StartWrite
    <3>2. ~Start(y)
      BY <1>1, <3>1 DEF Idle
    <3>3. Continue(y)
      BY <2>1, <2>3, <3>2
    <3> QED
      BY <1>1, <3>3 DEF Continue, CheckDirty, Fetch, FetchFails, Backfill, PublishPending, At
  <2>5. op[y] \in InProgress(Stages)
    BY <2>4, Busy DEF IInv, TypeOK, MarkDirty, Stages
  <2>6. accepted[op[y].key] \in Nat /\ rank \in [Values -> Nat] /\ op[y].val \in Values
    BY <1>1, <2>5 DEF InProgress, IInv, TypeOK, Carried
  <2>7. rank' = [rank EXCEPT ![op[y].val] = accepted[op[y].key] + 1]
    BY <2>4 DEF MarkDirty
  <2> QED
    BY <1>1, <2>6, <2>7
<1> QED
  BY <1>2, <1>3

\* An entry the strategy answers for, or somebody's unfinished Write.
EntryFrom(base, k) ==
    cache[k] # None =>
        Known(base, k, cache[k]) \/ cache[k] \in MidWrite(k) \cup refused

\* What the cache is given is a known value, the value of a Write that has
\* not marked it yet, or one whose Write fails.
LEMMA CacheStep ==
    ASSUME IInv, [Next]_vars, NEW base, ReadsFrom(base),
           NEW k \in Keys, EntryFrom(base, k) \/ cache'[k] # cache[k]
    PROVE  EntryFrom(base, k)'
<1>0. op \in [Workers -> Calls(Stages)] /\ cache \in [Keys -> MaybeValue]
  BY DEF IInv, TypeOK, LoadTypeOK, BackendTypeOK
<1> SUFFICES ASSUME cache'[k] # None
             PROVE  KnownNext(base, k, cache'[k]) \/ MidNext(k, cache'[k]) \/ cache'[k] \in refused'
  BY DEF EntryFrom, Known, KnownNext, MidWrite, MidNext, At
<1>1. refused \subseteq refused'
  BY DEF Next, Start, Continue, ReadHit, ReadMiss, ReadError, CheckDirty, Fetch, FetchFails, Backfill,
     WriteCache, WriteCacheFails, MarkDirty, PublishPending, FlushStep, FlushEntry, FlushEntryFails,
     Tick, TickDone, FlusherExit, StopStep, CloseStopCh, Drain, Drained,
     Deadline, EvictEntry, Over, vars, history
<1>2. CASE cache'[k] = cache[k]
  <2>1. Known(base, k, cache[k]) \/ Mid(k, cache[k]) \/ cache[k] \in refused
    BY <1>2 DEF EntryFrom, Known, MidWrite, Mid, At
  <2> QED
    BY <1>1, <1>2, <2>1, KnownStays, MidStays DEF KnownNext
<1>3. CASE cache'[k] # cache[k]
  <2>1. \/ \E w \in Workers, j \in Keys : WriteCache(w, j) \/ WriteCacheFails(w, j)
        \/ \E w \in Workers : Backfill(w)
        \/ \E j \in Keys : EvictEntry(j)
    <3>1. ASSUME NEW w \in Workers,
                 \/ \E j \in Keys : ReadHit(w, j) \/ ReadMiss(w, j)
                 \/ ReadError(w) \/ CheckDirty(w) \/ Fetch(w) \/ FetchFails(w)
                 \/ MarkDirty(w) \/ PublishPending(w)
          PROVE  cache' = cache
      BY <3>1 DEF ReadHit, ReadMiss, ReadError, CheckDirty, Fetch, FetchFails, MarkDirty, PublishPending, backends
    <3>2. ASSUME \/ FlushStep \/ Tick \/ TickDone \/ FlusherExit \/ StopStep
                 \/ Deadline \/ Over \/ UNCHANGED vars
          PROVE  cache' = cache
      BY <3>2 DEF FlushStep, FlushEntry, FlushEntryFails, Tick, TickDone, FlusherExit,
         StopStep, CloseStopCh, Drain, Drained, Deadline, Over, vars, backends
    <3> QED
      BY <1>3, <3>1, <3>2 DEF Next, Start, Continue
  <2>2. ASSUME NEW w \in Workers, NEW j \in Keys, WriteCache(w, j) PROVE MidNext(k, cache'[k])
    <3>1. cache' = [cache EXCEPT ![j] = Fresh]
      BY <2>2 DEF WriteCache, CacheSet
    <3>2. op' = [op EXCEPT ![w] = [at |-> "mark", key |-> j, val |-> Fresh]]
      BY <2>2 DEF WriteCache, Goto
    <3>3. j = k /\ cache'[k] = Fresh
      BY <1>0, <1>3, <3>1
    <3> QED
      BY <1>0, <3>2, <3>3 DEF MidNext
  <2>3. ASSUME NEW w \in Workers, NEW j \in Keys, WriteCacheFails(w, j) PROVE cache'[k] \in refused'
    <3>1. cache' = [cache EXCEPT ![j] = Fresh] \/ cache' = cache
      BY <2>3 DEF WriteCacheFails, CacheSet, CacheUnreached
    <3>2. cache'[k] = Fresh
      BY <1>0, <1>3, <3>1
    <3> QED
      BY <2>3, <3>2 DEF WriteCacheFails
  <2>4. ASSUME NEW w \in Workers, Backfill(w) PROVE KnownNext(base, k, cache'[k])
    <3>1. cache' = [cache EXCEPT ![op[w].key] = op[w].val] \/ cache' = cache
      BY <2>4 DEF Backfill, CacheSet, CacheUnreached
    <3>2. cache'[k] = op[w].val /\ k = op[w].key
      BY <1>0, <1>3, <3>1
    <3> QED
      BY <2>4, <3>2, KnownStays DEF ReadsFrom, Backfill, At
  <2>5. ASSUME NEW j \in Keys, EvictEntry(j) PROVE FALSE
    BY <1>0, <1>3, <2>5 DEF EvictEntry, Evict, CacheDelete
  <2> QED
    BY <2>1, <2>2, <2>3, <2>4, <2>5
<1> QED
  BY <1>2, <1>3

\* Readers are never shown a value out of nowhere.
THEOREM Provenance == Spec => []CacheAccountedFor
<1> DEFINE Found == [k \in Keys |-> Seeded]
           Shown == /\ RowsFrom(Found) /\ ReadsFrom(Found)
                    /\ \A k \in Keys : EntryFrom(Found, k)
<1>1. Init => Shown
  BY DEF Init, NewWriteBack, LoadInit, BackendInit, Idle, RowsFrom, ReadsFrom, EntryFrom, Known
<1>2. IInv /\ Shown /\ [Next]_vars => Shown'
  <2> SUFFICES ASSUME IInv, Shown, [Next]_vars PROVE Shown'
    OBVIOUS
  <2>1. PICK base : base = Found
    OBVIOUS
  <2>2. RowsFrom(base) /\ ReadsFrom(base) /\ \A k \in Keys : EntryFrom(base, k)
    BY <2>1
  <2>3. RowsFrom(base)' /\ ReadsFrom(base)' /\ \A k \in Keys : EntryFrom(base, k)'
    BY <2>2, RowsFromStep, ReadsStep, CacheStep
  <2> QED
    BY <2>1, <2>3
<1>3. Shown => CacheAccountedFor
  BY DEF EntryFrom, Known, CacheAccountedFor
<1> QED
  BY <1>1, <1>2, <1>3, Invariance, PTL DEF Spec

----------------------------------------------------------------------------
(* The bound on DB calls.                                                  *)

Waiting == KeysOf(dirty)
Batch   == {e \in Flushers \X Keys : toFlush[e[1]][e[2]] # None}
Seeking == {w \in Workers : op[w].at \in {"check", "fetch"}}

\* All four are finite, so the bound compares natural numbers.
LEMMA Finite ==
    ASSUME TypeOK
    PROVE  /\ IsFiniteSet(Waiting) /\ IsFiniteSet(Batch) /\ IsFiniteSet(Seeking) /\ IsFiniteSet(Accepted)
           /\ Cardinality(Waiting) \in Nat /\ Cardinality(Batch) \in Nat
           /\ Cardinality(Seeking) \in Nat /\ Cardinality(Accepted) \in Nat
           /\ calls \in Nat /\ looked \in Nat
<1>1. IsFiniteSet(Waiting)
  BY KeysAssumption, FS_Subset DEF Waiting, KeysOf
<1>2. IsFiniteSet(Flushers)
  <2>1. IsFiniteSet({"ticker"} \cup {"stopper"})
    BY FS_Singleton, FS_AddElement
  <2>2. Flushers = {"ticker"} \cup {"stopper"}
    BY DEF Flushers
  <2> QED
    BY <2>1, <2>2
<1>3. IsFiniteSet(Batch)
  <2>1. IsFiniteSet(Flushers \X Keys)
    BY <1>2, KeysAssumption, FS_Product
  <2> QED
    BY <2>1, FS_Subset DEF Batch
<1>4. IsFiniteSet(Seeking)
  BY WorkersAssumption, FS_Subset DEF Seeking
<1>5. IsFiniteSet(Accepted)
  <2>1. IsFiniteSet(Values)
    BY BackendAssumption, FS_Interval DEF Values
  <2> QED
    BY <2>1, FS_Subset DEF Accepted
<1>6. calls \in Nat /\ looked \in Nat
  BY LoadAssumption DEF TypeOK, BackendTypeOK, LoadTypeOK
<1> QED
  BY <1>1, <1>3, <1>4, <1>5, <1>6, FS_CardinalityType

LEMMA BoundParts ==
    DBCallsBounded <=> calls + (Cardinality(Waiting) + Cardinality(Batch) + Cardinality(Seeking))
                           <= Cardinality(Accepted) + looked
BY DEF DBCallsBounded, Owed, Waiting, Batch, Seeking

\* What the bound compares, in the next state.
W == Cardinality(Waiting')
B == Cardinality(Batch')
S == Cardinality(Seeking')
A == Cardinality(Accepted')

LEMMA NextParts ==
    ASSUME calls' + (W + B + S) <= A + looked'
    PROVE  DBCallsBounded'
BY DEF DBCallsBounded, Owed, Waiting, Batch, Seeking, W, B, S, A

\* A Read starts: it may come to the DB once.
LEMMA StartBounded ==
    ASSUME IInv, TypeOK', DBCallsBounded, NEW w \in Workers, Start(w)
    PROVE  DBCallsBounded'
<1>0. op \in [Workers -> Calls(Stages)]
  BY DEF IInv, TypeOK, LoadTypeOK
<1>a. /\ IsFiniteSet(Seeking) /\ Cardinality(Seeking) \in Nat /\ Cardinality(Waiting) \in Nat
      /\ Cardinality(Batch) \in Nat /\ Cardinality(Accepted) \in Nat /\ calls \in Nat /\ looked \in Nat
  BY Finite DEF IInv
<1>1. UNCHANGED <<Waiting, Batch, Accepted, calls>>
  BY DEF Start, ReadHit, ReadMiss, ReadError, WriteCache, WriteCacheFails, backends, wbState, history,
     Waiting, KeysOf, Batch, Accepted
<1>2. W = Cardinality(Waiting) /\ B = Cardinality(Batch) /\ A = Cardinality(Accepted)
  BY <1>1 DEF W, B, A
<1>3. CASE looked' = looked + 1
  <2>1. Seeking' \in SUBSET (Seeking \cup {w})
    <3>1. op' = op \/ \E call : op' = [op EXCEPT ![w] = call]
      BY DEF Start, ReadHit, ReadMiss, ReadError, WriteCache, WriteCacheFails, Goto
    <3> QED
      BY <1>0, <3>1 DEF Seeking
  <2>2. /\ IsFiniteSet(Seeking \cup {w})
        /\ Cardinality(Seeking \cup {w}) <= Cardinality(Seeking) + 1
    <3>1. PICK seeking : seeking = Seeking
      OBVIOUS
    <3>2. /\ IsFiniteSet(seeking \cup {w})
          /\ Cardinality(seeking \cup {w}) = IF w \in seeking THEN Cardinality(seeking)
                                             ELSE Cardinality(seeking) + 1
      BY <1>a, <3>1, FS_AddElement
    <3> QED
      BY <1>a, <3>1, <3>2
  <2>3. S <= Cardinality(Seeking \cup {w}) /\ S \in Nat
    BY <2>1, <2>2, FS_Subset, FS_CardinalityType DEF S
  <2>4. S <= Cardinality(Seeking) + 1
    BY <1>a, <2>2, <2>3, FS_CardinalityType
  <2> QED
    BY <1>1, <1>2, <1>3, <1>a, <2>3, <2>4, BoundParts, NextParts
<1>4. CASE looked' = looked
  <2>1. op[w] = Idle
    BY DEF Start, ReadHit, ReadMiss, ReadError, WriteCache, WriteCacheFails, StartRead, StartWrite
  <2>2. ~StartRead(w)
    BY <1>a, <1>4 DEF StartRead
  <2>3. op' = op \/ \E k : Goto(w, "mark", k, Fresh)
    BY <2>2 DEF Start, ReadHit, ReadMiss, ReadError, WriteCache, WriteCacheFails
  <2>4. Seeking' = Seeking
    BY <1>0, <2>1, <2>3 DEF Seeking, Goto, Idle
  <2> QED
    BY <1>1, <1>2, <1>4, <1>a, <2>4, BoundParts, NextParts DEF S
<1> QED
  BY <1>3, <1>4 DEF Start, ReadHit, ReadMiss, ReadError, WriteCache, WriteCacheFails, StartRead, StartWrite

\* A step of a call: a Read leaves for the DB at most once, and every value
\* is marked once.
LEMMA ContinueBounded ==
    ASSUME IInv, TypeOK', DBCallsBounded, NEW w \in Workers, Continue(w)
    PROVE  DBCallsBounded'
<1>0. op \in [Workers -> Calls(Stages)]
  BY DEF IInv, TypeOK, LoadTypeOK
<1>a. /\ IsFiniteSet(Seeking) /\ Cardinality(Seeking) \in Nat /\ Cardinality(Waiting) \in Nat
      /\ Cardinality(Batch) \in Nat /\ Cardinality(Accepted) \in Nat /\ calls \in Nat /\ looked \in Nat
      /\ IsFiniteSet(Waiting) /\ IsFiniteSet(Accepted)
  BY Finite DEF IInv
<1>1. looked' = looked /\ B = Cardinality(Batch)
  BY DEF Continue, CheckDirty, Fetch, FetchFails, Backfill, MarkDirty, PublishPending, Proceeds, wbState, Batch, B
<1>2. ASSUME \/ CheckDirty(w) \/ Fetch(w) \/ FetchFails(w) \/ Backfill(w) \/ PublishPending(w)
      PROVE  UNCHANGED <<Waiting, Accepted>> /\ W = Cardinality(Waiting) /\ A = Cardinality(Accepted)
  BY <1>2 DEF CheckDirty, Fetch, FetchFails, Backfill, PublishPending, wbState, history, Waiting, KeysOf, Accepted, W, A
<1>3. CASE CheckDirty(w)
  <2>1. calls' = calls
    BY <1>3 DEF CheckDirty, backends
  <2>2. op[w].at = "check" /\ \E s \in {"backfill", "fetch"} : \E k, v : Goto(w, s, k, v)
    BY <1>3 DEF CheckDirty, At
  <2>3. Seeking' \in SUBSET Seeking
    BY <1>0, <2>2 DEF Seeking, Goto
  <2>4. S <= Cardinality(Seeking) /\ S \in Nat
    BY <1>a, <2>3, FS_Subset, FS_CardinalityType DEF S
  <2> QED
    BY <1>a, <1>1, <1>2, <1>3, <2>1, <2>4, BoundParts, NextParts
<1>4. CASE Fetch(w) \/ FetchFails(w)
  <2>1. calls' = calls + 1
    BY <1>4 DEF Fetch, FetchFails, DBGet
  <2>2. op[w].at = "fetch" /\ (Return(w) \/ \E k, v : Goto(w, "backfill", k, v))
    BY <1>4 DEF Fetch, FetchFails, At
  <2>3. Seeking' = Seeking \ {w} /\ w \in Seeking
    BY <1>0, <2>2 DEF Seeking, Goto, Return, Idle
  <2>4. S = Cardinality(Seeking) - 1
    BY <1>a, <2>3, FS_RemoveElement DEF S
  <2> QED
    BY <1>a, <1>1, <1>2, <1>4, <2>1, <2>4, BoundParts, NextParts
<1>5. CASE Backfill(w) \/ PublishPending(w)
  <2>1. calls' = calls /\ op[w].at \in {"backfill", "publish"} /\ Return(w)
    BY <1>5 DEF Backfill, PublishPending, At, backends
  <2>2. Seeking' = Seeking
    BY <1>0, <2>1 DEF Seeking, Return, Idle
  <2> QED
    BY <1>a, <1>1, <1>2, <1>5, <2>1, <2>2, BoundParts, NextParts DEF S
<1>6. CASE MarkDirty(w)
  <2> DEFINE k == op[w].key
             v == op[w].val
  <2>1. op[w] \in InProgress(Stages) /\ op[w].at = "mark"
    BY <1>6, Busy DEF IInv, TypeOK, MarkDirty, Stages, At
  <2>2. /\ calls' = calls /\ dirty' = [dirty EXCEPT ![k] = v]
        /\ rank' = [rank EXCEPT ![v] = accepted[k] + 1] /\ Goto(w, "publish", k, v)
    BY <1>6 DEF MarkDirty, backends
  <2>3. /\ k \in Keys /\ v \in Values /\ accepted[k] \in Nat /\ rank[v] = 0
        /\ dirty \in [Keys -> MaybeValue] /\ rank \in [Values -> Nat]
    BY <1>6, <2>1 DEF InProgress, IInv, TypeOK, Carried, Order, Unmarked, At
  <2>4. Seeking' = Seeking
    BY <1>0, <2>1, <2>2 DEF Seeking, Goto
  <2> HIDE DEF k, v
  <2>5. Waiting' \in SUBSET (Waiting \cup {k})
    BY <2>2, <2>3 DEF Waiting, KeysOf
  <2>6. /\ IsFiniteSet(Waiting \cup {k})
        /\ Cardinality(Waiting \cup {k}) <= Cardinality(Waiting) + 1
    <3>1. /\ IsFiniteSet(Waiting \cup {k})
          /\ Cardinality(Waiting \cup {k}) =
                 IF k \in Waiting THEN Cardinality(Waiting) ELSE Cardinality(Waiting) + 1
      BY <1>a, FS_AddElement
    <3> QED
      BY <1>a, <3>1
  <2>7. W <= Cardinality(Waiting) + 1 /\ W \in Nat
    <3>1. W <= Cardinality(Waiting \cup {k}) /\ W \in Nat
      BY <2>5, <2>6, FS_Subset, FS_CardinalityType DEF W
    <3> QED
      BY <1>a, <2>6, <3>1, FS_CardinalityType
  <2>8. Accepted' = Accepted \cup {v} /\ v \notin Accepted
    BY <2>2, <2>3 DEF Accepted
  <2>9. A = Cardinality(Accepted) + 1
    BY <1>a, <2>8, FS_AddElement DEF A
  <2>10. S = Cardinality(Seeking)
    BY <2>4 DEF S
  <2> QED
    BY <1>a, <1>1, <2>2, <2>7, <2>9, <2>10, BoundParts, NextParts
<1> QED
  BY <1>3, <1>4, <1>5, <1>6 DEF Continue

\* Flushing an entry pays for it.
LEMMA FlushBounded ==
    ASSUME IInv, DBCallsBounded, NEW f \in Flushers, NEW k \in Keys,
           FlushEntry(f, k) \/ FlushEntryFails(f, k)
    PROVE  DBCallsBounded'
<1>a. /\ Cardinality(Seeking) \in Nat /\ Cardinality(Waiting) \in Nat /\ IsFiniteSet(Batch)
      /\ Cardinality(Batch) \in Nat /\ Cardinality(Accepted) \in Nat /\ calls \in Nat /\ looked \in Nat
  BY Finite DEF IInv
<1>1. /\ toFlush[f][k] # None /\ toFlush' = [toFlush EXCEPT ![f][k] = None]
      /\ UNCHANGED <<dirty, rank, op, looked>> /\ calls' = calls + 1
  BY DEF FlushEntry, FlushEntryFails, Taken, DBSet, DBSetLost, history, load
<1>2. UNCHANGED <<Waiting, Accepted, Seeking>>
  BY <1>1 DEF Waiting, KeysOf, Accepted, Seeking
<1>3. W = Cardinality(Waiting) /\ A = Cardinality(Accepted) /\ S = Cardinality(Seeking)
  BY <1>2 DEF W, A, S
<1>4. Batch' = Batch \ {<<f, k>>} /\ <<f, k>> \in Batch
  <2>1. toFlush \in [Flushers -> [Keys -> MaybeValue]]
    BY DEF IInv, TypeOK
  <2>2. \A g \in Flushers, i \in Keys :
            toFlush'[g][i] = IF g = f /\ i = k THEN None ELSE toFlush[g][i]
    BY <1>1, <2>1
  <2> QED
    BY <1>1, <2>2 DEF Batch
<1>5. B = Cardinality(Batch) - 1
  BY <1>a, <1>4, FS_RemoveElement DEF B
<1> QED
  BY <1>a, <1>1, <1>3, <1>5, BoundParts, NextParts

\* Swapping the map out moves what is owed to the batch.
LEMMA SwapBounded ==
    ASSUME IInv, TypeOK', DBCallsBounded, NEW f \in Flushers, Swap(f),
           \A g \in Flushers, k \in Keys : toFlush[g][k] = None,
           UNCHANGED <<calls, looked, rank, op>>
    PROVE  DBCallsBounded'
<1>a. /\ Cardinality(Seeking) \in Nat /\ Cardinality(Waiting) \in Nat /\ IsFiniteSet(Waiting)
      /\ Cardinality(Batch) \in Nat /\ Cardinality(Accepted) \in Nat /\ calls \in Nat /\ looked \in Nat
  BY Finite DEF IInv
<1>1. UNCHANGED <<Accepted, Seeking>> /\ A = Cardinality(Accepted) /\ S = Cardinality(Seeking)
  BY DEF Accepted, Seeking, A, S
<1>2. Waiting' = {}
  BY DEF Swap, NoEntries, Waiting, KeysOf
<1>3. W = 0
  BY <1>2, FS_EmptySet DEF W
<1>4. \A e \in Batch' : e[1] = f /\ e[2] \in Waiting /\ e = <<e[1], e[2]>>
  <2>1. toFlush' = [toFlush EXCEPT ![f] = dirty] /\ toFlush \in [Flushers -> [Keys -> MaybeValue]]
    BY DEF Swap, IInv, TypeOK
  <2> QED
    BY <2>1 DEF Batch, Waiting, KeysOf
<1>5. B <= Cardinality(Waiting) /\ B \in Nat
  <2> DEFINE key == [e \in Batch' |-> e[2]]
  <2>1. key \in Injection(Batch', Waiting)
    BY <1>4 DEF Injection, IsInjective
  <2> HIDE DEF key
  <2>2. IsFiniteSet(Batch') /\ Cardinality(Batch') <= Cardinality(Waiting)
    BY <1>a, <2>1, FS_Injection
  <2> QED
    BY <2>2, FS_CardinalityType DEF B
<1> QED
  BY <1>a, <1>1, <1>3, <1>5, BoundParts, NextParts

\* Nothing that is owed or counted changes.
LEMMA StillBounded ==
    ASSUME DBCallsBounded, UNCHANGED <<calls, looked, rank, op, dirty, toFlush>>
    PROVE  DBCallsBounded'
BY DEF DBCallsBounded, Owed, Accepted, KeysOf

LEMMA ControlBounded ==
    ASSUME IInv, TypeOK', DBCallsBounded,
           \/ Tick \/ TickDone \/ FlusherExit \/ StopStep
           \/ Deadline \/ (\E k \in Keys : EvictEntry(k)) \/ UNCHANGED vars
    PROVE  DBCallsBounded'
<1>1. CASE Tick
  <2>1. \A g \in Flushers, k \in Keys : toFlush[g][k] = None
    BY <1>1 DEF Tick, IInv, Phases, Flushers
  <2>2. Swap("ticker") /\ UNCHANGED <<calls, looked, rank, op>> /\ "ticker" \in Flushers
    BY <1>1 DEF Tick, backends, load, history, Flushers
  <2> QED
    BY <2>1, <2>2, SwapBounded
<1>2. CASE Drain /\ Swap("stopper")
  <2>1. \A g \in Flushers, k \in Keys : toFlush[g][k] = None
    BY <1>2 DEF Drain, IInv, Phases, Flushers
  <2>2. UNCHANGED <<calls, looked, rank, op>> /\ "stopper" \in Flushers
    BY <1>2 DEF Drain, backends, load, history, Flushers
  <2> QED
    BY <1>2, <2>1, <2>2, SwapBounded
<1>3. CASE Drain /\ UNCHANGED <<dirty, toFlush>>
  BY <1>3, StillBounded DEF Drain, backends, load, history
<1>4. CASE TickDone \/ FlusherExit \/ CloseStopCh \/ Drained
  BY <1>4, StillBounded DEF TickDone, FlusherExit, CloseStopCh, Drained, backends, load, history
<1>5. CASE Deadline \/ (\E k \in Keys : EvictEntry(k)) \/ UNCHANGED vars
  BY <1>5, StillBounded DEF Deadline, Expire, EvictEntry, Evict, vars, backends, load, history, wbState
<1>6. Drain => Swap("stopper") \/ UNCHANGED <<dirty, toFlush>>
  BY DEF Drain
<1> QED
  BY <1>1, <1>2, <1>3, <1>4, <1>5, <1>6 DEF StopStep

\* No step breaks the bound.
LEMMA StepBounded ==
    ASSUME IInv, TypeOK', DBCallsBounded, [Next]_vars
    PROVE  DBCallsBounded'
BY StartBounded, ContinueBounded, FlushBounded, ControlBounded DEF Next, FlushStep, Over

\* Where nobody has called anybody it holds.
Untouched ==
    /\ calls = 0 /\ looked = 0
    /\ op = [w \in Workers |-> Idle]
    /\ dirty = NoEntries /\ toFlush = [f \in Flushers |-> NoEntries]

LEMMA UntouchedBounded ==
    ASSUME TypeOK, Untouched
    PROVE  DBCallsBounded
<1>1. Waiting = {} /\ Batch = {} /\ Seeking = {}
  BY DEF Untouched, Idle, NoEntries, Waiting, KeysOf, Batch, Seeking, Flushers
<1>2. Cardinality(Waiting) = 0 /\ Cardinality(Batch) = 0 /\ Cardinality(Seeking) = 0
  BY <1>1, FS_EmptySet
<1>3. Cardinality(Accepted) \in Nat
  BY Finite
<1> QED
  BY <1>2, <1>3, BoundParts DEF Untouched

\* Write-back never costs the DB more than one call per accepted write and
\* one per Read.
THEOREM Economy == Spec => []DBCallsBounded
<1>1. Init => DBCallsBounded
  BY InitType, UntouchedBounded DEF Init, NewWriteBack, LoadInit, BackendInit, Untouched
<1>2. IInv /\ IInv' /\ DBCallsBounded /\ [Next]_vars => DBCallsBounded'
  BY StepBounded DEF IInv
<1> QED
  BY <1>1, <1>2, Invariance, PTL DEF Spec
=============================================================================
