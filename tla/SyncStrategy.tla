---------------------------- MODULE SyncStrategy ----------------------------
(***************************************************************************)
(* What Lazy Loading and Write-Through share: the read path (cache, then   *)
(* DB, then backfill) and a Write that commits to the DB first and then    *)
(* touches the cache.  The two differ in that last step, "settle".         *)
(*                                                                         *)
(* A Write starts and reaches the DB in one step, so that the values of    *)
(* this module are numbered in the order in which the DB received them.    *)
(***************************************************************************)
EXTENDS LoadGen

VARIABLES
    failed,    \* history: DB calls that returned an error
    suspect    \* history: keys whose cache entry may be stale, because a
               \* call overtaken in the DB or a failed call left it behind

vars == <<cache, db, calls, op, issued, looked, expired, metrics,
          failed, suspect>>

Stages == {"fetch", "backfill", "settle"}

TypeOK ==
    /\ BackendTypeOK
    /\ LoadTypeOK(Stages)
    /\ failed \in Nat
    /\ suspect \subseteq Keys

Init ==
    /\ BackendInit
    /\ LoadInit
    /\ failed = 0
    /\ suspect = {}

\* The value worker w holds is no longer the one the DB holds for its key.
Overtaken(w) == op[w].val # db[op[w].key]

\* The entry of k after a cache.Set by w took effect, or after it is gone.
Mark(w) ==
    suspect' = IF Overtaken(w) THEN suspect \cup {op[w].key}
                               ELSE suspect \ {op[w].key}
Clear(k) == suspect' = suspect \ {k}

----------------------------------------------------------------------------
(* Read.                                                                   *)

ReadHit(w, k) ==
    /\ StartRead(w)
    /\ cache[k] # None
    /\ RecordRead(TRUE)
    /\ UNCHANGED <<op, backends, failed, suspect>>

ReadMiss(w, k) ==
    /\ StartRead(w)
    /\ cache[k] = None
    /\ Goto(w, "fetch", k, None)
    /\ UNCHANGED <<metrics, backends, failed, suspect>>

\* cache.Get failed with something else than ErrCacheMiss.
ReadError(w) ==
    /\ "cache" \in Faults
    /\ StartRead(w)
    /\ UNCHANGED <<op, metrics, backends, failed, suspect>>

Fetch(w) ==
    /\ At(w, "fetch")
    /\ DBGet
    /\ Goto(w, "backfill", op[w].key, db[op[w].key])
    /\ Proceeds
    /\ UNCHANGED <<metrics, cache, failed, suspect>>

\* Seeded fault: the read is recorded before the error is looked at.
FetchFailsRecorded(w) ==
    /\ "db" \in Faults
    /\ At(w, "fetch")
    /\ DBGet
    /\ failed' = failed + 1
    /\ RecordRead(FALSE)
    /\ Return(w)
    /\ Proceeds
    /\ UNCHANGED <<cache, suspect>>

FetchFails(w) ==
    /\ "db" \in Faults
    /\ At(w, "fetch")
    /\ DBGet
    /\ failed' = failed + 1
    /\ Return(w)
    /\ Proceeds
    /\ UNCHANGED <<metrics, cache, suspect>>

\* The call's last cache step: its outcome is ignored.
CacheSetIgnored(w) ==
    \/ CacheSet(op[w].key, op[w].val) /\ Mark(w)
    \/ CacheUnreached /\ UNCHANGED suspect

\* Seeded fault: the arguments of cache.Set are confused.
BackfillKey(w) ==
    /\ At(w, "backfill")
    /\ CacheSet(op[w].key, op[w].key)
    /\ RecordRead(FALSE)
    /\ Return(w)
    /\ Proceeds
    /\ UNCHANGED <<db, calls, failed, suspect>>

Backfill(w) ==
    /\ At(w, "backfill")
    /\ CacheSetIgnored(w)
    /\ RecordRead(FALSE)
    /\ Return(w)
    /\ Proceeds
    /\ UNCHANGED <<db, calls, failed>>

----------------------------------------------------------------------------
(* Write, up to the cache step.                                            *)

WriteDB(w, k) ==
    /\ StartWrite(w)
    /\ DBSet(k, Fresh)
    /\ Goto(w, "settle", k, Fresh)
    /\ UNCHANGED <<metrics, cache, failed, suspect>>

\* Seeded fault: the cache is written before the DB.
WriteDBFailsCacheFirst(w, k) ==
    /\ "db" \in Faults
    /\ StartWrite(w)
    /\ DBSetLost
    /\ CacheSet(k, Fresh)
    /\ failed' = failed + 1
    /\ UNCHANGED <<op, metrics, suspect>>

\* db.Set returned an error and Write returns it: the row may have changed
\* all the same, and then nobody touches the cache for it.
WriteDBFails(w, k) ==
    /\ "db" \in Faults
    /\ StartWrite(w)
    /\ \/ DBSetLost /\ UNCHANGED suspect
       \/ DBSet(k, Fresh) /\ suspect' = suspect \cup {k}
    /\ failed' = failed + 1
    /\ UNCHANGED <<op, metrics, cache>>

EvictEntry(k) ==
    /\ Evict(k)
    /\ Clear(k)
    /\ UNCHANGED <<load, metrics, failed>>

Deadline == Expire /\ UNCHANGED <<backends, failed, suspect>>

\* Nothing is left to do once the run is over.
Over == RunOver /\ UNCHANGED vars

ReadStep(w) ==
    \/ \E k \in Keys : ReadHit(w, k) \/ ReadMiss(w, k)
    \/ ReadError(w)
    \/ Fetch(w) \/ FetchFails(w) \/ Backfill(w)

WriteStart(w) == \E k \in Keys : WriteDB(w, k) \/ WriteDBFails(w, k)

Environment == Deadline \/ \E k \in Keys : EvictEntry(k)

----------------------------------------------------------------------------
(* Properties of both strategies.                                          *)

\* Somebody committed to k and has not reached the cache yet.
Settling(k) == \E w \in Workers : At(w, "settle") /\ op[w].key = k

\* The cache disagrees with the DB only while a Write of the key is between
\* its two stores, or because a call that another db.Set overtook, or that
\* failed half way, left the entry: an undisturbed call never leaves a stale
\* entry behind, whatever else runs.
StaleOnlyIfOvertaken ==
    \A k \in Keys :
        cache[k] \in {None, db[k]} \/ k \in suspect \/ Settling(k)

\* The DB is the authoritative source: the cache never shows a value newer
\* than the row, whichever calls fail (db.Set comes first and its error stops
\* the Write).  Values are numbered in the order in which the DB got them.
NeverAheadOfDB ==
    \A k \in Keys : cache[k] # None => cache[k] <= db[k]

\* Calls that have passed the DB and are not recorded yet.
Unrecorded == {w \in Workers : op[w].at \in {"backfill", "settle"}}

\* The DB calls a report shows are explained by what the run measured: one
\* per miss, one per write, those that failed, and those of calls still on
\* their way from the DB to the counters.
DBCallsExplained ==
    calls = metrics.misses + metrics.writes + failed + Cardinality(Unrecorded)
=============================================================================
