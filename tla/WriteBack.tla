----------------------------- MODULE WriteBack ------------------------------
(***************************************************************************)
(* Write-back: a Write goes to the cache and into the dirty map; a flusher *)
(* goroutine swaps the map out on every tick and writes the entries to the *)
(* DB one by one, in no particular order.  When the load is over, Stop     *)
(* ends the flusher and drains what is left.                               *)
(***************************************************************************)
EXTENDS LoadGen

ASSUME KeysAssumption == IsFiniteSet(Keys)

Flushers == {"ticker", "stopper"}     \* who may be inside flush()

VARIABLES
    dirty,           \* [Keys -> MaybeValue]: the map under dirtyMu
    pendingWrites,   \* the exported counter, stored outside the lock
    pend,            \* [Workers -> Nat]: the local variable pending
    toFlush,         \* [Flushers -> [Keys -> MaybeValue]]: what is left of
                     \* the map a flush() has swapped out
    flusher,         \* the goroutine: "waiting", "flushing", "exited"
    stopper,         \* Stop: "running" (not called), "closing", "draining",
                     \* "stopped"
    rank,            \* history: the place of a value among the accepted
                     \* writes of its key, 0 when it was not accepted
    accepted,        \* history: [Keys -> Nat], how many were accepted
    acked,           \* history: [Keys -> Nat], the newest rank a Write has
                     \* returned for
    dropped,         \* history: keys whose newest accepted value left the
                     \* process without reaching the DB
    refused          \* history: values whose Write returned an error

wbState == <<dirty, pendingWrites, pend, toFlush, flusher, stopper>>
history == <<rank, accepted, acked, dropped, refused>>
vars == <<cache, db, calls, op, issued, looked, expired, metrics,
          wbState, history>>

Stages == {"check", "fetch", "backfill", "mark", "publish"}

NoEntries == [k \in Keys |-> None]
KeysOf(map) == {k \in Keys : map[k] # None}

TypeOK ==
    /\ BackendTypeOK
    /\ LoadTypeOK(Stages)
    /\ dirty \in [Keys -> MaybeValue]
    /\ pendingWrites \in Nat
    /\ pend \in [Workers -> Nat]
    /\ toFlush \in [Flushers -> [Keys -> MaybeValue]]
    /\ flusher \in {"waiting", "flushing", "exited"}
    /\ stopper \in {"running", "closing", "draining", "stopped"}
    /\ rank \in [Values -> Nat]
    /\ accepted \in [Keys -> Nat]
    /\ acked \in [Keys -> Nat]
    /\ dropped \subseteq Keys
    /\ refused \subseteq Values

NewWriteBack ==
    /\ dirty = NoEntries
    /\ pendingWrites = 0
    /\ pend = [w \in Workers |-> 0]
    /\ toFlush = [f \in Flushers |-> NoEntries]
    /\ flusher = "waiting"
    /\ stopper = "running"
    /\ rank = [v \in Values |-> 0]
    /\ accepted = [k \in Keys |-> 0]
    /\ acked = [k \in Keys |-> 0]
    /\ dropped = {}
    /\ refused = {}

Init == BackendInit /\ LoadInit /\ NewWriteBack

----------------------------------------------------------------------------
(* Read.                                                                   *)

ReadHit(w, k) ==
    /\ StartRead(w)
    /\ cache[k] # None
    /\ RecordRead(TRUE)
    /\ UNCHANGED <<op, backends, wbState, history>>

ReadMiss(w, k) ==
    /\ StartRead(w)
    /\ cache[k] = None
    /\ Goto(w, "check", k, None)
    /\ UNCHANGED <<metrics, backends, wbState, history>>

ReadError(w) ==
    /\ "cache" \in Faults
    /\ StartRead(w)
    /\ UNCHANGED <<op, metrics, backends, wbState, history>>

\* The dirty map is consulted under the lock; the DB only after it.
CheckDirty(w) ==
    /\ At(w, "check")
    /\ LET k == op[w].key IN
           IF dirty[k] # None THEN Goto(w, "backfill", k, dirty[k])
                              ELSE Goto(w, "fetch", k, None)
    /\ Proceeds
    /\ UNCHANGED <<metrics, backends, wbState, history>>

Fetch(w) ==
    /\ At(w, "fetch")
    /\ DBGet
    /\ Goto(w, "backfill", op[w].key, db[op[w].key])
    /\ Proceeds
    /\ UNCHANGED <<metrics, cache, wbState, history>>

FetchFails(w) ==
    /\ "db" \in Faults
    /\ At(w, "fetch")
    /\ DBGet
    /\ Return(w)
    /\ Proceeds
    /\ UNCHANGED <<metrics, cache, wbState, history>>

\* Seeded fault: the arguments of cache.Set are confused.
BackfillKey(w) ==
    /\ At(w, "backfill")
    /\ CacheSet(op[w].key, op[w].key)
    /\ RecordRead(FALSE)
    /\ Return(w)
    /\ Proceeds
    /\ UNCHANGED <<db, calls, wbState, history>>

Backfill(w) ==
    /\ At(w, "backfill")
    /\ CacheSet(op[w].key, op[w].val) \/ CacheUnreached
    /\ RecordRead(FALSE)
    /\ Return(w)
    /\ Proceeds
    /\ UNCHANGED <<db, calls, wbState, history>>

----------------------------------------------------------------------------
(* Write.                                                                  *)

\* Seeded fault: the key is never marked dirty.
WriteCacheUnmarked(w, k) ==
    /\ StartWrite(w)
    /\ CacheSet(k, Fresh)
    /\ Goto(w, "publish", k, Fresh)
    /\ UNCHANGED <<metrics, db, calls, wbState, history>>

WriteCache(w, k) ==
    /\ StartWrite(w)
    /\ CacheSet(k, Fresh)
    /\ Goto(w, "mark", k, Fresh)
    /\ UNCHANGED <<metrics, db, calls, wbState, history>>

\* cache.Set returned an error and so does Write: nothing becomes dirty, but
\* Redis may have taken the value.
WriteCacheFails(w, k) ==
    /\ "cache" \in Faults
    /\ StartWrite(w)
    /\ CacheSet(k, Fresh) \/ CacheUnreached
    /\ refused' = refused \cup {Fresh}
    /\ UNCHANGED <<op, metrics, db, calls, wbState,
                   rank, accepted, acked, dropped>>

\* The critical section.  From here on the write is accepted: the strategy
\* owes it to the DB.
MarkDirty(w) ==
    /\ At(w, "mark")
    /\ LET k == op[w].key
           v == op[w].val IN
       /\ dirty' = [dirty EXCEPT ![k] = v]
       /\ accepted' = [accepted EXCEPT ![k] = @ + 1]
       /\ rank' = [rank EXCEPT ![v] = accepted[k] + 1]
       /\ dropped' = dropped \ {k}
       /\ Goto(w, "publish", k, v)
    /\ pend' = [pend EXCEPT ![w] = Cardinality(KeysOf(dirty'))]
    /\ Proceeds
    /\ UNCHANGED <<metrics, backends, pendingWrites, toFlush, flusher,
                   stopper, acked, refused>>

PublishPending(w) ==
    /\ At(w, "publish")
    /\ pendingWrites' = pend[w]
    /\ pend' = [pend EXCEPT ![w] = 0]
    /\ LET k == op[w].key
           r == rank[op[w].val] IN
       acked' = [acked EXCEPT ![k] = IF r > @ THEN r ELSE @]
    /\ RecordWrite
    /\ Return(w)
    /\ Proceeds
    /\ UNCHANGED <<backends, dirty, toFlush, flusher, stopper,
                   rank, accepted, dropped, refused>>

----------------------------------------------------------------------------
(* flush(), run by the ticker goroutine and, after it has gone, by Stop.   *)

Swap(f) ==
    /\ KeysOf(dirty) # {}
    /\ toFlush' = [toFlush EXCEPT ![f] = dirty]
    /\ dirty' = NoEntries

Taken(f, k) == toFlush' = [toFlush EXCEPT ![f][k] = None]

\* Seeded fault: an entry stays in the batch after it was written.
FlushEntryKept(f, k) ==
    /\ toFlush[f][k] # None
    /\ DBSet(k, toFlush[f][k])
    /\ UNCHANGED <<cache, load, metrics, wbState, history>>

FlushEntry(f, k) ==
    /\ toFlush[f][k] # None
    /\ DBSet(k, toFlush[f][k])
    /\ Taken(f, k)
    /\ UNCHANGED <<cache, load, metrics, dirty, pendingWrites, pend,
                   flusher, stopper, history>>

\* Seeded fault: a failed entry is put back, over whatever is there by now.
FlushEntryRequeued(f, k) ==
    /\ toFlush[f][k] # None
    /\ DBSetLost
    /\ Taken(f, k)
    /\ dirty' = [dirty EXCEPT ![k] = toFlush[f][k]]
    /\ UNCHANGED <<cache, load, metrics, pendingWrites, pend, flusher,
                   stopper, history>>

\* The error is logged and the entry forgotten.  A statement that took
\* effect and still returned an error is the step above.
FlushEntryFails(f, k) ==
    /\ toFlush[f][k] # None
    /\ DBSetLost
    /\ Taken(f, k)
    /\ dropped' = IF rank[toFlush[f][k]] = accepted[k]
                  THEN dropped \cup {k} ELSE dropped
    /\ UNCHANGED <<cache, load, metrics, dirty, pendingWrites, pend,
                   flusher, stopper, rank, accepted, acked, refused>>

----------------------------------------------------------------------------
(* The flusher goroutine.  With both channels ready its select may take    *)
(* either branch; a tick that finds the map empty changes nothing.         *)

Tick ==
    /\ flusher = "waiting"
    /\ Swap("ticker")
    /\ flusher' = "flushing"
    /\ UNCHANGED <<backends, load, metrics, pendingWrites, pend, stopper,
                   history>>

TickDone ==
    /\ flusher = "flushing"
    /\ toFlush["ticker"] = NoEntries
    /\ flusher' = "waiting"
    /\ UNCHANGED <<backends, load, metrics, dirty, pendingWrites, pend,
                   toFlush, stopper, history>>

\* Seeded fault: Stop waits for the goroutine before it closes stopCh.
FlusherExitUnsignalled ==
    /\ flusher = "waiting"
    /\ stopper = "draining"
    /\ flusher' = "exited"
    /\ UNCHANGED <<backends, load, metrics, dirty, pendingWrites, pend,
                   toFlush, stopper, history>>

FlusherExit ==
    /\ flusher = "waiting"
    /\ stopper # "running"
    /\ flusher' = "exited"
    /\ UNCHANGED <<backends, load, metrics, dirty, pendingWrites, pend,
                   toFlush, stopper, history>>

----------------------------------------------------------------------------
(* Stop, which runWriteBack calls once loadgen.Run has returned.           *)

CloseStopCh ==
    /\ stopper = "running"
    /\ RunOver
    /\ stopper' = "closing"
    /\ UNCHANGED <<backends, load, metrics, dirty, pendingWrites, pend,
                   toFlush, flusher, history>>

\* Seeded fault: Stop flushes without waiting for the goroutine.
DrainUnjoined ==
    /\ stopper = "closing"
    /\ Swap("stopper")
    /\ stopper' = "draining"
    /\ UNCHANGED <<backends, load, metrics, pendingWrites, pend, flusher,
                   history>>

\* Seeded fault: Stop returns without the last flush.
DrainSkipped ==
    /\ stopper = "closing"
    /\ flusher = "exited"
    /\ stopper' = "stopped"
    /\ UNCHANGED <<backends, load, metrics, dirty, pendingWrites, pend,
                   toFlush, flusher, history>>

\* wg.Wait() has returned: the last flush.
Drain ==
    /\ stopper = "closing"
    /\ flusher = "exited"
    /\ \/ /\ Swap("stopper")
          /\ stopper' = "draining"
       \/ /\ KeysOf(dirty) = {}
          /\ stopper' = "stopped"
          /\ UNCHANGED <<dirty, toFlush>>
    /\ UNCHANGED <<backends, load, metrics, pendingWrites, pend, flusher,
                   history>>

Drained ==
    /\ stopper = "draining"
    /\ toFlush["stopper"] = NoEntries
    /\ stopper' = "stopped"
    /\ UNCHANGED <<backends, load, metrics, dirty, pendingWrites, pend,
                   toFlush, flusher, history>>

----------------------------------------------------------------------------
EvictEntry(k) == Evict(k) /\ UNCHANGED <<load, metrics, wbState, history>>

Deadline == Expire /\ UNCHANGED <<backends, wbState, history>>

Over == stopper = "stopped" /\ UNCHANGED vars

Start(w) ==
    \/ \E k \in Keys : \/ ReadHit(w, k) \/ ReadMiss(w, k)
                       \/ WriteCache(w, k) \/ WriteCacheFails(w, k)
    \/ ReadError(w)

Continue(w) ==
    \/ CheckDirty(w) \/ Fetch(w) \/ FetchFails(w) \/ Backfill(w)
    \/ MarkDirty(w) \/ PublishPending(w)

FlushStep ==
    \E f \in Flushers, k \in Keys : FlushEntry(f, k) \/ FlushEntryFails(f, k)

StopStep == CloseStopCh \/ Drain \/ Drained

Next ==
    \/ \E w \in Workers : Start(w) \/ Continue(w)
    \/ FlushStep \/ Tick \/ TickDone \/ FlusherExit
    \/ StopStep
    \/ Deadline \/ \E k \in Keys : EvictEntry(k)
    \/ Over

Spec == Init /\ [][Next]_vars

\* What a goroutine has begun it goes on with, and the deadline passes.
\* Nothing is assumed of the ticker, of new calls, or of evictions.
Fairness ==
    /\ \A w \in Workers : WF_vars(Continue(w))
    /\ WF_vars(FlushStep) /\ WF_vars(TickDone) /\ WF_vars(FlusherExit)
    /\ WF_vars(StopStep)
    /\ WF_vars(Deadline)

FairSpec == Spec /\ Fairness

----------------------------------------------------------------------------
(* Properties.                                                             *)

DBRank(k) == rank[db[k]]

\* The DB never goes back: a flush never overwrites a newer accepted value of
\* a key with an older one, although entries are written in any order and
\* Stop flushes too.
DBMonotone ==
    [][\A k \in Keys : db'[k] # db[k] => DBRank(k)' > DBRank(k)]_vars

\* Where the newest accepted value of k is on its way to the DB.
InTransit(k) ==
    \/ dirty[k] # None /\ rank[dirty[k]] = accepted[k]
    \/ \E f \in Flushers :
           toFlush[f][k] # None /\ rank[toFlush[f][k]] = accepted[k]

\* No accepted write disappears: its newest value is in the DB, in the dirty
\* map or in the hands of a flush, and once Stop has returned it is in the
\* DB; the one exception is a db.Set that failed in flush().
NothingLost ==
    \A k \in Keys :
        \/ k \in dropped
        \/ DBRank(k) = accepted[k]
        \/ InTransit(k) /\ stopper # "stopped"

\* Two flushes are never in progress together: Stop waits for the goroutine.
OneFlushAtATime ==
    Cardinality({f \in Flushers : KeysOf(toFlush[f]) # {}}) <= 1

\* Write-back costs the DB at most one call per accepted write and one per
\* read, counting the calls still owed: to entries in memory and to reads
\* that have not got there yet.  Overwriting a dirty entry saves a call and
\* a flush never writes an entry twice.
Accepted == {v \in Values : rank[v] > 0}
Owed == Cardinality(KeysOf(dirty))
        + Cardinality({e \in Flushers \X Keys : toFlush[e[1]][e[2]] # None})
        + Cardinality({w \in Workers : op[w].at \in {"check", "fetch"}})

DBCallsBounded == calls + Owed <= Cardinality(Accepted) + looked

\* Readers are never shown a value out of nowhere: what the cache holds was
\* there before the run, is owed or was given to the DB, belongs to a Write
\* still between its two steps, or to one that reported an error.
MidWrite(k) == {op[w].val : w \in {x \in Workers : At(x, "mark")
                                                  /\ op[x].key = k}}

CacheAccountedFor ==
    \A k \in Keys :
        cache[k] # None =>
            \/ cache[k] = Seeded \/ rank[cache[k]] > 0
            \/ cache[k] \in MidWrite(k) \cup refused

\* Every accepted write is eventually followed in the DB by itself or a newer
\* one, or the DB has refused the newest one.
EventuallyDurable ==
    \A k \in Keys :
        DBRank(k) < accepted[k] ~> (DBRank(k) = accepted[k] \/ k \in dropped)

\* Stop returns: nobody waits for the flusher for ever.
StopReturns == RunOver ~> stopper = "stopped"

\* The strategy, seen from its database, is the write-behind store.
Promise == INSTANCE WriteBehind WITH
    CanLose <- "db" \in Faults,
    durable <- [k \in Keys |-> DBRank(k)],
    lost    <- dropped,
    closed  <- stopper = "stopped"

KeepsPromise == Promise!Spec

----------------------------------------------------------------------------
(* What a comment in write_back.go says, and the code does not ensure.     *)

\* The dirty map is checked because "a key may have been written but not yet
\* flushed, and then evicted": with that check a Read that finds neither
\* entry reads the newest acknowledged value from the DB.
EvictedIsReadable ==
    \A k \in Keys :
        cache[k] = None /\ dirty[k] = None => DBRank(k) >= acked[k]
=============================================================================
