---------------------------- MODULE WriteThrough ----------------------------
(***************************************************************************)
(* A Write commits to the DB and then mirrors the value into the cache.    *)
(***************************************************************************)
EXTENDS SyncStrategy

\* Seeded fault: the value is mirrored only where no entry exists (SET NX).
SettleIfAbsent(w) ==
    /\ At(w, "settle")
    /\ IF cache[op[w].key] = None
       THEN CacheSet(op[w].key, op[w].val) /\ Mark(w)
       ELSE UNCHANGED <<cache, suspect>>
    /\ RecordWrite
    /\ Return(w)
    /\ Proceeds
    /\ UNCHANGED <<db, calls, failed>>

Settle(w) ==
    /\ At(w, "settle")
    /\ \/ CacheSet(op[w].key, op[w].val) /\ Mark(w)
       \/ CacheUnreached /\ suspect' = suspect \cup {op[w].key}
    /\ RecordWrite
    /\ Return(w)
    /\ Proceeds
    /\ UNCHANGED <<db, calls, failed>>

WorkerStep(w) == ReadStep(w) \/ WriteStart(w) \/ Settle(w)

Next == (\E w \in Workers : WorkerStep(w)) \/ Environment \/ Over

Spec == Init /\ [][Next]_vars

----------------------------------------------------------------------------
\* The comment on WriteThrough: it "keeps cache and DB always in sync".  Read
\* at its weakest: when no call is in progress, an entry equals its row.
InSyncAtRest ==
    (\A w \in Workers : op[w] = Idle) =>
        \A k \in Keys : cache[k] \in {None, db[k]}
=============================================================================
