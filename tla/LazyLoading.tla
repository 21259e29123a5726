---------------------------- MODULE LazyLoading -----------------------------
(***************************************************************************)
(* Cache-aside: a Write commits to the DB and then deletes the entry.      *)
(***************************************************************************)
EXTENDS SyncStrategy

\* Seeded fault: the entry is not invalidated.
SettleForgotten(w) ==
    /\ At(w, "settle")
    /\ RecordWrite
    /\ Return(w)
    /\ Proceeds
    /\ UNCHANGED <<cache, db, calls, failed, suspect>>

Settle(w) ==
    /\ At(w, "settle")
    /\ \/ CacheDelete(op[w].key) /\ Clear(op[w].key)
       \/ CacheUnreached /\ suspect' = suspect \cup {op[w].key}
    /\ RecordWrite
    /\ Return(w)
    /\ Proceeds
    /\ UNCHANGED <<db, calls, failed>>

WorkerStep(w) == ReadStep(w) \/ WriteStart(w) \/ Settle(w)

Next == (\E w \in Workers : WorkerStep(w)) \/ Environment \/ Over

Spec == Init /\ [][Next]_vars
=============================================================================
