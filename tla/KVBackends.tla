----------------------------- MODULE KVBackends -----------------------------
(***************************************************************************)
(* The two stores every cache strategy sits on: Redis (cache) and          *)
(* PostgreSQL (db), with the DB call counter the benchmark reports.  Each  *)
(* call is atomic at the store; what a caller does between two calls       *)
(* interleaves with everybody else.                                        *)
(*                                                                         *)
(* Values are numbers: 0 is the row the run finds in the table, and the    *)
(* n-th Write issued in the run carries the value n.                       *)
(***************************************************************************)
EXTENDS Naturals

CONSTANTS
    Keys,        \* the key pool of the load generator
    MaxWrites,   \* bound: Write calls issued in one run
    None,        \* no entry
    Faults       \* which parts may fail: "cache", "db" (errors), "evict"

ASSUME BackendAssumption ==
    /\ MaxWrites \in Nat
    /\ None \notin Nat
    /\ Faults \subseteq {"cache", "db", "evict"}

Seeded     == 0
Values     == 0 .. MaxWrites
MaybeValue == Values \cup {None}

VARIABLES
    cache,   \* [Keys -> MaybeValue]: Redis
    db,      \* [Keys -> Values]: table items, every key seeded
    calls    \* PostgresDB.callCount

backends == <<cache, db, calls>>

BackendTypeOK ==
    /\ cache \in [Keys -> MaybeValue]
    /\ db \in [Keys -> Values]
    /\ calls \in Nat

\* reset: the cache is flushed and the counter zeroed before every run.
BackendInit ==
    /\ cache = [k \in Keys |-> None]
    /\ db = [k \in Keys |-> Seeded]
    /\ calls = 0

CacheSet(k, v) == cache' = [cache EXCEPT ![k] = v]
CacheDelete(k) == cache' = [cache EXCEPT ![k] = None]

\* A cache call that returned an error, or was cut off before it took effect.
CacheUnreached == "cache" \in Faults /\ UNCHANGED cache

DBGet == calls' = calls + 1 /\ UNCHANGED db

DBSet(k, v) ==
    /\ calls' = calls + 1
    /\ db' = [db EXCEPT ![k] = v]

\* An upsert that returned an error without taking effect.  The counter is
\* incremented before the statement is sent, so it counts all the same.
DBSetLost ==
    /\ "db" \in Faults
    /\ calls' = calls + 1
    /\ UNCHANGED db

\* Redis drops an entry: memory pressure, or its TTL ran out.
Evict(k) ==
    /\ "evict" \in Faults
    /\ cache[k] # None
    /\ CacheDelete(k)
    /\ UNCHANGED <<db, calls>>
=============================================================================
