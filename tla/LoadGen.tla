------------------------------ MODULE LoadGen -------------------------------
(***************************************************************************)
(* The load generator and the measurements of one benchmark run: a fixed   *)
(* pool of worker goroutines calls Read and Write of the strategy under    *)
(* test until the deadline, and every completed call is recorded.          *)
(*                                                                         *)
(* op[w] is the call worker w is in the middle of: the next step of it,    *)
(* its key, and the local variable val of the Go method.  A strategy       *)
(* module adds the steps.                                                  *)
(***************************************************************************)
EXTENDS KVBackends, FiniteSets

CONSTANTS
    Workers,    \* Config.Concurrency goroutines
    MaxReads    \* bound: Read calls issued in one run

ASSUME LoadAssumption == MaxReads \in Nat
ASSUME WorkersAssumption == IsFiniteSet(Workers)

VARIABLES
    op,        \* [Workers -> the call in progress, or Idle]
    issued,    \* Write calls started so far
    looked,    \* Read calls started so far
    expired,   \* the deadline has passed
    metrics    \* the counters of metrics.Metrics

load == <<op, issued, looked, expired>>

Idle == [at |-> "idle", key |-> None, val |-> None]

Calls(stages) ==
    {Idle} \cup [at : stages, key : Keys, val : MaybeValue]

LoadTypeOK(stages) ==
    /\ op \in [Workers -> Calls(stages)]
    /\ issued \in 0 .. MaxWrites
    /\ looked \in 0 .. MaxReads
    /\ expired \in BOOLEAN
    /\ metrics \in [reads : Nat, writes : Nat, hits : Nat, misses : Nat]

LoadInit ==
    /\ op = [w \in Workers |-> Idle]
    /\ issued = 0
    /\ looked = 0
    /\ expired = FALSE
    /\ metrics = [reads |-> 0, writes |-> 0, hits |-> 0, misses |-> 0]

----------------------------------------------------------------------------
(* The loop of a worker: it starts a call only before the deadline.        *)

Expire ==
    /\ ~expired
    /\ expired' = TRUE
    /\ UNCHANGED <<op, issued, looked, metrics>>

StartRead(w) ==
    /\ op[w] = Idle /\ ~expired
    /\ looked < MaxReads
    /\ looked' = looked + 1
    /\ UNCHANGED <<issued, expired>>

\* The value written is Fresh: no two writes of a run carry the same one.
Fresh == issued + 1

StartWrite(w) ==
    /\ op[w] = Idle /\ ~expired
    /\ issued < MaxWrites
    /\ issued' = issued + 1
    /\ UNCHANGED <<looked, expired>>

At(w, stage) == op[w].at = stage

Goto(w, stage, k, v) ==
    op' = [op EXCEPT ![w] = [at |-> stage, key |-> k, val |-> v]]

Return(w) == op' = [op EXCEPT ![w] = Idle]

Proceeds == UNCHANGED <<issued, looked, expired>>

\* wg.Wait() in Run returns.
RunOver == expired /\ \A w \in Workers : op[w] = Idle

----------------------------------------------------------------------------
(* Metrics: latencies are left out, the counters are kept.                 *)

RecordRead(hit) ==
    metrics' = IF hit
               THEN [metrics EXCEPT !.reads = @ + 1, !.hits = @ + 1]
               ELSE [metrics EXCEPT !.reads = @ + 1, !.misses = @ + 1]

RecordWrite == metrics' = [metrics EXCEPT !.writes = @ + 1]
=============================================================================
