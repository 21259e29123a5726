# Tasks_on_go in TLA+

The repository holds three Go programs.  `cache_versus` runs a load generator
against three caching strategies over Redis and PostgreSQL and compares them;
`brokers_versus` sends messages through RabbitMQ or a Redis list and compares
those; `task` is a small online store over PostgreSQL.  This directory models
all three and checks the models with TLC.  TLAPS proves every safety property
and both refinements for all values of the constants; liveness stays with TLC.

Run inside this directory: `tlasany M.tla`, `tlc -config X.cfg M`,
`tlapm MProofs.tla`.  `PROJECT.json` lists every run, the mutant that shows
each property can fail, the source lines behind each definition, the hazards
and the theorems.

## Inventory

| part | state | operations | interacts with | hard behaviour |
|---|---|---|---|---|
| cache back end (`cache/redis.go`) | one entry per key, with a TTL | Get, Set, Delete, FlushAll | strategies, reset | eviction, errors before or after the effect |
| DB back end (`db/postgres.go`) | table `items`, atomic `callCount` | Get, Set, Seed, counter | strategies, flusher, report | counted before the statement is sent; errors either side of the effect |
| lazy loading | none of its own | Read, Write | both stores, metrics | stale backfill, dropped errors |
| write-through | none of its own | Read, Write | both stores, metrics | writers overtaking each other between the stores |
| write-back | `dirty` map, `PendingWrites`, `stopCh`, `wg` | Read, Write, flush, flusher, Stop | both stores, metrics | two-step writes, the swapped-out batch, shutdown, lost flushes |
| load generator | worker goroutines, deadline | Run | one strategy | concurrency of calls, the deadline |
| metrics | counters, latencies | RecordRead, RecordWrite, percentiles | strategies, report | several atomics per call |
| driver (`cmd/main.go`) | list of reports | nine runs with `reset` before each | everything above | a reset that fails |
| reporter | none | winners of a scenario, Markdown | reports | ties, zeros; name and value found by separate loops |
| producer (`brokers_versus/cmd/producer`) | buffer, counters | purge, tick, flushBuffer | broker | batch fallback, flush at the deadline |
| consumer (`cmd/consumer`) | counters, workers | Consume, handler | broker | deadline in the middle of a delivery |
| RabbitMQ broker | connection, channel | Publish, Consume, Purge, Close | the server | acknowledgements, requeue, no confirm awaited |
| Redis broker | client | Publish, PublishBatch, Consume, Purge | the server | partly executed pipelines, retries, destructive pop |
| broker report | map of results | merge, point of degradation | result files | missing, broken and old files, zero sent, percentiles, "loss" |
| online store (`task`) | customers, products, orders | PlaceOrder, UpdateEmail, CreateProduct | PostgreSQL transactions | check-then-update, partial orders, deadlocks, lost commit replies |

What makes each part correct: a cache may be stale only for a reason somebody
can name, and never shows a value newer than the row; write-back owes every
accepted write to the DB and never moves it backwards; the counters add up;
a broker neither loses nor repeats a message without a failure to blame; both
benchmarks end, and report on their own runs only; the report of the brokers
shows what the files hold; the store keeps e-mails unique and orders whole,
answers every request, and its answers are true.

## Modules

| module | models |
|---|---|
| `KVBackends` | Redis as `cache`, PostgreSQL as `db`, `callCount` as `calls`; a call is atomic at its store |
| `LoadGen` | the workers of `loadgen.Run`, the call each is in (`op`), the deadline, the counters |
| `SyncStrategy` | what lazy loading and write-through share: the read path and a Write that commits to the DB first |
| `LazyLoading`, `WriteThrough` | the last step of Write, `Settle`, and the specification of each strategy |
| `WriteBack` | Read, Write, `flush`, the flusher goroutine and `Stop` |
| `WriteBehind` | the abstract store that write-back implements |
| `Conclusions` | the winners of a scenario, as the console and the Markdown report pick them |
| `CacheBench` | the runs of `main` one after the other over the same stores: composes the three strategies, `reset` and the reports |
| `BrokerBench` | the producer's loop, the handler, the two deadlines |
| `RabbitBroker`, `RedisBroker` | Publish, PublishBatch and Consume of each broker with its failures |
| `Percentiles` | the p95 and p99 of both programs |
| `BrokerReport` | the series of tests, the result files, the merge and the point of degradation |
| `Shop` | the abstract store: every request is one step |
| `OnlineStore` | the three routes of `task`, statement by statement, with PostgreSQL's locks |
| `SyncStrategyProofs` | theorems about lazy loading and write-through, proved for both at once |
| `WriteBackProofs`, `RabbitBrokerProofs`, `RedisBrokerProofs`, `OnlineStoreProofs`, `BrokerReportProofs` | theorems about the module of that name |
| `CacheBenchProofs` | theorems about the runs together; uses those of `SyncStrategyProofs` and `WriteBackProofs` step by step |
| `Recursion` | lemmas: induction over numbers and finite sets, sums, and loops written as folds |
| `MC*` | instances for TLC (symmetry) |

**Steps.** A step of a strategy is the code between two accesses to shared
state.  `op[w].at` names the access worker `w` does next: `fetch` is
`db.Get`, `backfill` the `cache.Set` at the end of a Read, `settle` the cache
step of a Write, `check` the look into the dirty map, `mark` the critical
section of a write-back Write, `publish` the store to `PendingWrites`.  The
first access of a call happens in the step that starts it: nothing shared is
touched before it.  A write-back flush takes one step to swap the map and one
per entry, in any order, as Go iterates over maps.

**Values** are numbers: 0 is the seeded row, and the n-th Write of a run
writes n (the program draws random numbers, which the models take to be
distinct).  In `SyncStrategy` they are numbered in the order in which the DB
received them, in `WriteBack` in the order in which the cache did.

**Failures.**  `Faults` says which parts may fail.  A cache call may return an
error with or without effect; where the code drops the error this shows only
in what the cache holds.  `db.Set` may return an error and have taken effect.
Eviction stands for memory pressure and for the TTL.  In the broker models a
failure is one of a connection: RabbitMQ's client does not reconnect, so each
process can lose its connection once, and the producer may not notice at once:
while `link` is "breaking", Publish returns nil and the message is gone.
go-redis repeats commands.

**History variables** record what the program does not keep: `suspect` (keys
whose entry was left by an overtaken or failed call), `failed` (DB calls that
failed), `rank` and `accepted` (the place of a value among the accepted writes
of its key), `acked`, `dropped`, `refused`, and `accepted` of `RabbitBroker`
(what the broker enqueued).  No guard reads them.

**Brokers.**  The buffer is only appended to and emptied, so it is the
interval `flushed + 1 .. generated`; `cursor` is how far the current pass over
it has come.  RabbitMQ deliveries move from `queue` to `delivered[c]` and are
acknowledged after the handler; the broker requeues what a closed or lost
connection had not acknowledged.  Redis pops before the handler; `blocked` is
the set of workers inside BLPop.  BLPop may return the context's error once the
deadline has passed; nothing relies on it, because the client does not break off
a read it has begun.

**The whole cache benchmark.**  `CacheBench` extends `WriteBack` and takes
`LazyLoading` and `WriteThrough` as instances over the same variables.  The
number of reports taken says which strategy runs; a step of the benchmark is a
step of that strategy, and `EndRun` is what `main` does between two runs: the
report from the metrics and the DB counter, then `reset`, whose `FlushAll` may
fail, a new strategy and new metrics.  The first run may find what an earlier
process left in Redis, if its own `FlushAll` fails.  Values are numbered through
all runs, those of an earlier process first; `inherited` remembers which entries
were there before the run.

**The broker report.**  A file is what its writer put into it, no file, or a
broken one; the files are merged in the order of their names, where a
consumer's file comes before its producer's.  Their names are those the scripts
give them, so that both files of a test come under one key; a name that does not
parse, which only a file named by hand can have, makes a row no test has and is
left out.  A list of latencies is kept as
how often each latency occurs, in tenths of a millisecond, because the code
rounds the percentile down to whole milliseconds.  Floating point is exact
where it matters here: the model's comparisons of integers agree with the
code's for the loss in percent and for the percentile's index.

**The store.**  A slot of `Requests` is a handler in progress.  What its open
transaction has written stays in `req[r]` and reaches the tables at the commit,
so a rollback has nothing to undo, as READ COMMITTED shows it to the others.
What the others do notice are locks: an UPDATE locks its row, against foreign
keys too when it changes the e-mail; an order locks its customer's row against
such an UPDATE; the unique index waits for transactions that have entered the
same e-mail or are about to take it out.  `WaitsFor` collects this and `Victim`
is the deadlock detector.  A reply to COMMIT may be lost: the client is told of
a failure and the order goes into `unsure`.  Prices are whole numbers.  A basket
without items is accepted, as it is by the code.

## Runs

| run | what it shows | bounds |
|---|---|---|
| `lazy`, `write_through` | `StaleOnlyIfOvertaken`, `NeverAheadOfDB`, `DBCallsExplained` | 2 keys, 3 workers, 3 writes, 3 reads, all faults |
| `write_back` | `NothingLost`, `OneFlushAtATime`, `DBMonotone`, `DBCallsBounded`, `CacheAccountedFor`, and the refinement `KeepsPromise` | 2 keys, 2 workers, 3 writes, 1 read, all faults |
| `write_back_live` | `EventuallyDurable`, `StopReturns` | 2 keys, 2 workers, 2 writes, 1 read, DB faults |
| `rabbit` | `SendsRecorded`, `NothingVanishes`, `CountedOnce`, `RunEnds` | 2 workers, 3 messages, batches of 2, both connections may fail |
| `redis` | `SendsRecorded`, `LossBounded`, `DuplicatesBounded`, `RunEnds` | 2 workers, 3 messages, batches of 2, 2 failures |
| `store` | `EmailsUnique`, `OrdersComplete`, `AnswersTrue`, `EveryRequestAnswered`, and the refinement `ServesShop` | 3 handlers, 4 requests, 2 customers, 3 e-mails, 2 baskets |
| `broker_report` | `RowsFaithful`, `DegradationFound`, `PercentilesCover` | 3 rates, 5 possible results, 2 files not saved |
| `bench` | `ReportsExplained`, `InheritedOnly`, `WinnersHonest` | 4 runs, 1 key, 2 workers, 2 writes in all, 1 read a run, all faults |
| `through_in_sync` | "keeps cache and DB always in sync" does not hold | no faults |
| `back_evicted` | an evicted, acknowledged write can be unreadable while it is flushed | evictions |
| `broker_loss` | messages reported as lost wait in the broker | no failures |

The bounds are small but reach the cases in question.  A stale entry needs a
reader and a writer of one key, or two writers; a third worker and the second
key add disturbance from outside.  Three writes let a key be overwritten in the
cache, in the dirty map and in a batch at once, which is every place a value
can be.  Three messages with batches of two give a full batch, then a partial
one at the deadline; each RabbitMQ process has one connection to lose, so two
failures are all there are, and two Redis failures let a failed batch meet a
failed fallback.  Two customers can swap e-mails, which deadlocks.  Getting there
takes four updates, since two must pass their check and two move an address away
in between; that is all the requests there are, so no order waits behind a
deadlock within the bounds.  Orders do wait for a single UPDATE of their
customer's e-mail, and such an UPDATE for them.  The third e-mail lets an update
succeed in between, and the second product of a basket exists only once somebody
has created it.  Three rates are what the scripts test;
their results sit on either side of each threshold (1 % of losses, 50 ms, the
95th sample of a hundred), nothing sent included.  Four runs in a row meet every
neighbourhood of strategies there is, since the order repeats, and a second
scenario; the values written come from any two of them.  `MaxWrites`,
`MaxReads`, `MaxMessages`, `MaxFailures`, `MaxLosses`, `MaxRequests` and `Runs`
are bounds of the models and correspond to nothing in the code (which takes
nine runs).

## Fairness

`WriteBack!FairSpec` asks for weak fairness of: the rest of a call that has
begun, the steps of `flush`, the goroutine's exit, `Stop`, and the deadline.
These are goroutines that are runnable and calls whose stores answer.  Nothing
is asked of the ticker: what is dirty at the end is written by `Stop`, so
`EventuallyDurable` does not lean on it.  The broker specifications ask the
same of the two processes and their deadlines, and strong fairness of taking
`ctx.Done` in a `select`: Go chooses uniformly among the ready branches, so a
branch that is ready time and again is taken.  `RedisBroker` needs no strong
fairness for its workers because BLPop comes back within a second.
`OnlineStore!FairStore` asks for weak fairness of the rest of a request that has
begun: net/http runs each in its goroutine and PostgreSQL answers statements.
That includes waiting for a lock: a waiter whose lock comes free time and again
is not passed over for ever, because PostgreSQL queues waiters; with finitely
many requests weak fairness already says so.

## Proofs

For any finite set of workers, any bounds and any combination of faults
(`BackendAssumption`, `LoadAssumption`, `WorkersAssumption`, and for write-back
a finite set of keys, `KeysAssumption`):

* `LazyLoading`, `WriteThrough`: `Spec => []TypeOK`,
  `[]StaleOnlyIfOvertaken`, `[]NeverAheadOfDB` and `[]DBCallsExplained`.  Both
  specifications imply `SyncSpec`, in which the last step of a Write,
  `Settles`, may be either strategy's, and everything is proved about that one.
  The inductive invariant is `Base` (types; values are numbered in commit
  order, so what a row shows was issued, and a worker between its stores holds
  a value no newer than the row) and `EntryExplained(k)` for every key.
  Without the first nothing excludes a worker that is about to put a value from
  the future into the cache.  The two parts are kept apart because `Base` does
  not depend on what the cache was found with: `StepCoherent` says of any step
  that an explained entry stays explained and a new one is explained, whatever
  the other entries are.  `DBCallsExplained` is inductive with `Base`: `Joins`
  and `Leaves` count the calls between the DB and the counters.
* `WriteBack`: `[]TypeOK`, `[]NothingLost`, `[]OneFlushAtATime`, `DBMonotone`
  and `KeepsPromise`.  The inductive invariant is the order of the ranks of a
  key (row < batch entry < dirty entry, the dirty entry being the newest
  accepted), the freshness of values not yet marked, `Phases`: who may hold
  a batch while the goroutine and `Stop` are where they are, and `RowsKnown`: a
  row is an accepted value, or `Older` than every Write of the run.  `DBMonotone` is a
  consequence of the first, exclusion of the last.  Refinement follows step by
  step: `MarkDirty` is `Accept`, `FlushEntry` is `Persist`, `FlushEntryFails`
  is `GiveUp` or a stutter, the step with which `Stop` returns is `Close`, and
  every other step is a stutter.  `[]CacheAccountedFor` needs that rows, and
  what a read is about to backfill, are values the strategy answers for: an
  accepted one or the one the run found there (`RowsFrom`, `ReadsFrom`, for any
  rows `base` to start from).  `[]DBCallsBounded` is inductive given that
  order: a value is marked once, and swapping the map out finds no batch in
  progress and injects the batch into the map (`SwapBounded`).

* `RabbitBroker`: `[]TypeOK`, `[]SendsRecorded`, `[]NothingVanishes` and
  `[]CountedOnce`, for a finite set of workers (`ConsumersAssumption`) and any
  `BenchAssumption`.  The inductive invariant adds `Loop` (where the producer
  stands in its buffer, and that nothing is accepted before the purge is over),
  `Held` (a worker holds only what it has counted), `Future` (a message not yet
  published is nowhere) and `Once`, which is `CountedOnce` with a part that
  survives a lost connection: a message still in a worker's buffer was not
  counted.  `RequeueShelf` is the heart of it: putting back what is not
  acknowledged counts workers, and the count is zero only when there are none.
* `RedisBroker`: `[]TypeOK`, `[]SendsRecorded`, `[]LossBounded` and
  `[]DuplicatesBounded`, from the same assumptions.  `LossBounded` counts only
  what this pass over the buffer has reached, and the cursor goes back when a
  batch is sent again; `DuplicatesBounded` needs `Passes`, which grants a
  message the pass has not reached one copy less.  The lemmas say what a step
  does to the copies of a message (`PutCopies`, `PopCopies`, `HandleCopies`,
  `LostCopies`: a push adds one, a pop and a handler move one, a lost reply
  takes one), and then what that does to the two bounds.
* `OnlineStore`: `[]TypeOK`, `[]EmailsUnique`, `[]AnswersTrue`,
  `[]OrdersComplete` and `ServesShop`, for any customers, e-mails, baskets and
  handlers (`StoreAssumption`).  The invariant
  adds `Progress` (what a request knows in each phase) and `Claims`: whoever is
  about to commit an e-mail is alone with it, among the rows and among the
  other handlers.  The unique index alone, without its waiting for open
  transactions, would not keep that.  `OrdersComplete` has an invariant of its
  own, `Kept`: what an open transaction has priced so far is a part of the bill
  of its basket (`Books`), an id belongs to one order or one transaction
  (`Numbering`), and what was ordered stays in the price list (`Filed`), so a
  bill does not change after the order is stored.  For `ServesShop` a commit is
  the abstract request, a created product is itself, and every other step is a
  stutter; that the committed order is the abstract one is `CommitIsBill`.
* `BrokerReport`: `[]TypeOK`, `[]RowsFaithful`, `[]PercentilesCover` and
  `[]DegradationFound`, for any rates, possible results and number of files not
  saved (`ReportAssumption`, which takes latencies to be natural numbers:
  sender and receiver are processes of one machine and read the same clock).
  The invariant holds each row to the files merged so far, in whatever order
  `Glob` has them (`RowShows`), each new file to its test (`FilesNew`), and
  `next` to the phase (`Stages`).  The loop over the rates is followed turn by
  turn by `Knows`: what it has named is a rate that degrades, and no lower rate
  does.  `IndexCovers` and `CapUnused` are about the percentile alone: for any
  number of samples the index computed from the percentage has the promised
  share of the samples at or below it and at most one too many, and the guard
  against an index past the end is never needed.
* `CacheBench`: `[]WinnersHonest`, `[]InheritedOnly` and `ReportsExplained`, for
  any number of runs (`RunsAssumption`).  The first needs only that reports
  hold numbers (`Numbers`): the loop that picks a winner ends with the first
  report nobody beats (`Best`), the loops for the minimum and the maximum pick
  that report's own value, because both follow the winner's turn for turn, and
  rates compared by products are ordered (`RatesOrdered`).  For the other two
  `BenchIInv` holds the strategy under test to the invariant of its own proof:
  `SyncRun` is `Base` and `EntryExplained` for the keys that are not
  `inherited`, `BackRun` the write-back invariant, relative to some rows
  `base` the run found, which are `Older` than its Writes.  `RunBegins` implies
  both, so it does not matter which strategy comes next, and `SyncEnds` and
  `BackEnds` show that a run hands over what `RunBegins` asks for: nobody is in
  a call, and no row is newer than the last value issued.  Between two runs a
  step is one of `SyncStrategyProofs` or `WriteBackProofs`.
  `InheritedOnly` speaks of runs in progress: after the last report there is no
  strategy to ask.

Induction over numbers and sets is done in `Recursion`: the library states it
with an operator as parameter, which the provers cannot instantiate, so it is
restated with sets (`NumberInduction`, `SubsetInduction`) and derived from
well-foundedness.  From it follow that a sum over a finite set, a fold, is what
its recursion says (`SumTakesOut`), and that a loop written as a fold has a
sequence of intermediate values (`LoopSolves`), about which invariants of loops
can be proved.

Only model-checked: the liveness properties `EventuallyDurable`, `StopReturns`,
`RunEnds` and `EveryRequestAnswered`.  They rest on fairness, and with it on
ENABLED, which is out of the prover's reach.

## Findings

The three violation runs are disagreements between comments or reports and the
code; `PROJECT.json` quotes the lines.  Others were met on the way and have no
run of their own:

* `lazy_loading.go:15-17` says that after a Write "the next read will reload
  fresh data from DB"; a Read that missed before the Write backfills the old row
  after the invalidation (line 50), and later reads hit it.  This is the first
  of the reasons `suspect` stands for.
* `write_back.go:31` calls the dirty map "key → latest value pending DB write";
  the cache is set outside the lock (line 96), so of two Writes of a key the
  last to reach the cache may be the first to reach the map, and the DB gets
  the value the cache no longer shows.
* `write_back.go:36` says `PendingWrites` "shows writes queued in cache"; it is
  never lowered, so what `main.go:160` logs as "pending writes at stop" is
  positive after the drain.
* `metrics.go:20` calls cache misses "reads that fell through to DB", while a
  read served from the dirty map is recorded as one (`write_back.go:77`).
* `run_parallel_all.sh` comments that one RabbitMQ channel wants one worker and
  starts ten.
* `report/main.go:249` names p95 > 50 ms or losses > 1 % as degradation; line
  269 asks besides that the p95 has more than doubled.  A test without consumer
  file counts as a total loss, so a report on `run_producers_only.sh` finds
  degradation at the first rate; a broker without any result is "stable".
* `report/main.go:232` prints RabbitMQ as the faster broker when both are equal.
* An order whose commit reply is lost is answered with 400 and stored.

## Not modelled, and why

* A crash of the process: none of the programs recovers anything; write-back's
  comment names the loss.
* A store call cut off by a timeout that takes effect later, and retries inside
  pgx; the stores answer before the call returns.
* Throughput, mean and maximum latencies: arithmetic on clock readings.
  Formatting, connection set-up and start-up failures.
* The order of messages in a queue.  (Redis is used as a stack, `LPUSH` and
  `BLPOP` at the same end; no modelled property depends on it.)
* RabbitMQ's Nack branch: the handler never returns an error.  The expiry of an
  unused queue after 60 s and restarts of the servers.
* The text of both reports, process launching in the scripts, and the test
  doubles (`mock.go`), which are not part of the program.
* The store's tables beyond what the routes touch: no route adds or removes a
  customer, changes a product or an order, so neither does the model.

## What remains

* `Delivery`, an abstract queue (at least once for RabbitMQ, at most once and
  retries for Redis) that both broker models would implement.
* How stale a write-back read may be: a read that found its key in neither the
  cache nor the map may put an old row over a newer value (`write_back.go:86`).
  `CacheAccountedFor` and `InheritedOnly` say where a cached value comes from,
  not how old it may be.
* The order of the Redis list, which a claim about latency would need.
