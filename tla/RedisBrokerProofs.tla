------------------------- MODULE RedisBrokerProofs --------------------------
(***************************************************************************)
(* The benchmark on Redis for any number of workers, messages and          *)
(* failures: each failure of a connection loses one message at most, and   *)
(* adds one copy of a message at most.                                     *)
(***************************************************************************)
EXTENDS TLAPS, RedisBroker, FiniteSetTheorems

\* Where the producer's loop stands in its buffer.
Loop ==
    /\ phase \notin {"batch", "single"} => cursor = flushed
    /\ phase = "finished" => flushed = generated
    /\ phase = "purging" => cursor = 0

\* A worker that waits in BLPop has handled what it popped before.
Waiting == \A c \in blocked : holding[c] = None

\* DuplicatesBounded, for what this pass over the buffer has not reached yet.
Passes == \A m \in Messages :
    /\ m <= cursor => Copies(m) <= 1 + failures
    /\ m > cursor => Copies(m) <= failures

IInv == TypeOK /\ Loop /\ SendsRecorded /\ Waiting /\ Passes /\ LossBounded

----------------------------------------------------------------------------
(* Types, the producer's loop and its counters.                            *)

Numbers ==
    /\ phase \in {"purging", "collecting", "batch", "single", "finished"}
    /\ generated \in 0 .. MaxMessages
    /\ flushed \in 0 .. generated
    /\ cursor \in flushed .. generated
    /\ sent \in Nat /\ errors \in Nat
    /\ failures \in 0 .. MaxFailures

Booleans == closing \in BOOLEAN /\ producerOver \in BOOLEAN /\ consumerOver \in BOOLEAN

Progress == Numbers' /\ SendsRecorded' /\ Loop'

LEMMA ProducerProgress == ASSUME IInv, [Next]_vars PROVE Progress
<1> USE BenchAssumption
<1>0. Numbers /\ SendsRecorded /\ Loop
  BY DEF IInv, TypeOK, BenchTypeOK, Numbers
<1>1. CASE Shared(ContextDone) \/ Shared(Generate)
  BY <1>0, <1>1 DEF Shared, ContextDone, Generate, Numbers, SendsRecorded, ProducerFinished, Loop, Progress
<1>2. CASE Shared(FallBackDone)
  BY <1>0, <1>2 DEF Shared, FallBackDone, FlushReturns, Numbers, SendsRecorded, ProducerFinished, Loop, Progress
<1>3. CASE Shared(PurgeFails) \/ Shared(Purge)
  BY <1>0, <1>3 DEF Shared, PurgeFails, Purge, Fails, Numbers, SendsRecorded, ProducerFinished, Loop, Progress
<1>4. CASE PipelinePush \/ PublishBatchFails \/ PipelineRetried
  BY <1>0, <1>4 DEF PipelinePush, PublishBatchFails, PipelineRetried, FallBack, Fails, Numbers, SendsRecorded,
     ProducerFinished, Loop, Progress
<1>5. CASE Publish \/ PublishFails
  <2>0. failures' = failures \/ Fails
    BY <1>5 DEF Publish, PublishFails
  <2>1. failures' \in 0 .. MaxFailures
    BY <1>0, <2>0 DEF Fails, Numbers
  <2>2. PICK ok \in BOOLEAN : Returned(ok)
    BY <1>5 DEF Publish, PublishFails
  <2> QED
    BY <1>0, <2>1, <2>2 DEF Returned, Numbers, SendsRecorded, ProducerFinished, Loop, Progress
<1>6. CASE \/ PublishRetried \/ \E c \in Consumers : WorkerStep(c)
           \/ Shared(ProducerDeadline) \/ Shared(ConsumerDeadline) \/ UNCHANGED vars
  <2>1. UNCHANGED producer /\ failures' \in 0 .. MaxFailures
    BY <1>0, <1>6 DEF PublishRetried, WorkerStep, WorkerGoesOn, Poll, Pop, PopTimeout, PopFails, ReplyLost, Handle, Fails, Shared,
       ProducerDeadline, ConsumerDeadline, vars, producer, Numbers
  <2> QED
    BY <1>0, <2>1 DEF producer, Numbers, SendsRecorded, ProducerFinished, Loop, Progress
<1>7. CASE PublishBatch
  <2>1. /\ phase = "batch" /\ sent' = sent + (generated - flushed) /\ errors' = errors
        /\ flushed' = generated /\ cursor' = generated /\ phase' \in {"finished", "collecting"}
        /\ UNCHANGED <<generated, failures>>
    BY <1>7 DEF PublishBatch, FlushReturns
  <2>2. generated \in Nat /\ flushed \in Nat /\ generated - flushed \in Nat /\ sent + errors = flushed
    BY <1>0, <2>1 DEF Numbers, SendsRecorded
  <2>3. Numbers'
    BY <1>0, <2>1, <2>2 DEF Numbers
  <2>4. SendsRecorded' /\ Loop'
    BY <1>0, <2>1, <2>2 DEF Numbers, SendsRecorded, ProducerFinished, Loop
  <2> QED
    BY <2>3, <2>4 DEF Progress
<1> QED
  BY <1>1, <1>2, <1>3, <1>4, <1>5, <1>6, <1>7 DEF Next, ProducerStep, Over

LEMMA BooleansStep == ASSUME IInv, [Next]_vars PROVE Booleans'
<1>0. Booleans
  BY DEF IInv, TypeOK, BenchTypeOK, Booleans
<1>1. CASE ProducerStep
  BY <1>0, <1>1 DEF ProducerStep, Shared, Purge, PurgeFails, ContextDone, FallBackDone, FlushReturns, PipelinePush,
     PublishBatch, PublishBatchFails, FallBack, PipelineRetried, Publish, PublishFails, PublishRetried, Returned,
     producer, deadlines, Booleans
<1>2. CASE Shared(Generate) \/ Shared(ProducerDeadline) \/ Shared(ConsumerDeadline) \/ UNCHANGED vars
  BY <1>0, <1>2 DEF Shared, Generate, ProducerDeadline, ConsumerDeadline, vars, producer, deadlines, Booleans
<1>3. CASE \E c \in Consumers : WorkerStep(c)
  BY <1>0, <1>3 DEF WorkerStep, WorkerGoesOn, Poll, Pop, PopTimeout, PopFails, ReplyLost, Handle, producer, deadlines, Booleans
<1> QED
  BY <1>1, <1>2, <1>3 DEF Next, Over

----------------------------------------------------------------------------
(* Counting copies.                                                        *)

Stocks ==
    /\ queue \in [InQueue -> Nat] /\ counted \in [InQueue -> Nat]
    /\ holding \in [Consumers -> InQueue \cup {None}]
    /\ exited \subseteq Consumers /\ blocked \subseteq Consumers

Holders(m) == {c \in Consumers : holding[c] = m}

LEMMA CountHolders ==
    ASSUME NEW m
    PROVE  IsFiniteSet(Holders(m)) /\ Cardinality(Holders(m)) \in Nat
<1>1. Holders(m) \in SUBSET Consumers
  BY DEF Holders
<1> QED
  BY <1>1, ConsumersAssumption, FS_Subset, FS_CardinalityType

LEMMA CountCopies ==
    ASSUME Stocks, NEW m \in InQueue
    PROVE  /\ Copies(m) \in Nat /\ Copies(m) = queue[m] + counted[m] + Cardinality(Holders(m))
           /\ queue[m] \in Nat /\ counted[m] \in Nat /\ Cardinality(Holders(m)) \in Nat
<1>1. queue[m] \in Nat /\ counted[m] \in Nat /\ Cardinality(Holders(m)) \in Nat
  BY CountHolders DEF Stocks
<1>2. Copies(m) = queue[m] + counted[m] + Cardinality(Holders(m))
  BY DEF Copies, Holders
<1> QED
  BY <1>1, <1>2

\* The copies of m in the next state.
NextCopies(m) == queue'[m] + counted'[m] + Cardinality(Holders(m)')

LEMMA NextIsCopies == ASSUME NEW m PROVE NextCopies(m) = Copies(m)'
BY DEF NextCopies, Copies, Holders

LEMMA PutCopies ==
    ASSUME Stocks, NEW m \in InQueue, Put(m), UNCHANGED <<counted, holding>>
    PROVE  /\ Stocks' \/ ~UNCHANGED <<exited, blocked>>
           /\ Copies(m)' = Copies(m) + 1
           /\ \A n \in InQueue \ {m} : Copies(n)' = Copies(n)
<1>1. /\ queue' \in [InQueue -> Nat] /\ queue'[m] = queue[m] + 1
      /\ \A n \in InQueue \ {m} : queue'[n] = queue[n]
  BY DEF Stocks, Put
<1>2. \A n : Holders(n)' = Holders(n)
  BY DEF Holders
<1>3. Copies(m)' = Copies(m) + 1
  BY <1>1, <1>2, CountCopies DEF Copies, Holders
<1>4. \A n \in InQueue \ {m} : Copies(n)' = Copies(n)
  BY <1>1 DEF Copies
<1> QED
  BY <1>1, <1>3, <1>4 DEF Stocks

\* A worker that popped m holds one more, and one that lets go of it one less.
LEMMA TakesHolders ==
    ASSUME Stocks, NEW c \in Consumers, NEW m \in InQueue, holding[c] = None,
           holding' = [holding EXCEPT ![c] = m]
    PROVE  /\ Cardinality(Holders(m)') = Cardinality(Holders(m)) + 1
           /\ \A n \in InQueue \ {m} : Holders(n)' = Holders(n)
<1>1. m # None /\ None \notin InQueue
  BY BenchAssumption DEF InQueue, Stale, Messages
<1>2. Holders(m)' = Holders(m) \cup {c} /\ c \notin Holders(m)
  BY <1>1 DEF Stocks, Holders
<1>3. \A n \in InQueue \ {m} : Holders(n)' = Holders(n)
  BY <1>1 DEF Stocks, Holders
<1> QED
  BY <1>2, <1>3, CountHolders, FS_AddElement

LEMMA DropsHolders ==
    ASSUME Stocks, NEW c \in Consumers, NEW m \in InQueue, holding[c] = m,
           holding' = [holding EXCEPT ![c] = None]
    PROVE  /\ Cardinality(Holders(m)') = Cardinality(Holders(m)) - 1
           /\ \A n \in InQueue \ {m} : Holders(n)' = Holders(n)
<1>1. m # None /\ None \notin InQueue
  BY BenchAssumption DEF InQueue, Stale, Messages
<1>2. Holders(m)' = Holders(m) \ {c} /\ c \in Holders(m)
  BY <1>1 DEF Stocks, Holders
<1>3. \A n \in InQueue \ {m} : Holders(n)' = Holders(n)
  BY <1>1 DEF Stocks, Holders
<1> QED
  BY <1>2, <1>3, CountHolders, FS_RemoveElement

----------------------------------------------------------------------------
(* Where the copies go: what a step does to them, step by step.            *)

LEMMA StocksStep == ASSUME IInv, [Next]_vars PROVE Stocks' /\ Waiting'
<1>0. Stocks /\ Waiting /\ cursor \in 0 .. MaxMessages /\ generated \in 0 .. MaxMessages
  BY BenchAssumption DEF IInv, TypeOK, BenchTypeOK, Stocks
<1>1. CASE UNCHANGED <<holding, counted, exited, blocked>> /\ queue' \in [InQueue -> Nat]
  BY <1>0, <1>1 DEF Stocks, Waiting
<1>2. ASSUME NEW m, m = cursor + 1, cursor < generated, Put(m), UNCHANGED <<holding, counted, exited, blocked>>
      PROVE  Stocks' /\ Waiting'
  <2>1. m \in InQueue
    BY <1>0, <1>2, BenchAssumption DEF InQueue, Messages
  <2>2. queue' \in [InQueue -> Nat]
    BY <1>0, <1>2, <2>1 DEF Put, Stocks
  <2> QED
    BY <1>1, <1>2, <2>2
<1>3. CASE ProducerStep
  <2>1. CASE \/ Shared(PurgeFails) \/ Shared(ContextDone) \/ Shared(FallBackDone)
             \/ PublishBatch \/ PublishBatchFails \/ PipelineRetried
    <3>1. UNCHANGED <<queue, holding, counted, exited, blocked>>
      BY <2>1 DEF Shared, PurgeFails, ContextDone, FallBackDone, PublishBatch, PublishBatchFails, PipelineRetried,
         consumer
    <3> QED
      BY <1>0, <1>1, <3>1 DEF Stocks
  <2>2. CASE Shared(Purge)
    <3>1. queue' = NoCopies /\ UNCHANGED <<holding, counted, exited, blocked>>
      BY <2>2 DEF Shared, Purge, consumer
    <3> QED
      BY <1>1, <3>1 DEF NoCopies
  <2>3. CASE PipelinePush \/ Publish \/ PublishRetried \/ PublishFails
    <3>1. cursor < generated /\ UNCHANGED <<holding, counted, exited, blocked>>
      BY <2>3 DEF PipelinePush, Publish, PublishRetried, PublishFails, Returned, consumer
    <3>2. Put(cursor + 1) \/ UNCHANGED queue
      BY <2>3 DEF PipelinePush, Publish, PublishRetried, PublishFails
    <3> QED
      BY <1>0, <1>1, <1>2, <3>1, <3>2 DEF Stocks
  <2> QED
    BY <1>3, <2>1, <2>2, <2>3 DEF ProducerStep
<1>4. CASE Shared(Generate) \/ Shared(ProducerDeadline) \/ Shared(ConsumerDeadline) \/ UNCHANGED vars
  <2>1. UNCHANGED <<queue, holding, counted, exited, blocked>>
    BY <1>4 DEF Shared, Generate, ProducerDeadline, ConsumerDeadline, vars, consumer
  <2> QED
    BY <1>0, <1>1, <2>1 DEF Stocks
<1>5. ASSUME NEW c \in Consumers, WorkerStep(c)
      PROVE  Stocks' /\ Waiting'
  <2>1. CASE Poll(c)
    BY <1>0, <2>1 DEF Poll, Free, Leave, Stocks, Waiting
  <2>2. CASE Pop(c)
    BY <1>0, <2>2 DEF Pop, Take, Stocks, Waiting
  <2>3. CASE PopTimeout(c) \/ PopFails(c)
    BY <1>0, <2>3 DEF PopTimeout, PopFails, Leave, consumer, Stocks, Waiting
  <2>4. CASE ReplyLost(c)
    BY <1>0, <2>4 DEF ReplyLost, Leave, Stocks, Waiting
  <2>5. CASE Handle(c)
    BY <1>0, <2>5 DEF Handle, Count, Stocks, Waiting
  <2> QED
    BY <1>5, <2>1, <2>2, <2>3, <2>4, <2>5 DEF WorkerStep, WorkerGoesOn
<1> QED
  BY <1>3, <1>4, <1>5 DEF Next, Over

LEMMA PopCopies ==
    ASSUME Stocks, Waiting, NEW c \in Consumers, Pop(c)
    PROVE  \A n \in InQueue : Copies(n)' = Copies(n)
<1>1. PICK m \in InQueue : Take(m) /\ holding' = [holding EXCEPT ![c] = m]
  BY DEF Pop
<1>2. holding[c] = None /\ counted' = counted
  BY DEF Waiting, Pop
<1>3. /\ queue[m] > 0 /\ queue'[m] = queue[m] - 1
      /\ \A n \in InQueue \ {m} : queue'[n] = queue[n]
  BY <1>1 DEF Take, Stocks
<1>4. /\ Cardinality(Holders(m)') = Cardinality(Holders(m)) + 1
      /\ \A n \in InQueue \ {m} : Holders(n)' = Holders(n)
  BY <1>1, <1>2, TakesHolders
<1>5. Copies(m)' = Copies(m)
  BY <1>2, <1>3, <1>4, CountCopies DEF Copies, Holders
<1>6. \A n \in InQueue \ {m} : Copies(n)' = Copies(n)
  BY <1>2, <1>3, <1>4 DEF Copies, Holders
<1> QED
  BY <1>5, <1>6

LEMMA HandleCopies ==
    ASSUME Stocks, NEW c \in Consumers, Handle(c)
    PROVE  \A n \in InQueue : Copies(n)' = Copies(n)
<1>1. PICK m \in InQueue : m = holding[c]
  BY DEF Stocks, Handle
<1>2. /\ queue' = queue /\ counted'[m] = counted[m] + 1
      /\ \A n \in InQueue \ {m} : counted'[n] = counted[n]
  BY <1>1 DEF Handle, Count, Stocks
<1>3. /\ Cardinality(Holders(m)') = Cardinality(Holders(m)) - 1
      /\ \A n \in InQueue \ {m} : Holders(n)' = Holders(n)
  BY <1>1, DropsHolders DEF Handle
<1>4. Copies(m)' = Copies(m)
  BY <1>1, <1>2, <1>3, CountCopies DEF Copies, Holders
<1>5. \A n \in InQueue \ {m} : Copies(n)' = Copies(n)
  BY <1>2, <1>3 DEF Copies, Holders
<1> QED
  BY <1>4, <1>5

\* A reply that is lost takes one copy of one message with it.
LEMMA LostCopies ==
    ASSUME Stocks, NEW c \in Consumers, ReplyLost(c)
    PROVE  \E m \in InQueue : /\ Copies(m)' = Copies(m) - 1
                              /\ \A n \in InQueue \ {m} : Copies(n)' = Copies(n)
<1>1. PICK m \in InQueue : m = holding[c]
  BY DEF Stocks, ReplyLost
<1>2. queue' = queue /\ counted' = counted
  BY DEF ReplyLost
<1>3. /\ Cardinality(Holders(m)') = Cardinality(Holders(m)) - 1
      /\ \A n \in InQueue \ {m} : Holders(n)' = Holders(n)
  BY <1>1, DropsHolders DEF ReplyLost
<1>4. Copies(m)' = Copies(m) - 1
  BY <1>1, <1>2, <1>3, CountCopies DEF Copies, Holders
<1>5. \A n \in InQueue \ {m} : Copies(n)' = Copies(n)
  BY <1>2, <1>3 DEF Copies, Holders
<1> QED
  BY <1>1, <1>4, <1>5

----------------------------------------------------------------------------
(* What that does to the two bounds.                                       *)

Bounds == Stocks /\ Numbers /\ Passes /\ LossBounded

\* The published messages of which no copy is left.
Gone == {m \in Published : Copies(m) = 0}

LEMMA GoneFinite ==
    ASSUME Numbers
    PROVE  IsFiniteSet(Gone) /\ Cardinality(Gone) \in Nat
<1>1. IsFiniteSet(Published)
  BY BenchAssumption, FS_Interval DEF Published, Numbers
<1>2. Gone \in SUBSET Published
  BY DEF Gone
<1> QED
  BY <1>1, <1>2, FS_Subset, FS_CardinalityType

LEMMA PublishedMessages == ASSUME Numbers PROVE Published \subseteq Messages /\ Messages \subseteq InQueue
BY BenchAssumption DEF Published, Numbers, Messages, InQueue

\* No more messages are gone than before.
LEMMA NoneGone ==
    ASSUME Bounds, Gone' \subseteq Gone, failures' >= failures, failures' \in Nat
    PROVE  LossBounded'
<1>1. Cardinality(Gone) \in Nat /\ Cardinality(Gone') <= Cardinality(Gone)
      /\ Cardinality(Gone') \in Nat
  BY GoneFinite, FS_Subset, FS_CardinalityType DEF Bounds
<1>2. Cardinality(Gone) <= failures /\ failures \in Nat
  BY BenchAssumption DEF Bounds, LossBounded, Gone, Numbers
<1> QED
  BY <1>1, <1>2 DEF LossBounded, Gone

\* One message is gone for one failure.
LEMMA OneGone ==
    ASSUME Bounds, NEW m, Gone' \subseteq Gone \cup {m}, failures' = failures + 1
    PROVE  LossBounded'
<1>1. /\ IsFiniteSet(Gone) /\ Cardinality(Gone) \in Nat
      /\ IsFiniteSet(Gone \cup {m}) /\ Cardinality(Gone \cup {m}) <= Cardinality(Gone) + 1
      /\ Cardinality(Gone \cup {m}) \in Nat
  BY GoneFinite, FS_AddElement, FS_CardinalityType DEF Bounds
<1>2. Cardinality(Gone') <= Cardinality(Gone \cup {m}) /\ Cardinality(Gone') \in Nat
  BY <1>1, FS_Subset, FS_CardinalityType
<1>3. Cardinality(Gone) <= failures /\ failures \in Nat
  BY BenchAssumption DEF Bounds, LossBounded, Gone, Numbers
<1> QED
  BY <1>1, <1>2, <1>3 DEF LossBounded, Gone

\* The cursor moves on only with a push, and back only with a failure.
LEMMA KeepsBounds ==
    ASSUME Bounds, cursor' \in 0 .. MaxMessages, failures' \in Nat, cursor' <= cursor,
           IF cursor' = cursor THEN failures' >= failures ELSE failures' = failures + 1,
           \A m \in Messages : Copies(m)' = Copies(m)
    PROVE  Passes' /\ LossBounded'
<1>1. cursor \in Nat /\ failures \in Nat /\ \A m \in Messages : Copies(m) \in Nat /\ m \in Nat
  BY BenchAssumption, CountCopies, PublishedMessages DEF Bounds, Numbers, Messages
<1>2. Passes'
  BY <1>1 DEF Bounds, Passes
<1>3. Gone' \subseteq Gone
  BY <1>1, BenchAssumption, PublishedMessages DEF Gone, Published, Bounds, Numbers, Messages
<1> QED
  BY <1>1, <1>2, <1>3, NoneGone

LEMMA PushKeepsBounds ==
    ASSUME Bounds, cursor < generated, Put(cursor + 1), UNCHANGED <<counted, holding>>,
           failures' \in Nat,
           \/ cursor' = cursor + 1 /\ failures' >= failures
           \/ cursor' = cursor /\ failures' = failures + 1
    PROVE  Passes' /\ LossBounded'
<1>1. cursor \in Nat /\ failures \in Nat /\ \A m \in Messages : Copies(m) \in Nat /\ m \in Nat
  BY BenchAssumption, CountCopies, PublishedMessages DEF Bounds, Numbers, Messages
<1>2. PICK k \in Messages : k = cursor + 1
  BY BenchAssumption DEF Bounds, Numbers, Messages
<1>3. Copies(k)' = Copies(k) + 1 /\ \A m \in Messages \ {k} : Copies(m)' = Copies(m)
  BY <1>2, PutCopies, PublishedMessages DEF Bounds
<1>4. Passes'
  BY <1>1, <1>2, <1>3 DEF Bounds, Passes
<1>5. \A m \in Gone' : m # k /\ m \in Messages /\ m <= cursor
  BY <1>1, <1>2, <1>3, BenchAssumption DEF Gone, Published, Bounds, Numbers, Messages
<1>6. Gone' \subseteq Gone
  BY <1>1, <1>3, <1>5 DEF Gone, Published, Messages
<1> QED
  BY <1>1, <1>4, <1>6, NoneGone

LEMMA FailureKeepsBounds ==
    ASSUME Bounds, NEW x \in InQueue, failures' = failures + 1, Copies(x)' \in {Copies(x), Copies(x) - 1},
           \A m \in InQueue \ {x} : Copies(m)' = Copies(m),
           cursor' = cursor \/ (cursor < generated /\ cursor' = cursor + 1 /\ x = cursor + 1)
    PROVE  Passes' /\ LossBounded'
<1>1. cursor \in Nat /\ failures \in Nat /\ \A m \in InQueue : Copies(m) \in Nat /\ m \in Nat
  BY BenchAssumption, CountCopies DEF Bounds, Numbers, InQueue, Messages, Stale
<1>2. Messages \subseteq InQueue
  BY DEF InQueue
<1>3. Passes'
  BY <1>1, <1>2 DEF Bounds, Passes
<1>4. Gone' \subseteq Gone \cup {x}
  <2> SUFFICES ASSUME NEW m \in Gone', m # x PROVE m \in Gone
    OBVIOUS
  <2>1. m \in 1 .. cursor' /\ Copies(m)' = 0
    BY DEF Gone, Published
  <2>2. m \in 1 .. cursor
    BY <1>1, <2>1
  <2>3. m \in InQueue
    BY <2>2, PublishedMessages DEF Bounds, Published
  <2> QED
    BY <2>1, <2>2, <2>3 DEF Gone, Published
<1> QED
  BY <1>3, <1>4, OneGone

\* Purge empties the list before anything is published.
LEMMA PurgeKeepsBounds ==
    ASSUME Bounds, Loop, Shared(Purge)
    PROVE  Passes' /\ LossBounded'
<1>1. /\ cursor = 0 /\ cursor' = 0 /\ failures' = failures /\ queue' = NoCopies
      /\ UNCHANGED <<counted, holding>>
  BY DEF Shared, Purge, Loop, consumer
<1>2. \A m \in Messages : Copies(m)' <= Copies(m) /\ Copies(m) \in Nat /\ Copies(m)' \in Nat
  <2> SUFFICES ASSUME NEW m \in Messages
               PROVE  Copies(m)' <= Copies(m) /\ Copies(m) \in Nat /\ Copies(m)' \in Nat
    OBVIOUS
  <2>1. m \in InQueue
    BY DEF InQueue
  <2>2. Copies(m)' = counted[m] + Cardinality(Holders(m))
    BY <1>1, <2>1, CountHolders, CountCopies DEF Copies, Holders, NoCopies, Bounds
  <2> QED
    BY <2>1, <2>2, CountCopies DEF Bounds
<1>3. failures \in Nat /\ \A m \in Messages : m \in Nat /\ m > 0
  BY BenchAssumption DEF Bounds, Numbers, Messages
<1>4. Passes'
  BY <1>1, <1>2, <1>3 DEF Bounds, Passes
<1>5. Gone' \subseteq Gone
  BY <1>1 DEF Gone, Published
<1> QED
  BY <1>1, <1>3, <1>4, <1>5, NoneGone

LEMMA BoundsStep ==
    ASSUME IInv, [Next]_vars, Numbers'
    PROVE  Passes' /\ LossBounded'
<1> USE BenchAssumption
<1>0. Bounds /\ Loop /\ Waiting /\ Stocks
  BY DEF IInv, TypeOK, BenchTypeOK, Bounds, Stocks, Numbers
<1>1. /\ cursor' \in 0 .. MaxMessages /\ failures' \in Nat /\ cursor \in Nat /\ failures \in Nat
      /\ flushed \in 0 .. cursor
  BY <1>0 DEF Bounds, Numbers
<1>2. Messages \subseteq InQueue
  BY DEF InQueue
<1>3. ASSUME UNCHANGED <<queue, counted, holding>>
      PROVE  \A m : Copies(m)' = Copies(m)
  BY <1>3 DEF Copies
<1>4. ASSUME UNCHANGED <<queue, counted, holding>>, UNCHANGED cursor, failures' = failures \/ Fails
      PROVE  Passes' /\ LossBounded'
  <2>1. failures' >= failures
    BY <1>1, <1>4 DEF Fails
  <2> QED
    BY <1>0, <1>1, <1>3, <1>4, <2>1, KeepsBounds
<1>5. ASSUME NEW k, k = cursor + 1, cursor < generated
      PROVE  k \in InQueue
  BY <1>0, <1>5 DEF Bounds, Numbers, InQueue, Messages
<1>6. CASE ProducerStep
  <2>1. CASE Shared(Purge)
    BY <1>0, <2>1, PurgeKeepsBounds
  <2>2. CASE Shared(PurgeFails) \/ Shared(ContextDone) \/ Shared(FallBackDone) \/ PublishBatch
    <3>1. UNCHANGED <<queue, counted, holding>> /\ (failures' = failures \/ Fails)
      BY <2>2 DEF Shared, PurgeFails, ContextDone, FallBackDone, PublishBatch, consumer
    <3>2. UNCHANGED cursor
      BY <2>2 DEF Shared, PurgeFails, ContextDone, FallBackDone, PublishBatch, FlushReturns
    <3> QED
      BY <1>4, <3>1, <3>2
  <2>3. CASE PublishBatchFails \/ PipelineRetried
    <3>1. UNCHANGED <<queue, counted, holding>> /\ Fails /\ cursor' = flushed
      BY <2>3 DEF PublishBatchFails, PipelineRetried, FallBack, consumer
    <3>2. failures' = failures + 1 /\ cursor' <= cursor
      BY <1>1, <3>1 DEF Fails
    <3> QED
      BY <1>0, <1>1, <1>3, <3>1, <3>2, KeepsBounds
  <2>4. CASE PipelinePush \/ Publish \/ PublishRetried
    <3>1. cursor < generated /\ Put(cursor + 1) /\ UNCHANGED <<counted, holding>>
      BY <2>4 DEF PipelinePush, Publish, PublishRetried, Returned, consumer
    <3>2. (cursor' = cursor + 1 /\ failures' = failures) \/ (UNCHANGED cursor /\ Fails)
      BY <2>4 DEF PipelinePush, Publish, PublishRetried, Returned, producer
    <3>3. \/ cursor' = cursor + 1 /\ failures' >= failures
          \/ cursor' = cursor /\ failures' = failures + 1
      BY <1>1, <3>2 DEF Fails
    <3> QED
      BY <1>0, <1>1, <3>1, <3>3, PushKeepsBounds
  <2>5. CASE PublishFails
    <3>0. Returned(FALSE) /\ Fails /\ UNCHANGED <<counted, holding>>
      BY <2>5 DEF PublishFails, consumer
    <3>1. cursor < generated /\ cursor' = cursor + 1 /\ failures' = failures + 1
          /\ UNCHANGED <<counted, holding>>
      BY <3>0 DEF Returned, Fails
    <3>2. CASE Put(cursor + 1)
      BY <1>0, <1>1, <3>1, <3>2, PushKeepsBounds
    <3>3. CASE UNCHANGED queue
      <4>1. PICK k \in InQueue : k = cursor + 1
        BY <1>5, <3>1
      <4>2. \A m \in InQueue : Copies(m)' = Copies(m)
        BY <1>3, <3>1, <3>3
      <4> QED
        BY <1>0, <3>1, <4>1, <4>2, FailureKeepsBounds
    <3> QED
      BY <2>5, <3>2, <3>3 DEF PublishFails
  <2> QED
    BY <1>6, <2>1, <2>2, <2>3, <2>4, <2>5 DEF ProducerStep
<1>7. CASE Shared(Generate) \/ Shared(ProducerDeadline) \/ Shared(ConsumerDeadline) \/ UNCHANGED vars
  <2>1. UNCHANGED <<queue, counted, holding, cursor, failures>>
    BY <1>7 DEF Shared, Generate, ProducerDeadline, ConsumerDeadline, vars, producer, consumer
  <2> QED
    BY <1>4, <2>1
<1>8. ASSUME NEW c \in Consumers, WorkerStep(c)
      PROVE  Passes' /\ LossBounded'
  <2>1. UNCHANGED cursor
    BY <1>8 DEF WorkerStep, WorkerGoesOn, Poll, Pop, PopTimeout, PopFails, ReplyLost, Handle, producer
  <2>2. CASE Poll(c) \/ PopTimeout(c) \/ PopFails(c)
    <3>1. UNCHANGED <<queue, counted, holding>> /\ (failures' = failures \/ Fails)
      BY <2>2 DEF Poll, PopTimeout, PopFails, consumer
    <3> QED
      BY <1>4, <2>1, <3>1
  <2>3. CASE Pop(c) \/ Handle(c)
    <3>1. \A n \in InQueue : Copies(n)' = Copies(n)
      BY <1>0, <2>3, PopCopies, HandleCopies
    <3>2. failures' >= failures
      BY <1>1, <2>3 DEF Pop, Handle
    <3> QED
      BY <1>0, <1>1, <1>2, <2>1, <3>1, <3>2, KeepsBounds
  <2>4. CASE ReplyLost(c)
    <3>1. failures' = failures + 1
      BY <2>4 DEF ReplyLost, Fails
    <3>2. PICK m \in InQueue : /\ Copies(m)' = Copies(m) - 1
                               /\ \A n \in InQueue \ {m} : Copies(n)' = Copies(n)
      BY <1>0, <2>4, LostCopies
    <3> QED
      BY <1>0, <2>1, <3>1, <3>2, FailureKeepsBounds
  <2> QED
    BY <1>8, <2>2, <2>3, <2>4 DEF WorkerStep, WorkerGoesOn
<1> QED
  BY <1>6, <1>7, <1>8 DEF Next, Over

----------------------------------------------------------------------------
(* The invariant, and what follows from it.                                *)

LEMMA InitInv == Init => IInv
<1> SUFFICES ASSUME Init PROVE IInv
  OBVIOUS
<1> USE BenchAssumption
<1>0. Stale \in InQueue \ Messages /\ Messages \subseteq InQueue /\ None \notin InQueue
  BY DEF InQueue, Messages, Stale
<1>1. queue \in [InQueue -> Nat] /\ \A m \in Messages : queue[m] = 0
  <2>1. CASE queue = NoCopies
    BY <1>0, <2>1 DEF NoCopies
  <2>2. CASE queue = [NoCopies EXCEPT ![Stale] = 1]
    BY <1>0, <2>2 DEF NoCopies
  <2> QED
    BY <2>1, <2>2 DEF Init, BenchInit
<1>2. counted \in [InQueue -> Nat] /\ \A m \in InQueue : counted[m] = 0
  BY DEF Init, BenchInit, NoCopies
<1>3. /\ holding \in [Consumers -> InQueue \cup {None}] /\ \A m \in InQueue : Holders(m) = {}
      /\ exited = {} /\ blocked = {}
  BY <1>0 DEF Init, BenchInit, Holders
<1>4. Stocks /\ Numbers /\ Booleans
  <2>1. Stocks
    BY <1>1, <1>2, <1>3 DEF Stocks
  <2>2. Numbers
    BY DEF Init, BenchInit, Numbers
  <2>3. Booleans
    BY DEF Init, BenchInit, Booleans
  <2> QED
    BY <2>1, <2>2, <2>3
<1>5. Loop /\ SendsRecorded /\ Waiting
  BY <1>3 DEF Init, BenchInit, Loop, SendsRecorded, ProducerFinished, Waiting
<1>6. \A m \in Messages : Copies(m) = 0
  <2> SUFFICES ASSUME NEW m \in Messages PROVE Copies(m) = 0
    OBVIOUS
  <2>1. queue[m] = 0 /\ counted[m] = 0 /\ Cardinality(Holders(m)) = 0
    BY <1>0, <1>1, <1>2, <1>3, FS_EmptySet
  <2> QED
    BY <1>0, <1>4, <2>1, CountCopies
<1>7. Passes
  BY <1>6 DEF Init, BenchInit, Passes, Messages
<1>8. LossBounded
  <2>1. Published = {} /\ failures = 0
    BY DEF Init, BenchInit, Published
  <2>2. {m \in Published : Copies(m) = 0} = {}
    BY <2>1
  <2> QED
    BY <2>1, <2>2, FS_EmptySet DEF LossBounded
<1> QED
  BY <1>4, <1>5, <1>7, <1>8 DEF IInv, TypeOK, BenchTypeOK, Stocks, Numbers, Booleans

LEMMA Invariance == Spec => []IInv
<1>1. Init => IInv
  BY InitInv
<1>2. IInv /\ [Next]_vars => IInv'
  <2> SUFFICES ASSUME IInv, [Next]_vars PROVE IInv'
    OBVIOUS
  <2>1. Numbers' /\ SendsRecorded' /\ Loop'
    BY ProducerProgress DEF Progress
  <2>2. Booleans' /\ Stocks' /\ Waiting'
    BY BooleansStep, StocksStep
  <2>3. Passes' /\ LossBounded'
    BY <2>1, BoundsStep
  <2>4. TypeOK'
    BY <2>1, <2>2 DEF TypeOK, BenchTypeOK, Numbers, Booleans, Stocks
  <2> QED
    BY <2>1, <2>2, <2>3, <2>4 DEF IInv
<1> QED
  BY <1>1, <1>2, PTL DEF Spec

\* The producer's cursors stay ordered and within the buffer, and no queue or
\* counter goes below zero.
THEOREM TypeCorrect == Spec => []TypeOK
<1>1. IInv => TypeOK
  BY DEF IInv
<1> QED
  BY <1>1, Invariance, PTL

\* However often a batch or a message is sent again, the producer's metrics
\* hold every generated message exactly once.
THEOREM Recorded == Spec => []SendsRecorded
<1>1. IInv => SendsRecorded
  BY DEF IInv
<1> QED
  BY <1>1, Invariance, PTL

\* No more published messages are gone, neither in the list nor with a worker
\* nor counted, than connections have failed.
THEOREM Losses == Spec => []LossBounded
<1>1. IInv => LossBounded
  BY DEF IInv
<1> QED
  BY <1>1, Invariance, PTL

\* Every copy of a message beyond the first has cost a failure.
THEOREM Duplicates == Spec => []DuplicatesBounded
<1>1. IInv => DuplicatesBounded
  <2> SUFFICES ASSUME IInv, NEW m \in Messages PROVE Copies(m) <= 1 + failures
    BY DEF DuplicatesBounded
  <2>1. failures \in Nat /\ cursor \in Nat /\ m \in Nat
    BY BenchAssumption DEF IInv, TypeOK, BenchTypeOK, Messages
  <2>2. Stocks /\ m \in InQueue
    BY DEF IInv, TypeOK, BenchTypeOK, Stocks, InQueue
  <2>3. Copies(m) \in Nat
    BY <2>2, CountCopies
  <2> QED
    BY <2>1, <2>3 DEF IInv, Passes
<1> QED
  BY <1>1, Invariance, PTL
=============================================================================
