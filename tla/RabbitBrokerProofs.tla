------------------------- MODULE RabbitBrokerProofs -------------------------
(***************************************************************************)
(* The benchmark on RabbitMQ for any number of workers, messages and       *)
(* failures: the producer records every message once, no accepted message  *)
(* vanishes, and none is counted twice.                                    *)
(***************************************************************************)
EXTENDS TLAPS, RabbitBroker, FiniteSetTheorems

\* Where the producer's loop stands in its buffer; while it purges it has not
\* published anything.
Loop ==
    /\ phase # "single" => cursor = flushed
    /\ phase = "finished" => flushed = generated
    /\ phase = "purging" => accepted = {}

\* A worker holds only what it has counted, and nothing when it has left.
Held ==
    \A c \in Consumers :
        /\ holding[c] # None => counted[holding[c]] > 0
        /\ c \in exited => holding[c] = None

\* What has not been published yet is nowhere.
Future ==
    \A m \in Messages : m > cursor =>
        /\ queue[m] = 0 /\ counted[m] = 0
        /\ \A c \in Consumers : m \notin delivered[c]

\* The workers a message was pushed to and not handled by.
Pushed(m) == {c \in Consumers : m \in delivered[c]}

\* CountedOnce, and its part that survives a lost connection: what is counted
\* is not waiting in a worker's buffer.
Once ==
    \A m \in InQueue :
        /\ Unhandled(m) + counted[m] <= 1
        /\ connection # "lost" => queue[m] + Unhandled(m) + counted[m] <= 1

IInv == TypeOK /\ Loop /\ SendsRecorded /\ Held /\ Future /\ Once /\ NothingVanishes

----------------------------------------------------------------------------
(* Counting workers.                                                       *)

LEMMA Counts ==
    ASSUME NEW m
    PROVE  /\ IsFiniteSet(Pushed(m)) /\ Unhandled(m) \in Nat
           /\ Unhandled(m) = Cardinality(Pushed(m))
           /\ Unhandled(m) = 0 <=> Pushed(m) = {}
           /\ IsFiniteSet(Unacked(m)) /\ Cardinality(Unacked(m)) \in Nat
           /\ Cardinality(Unacked(m)) = 0 <=> Unacked(m) = {}
<1>1. Pushed(m) \in SUBSET Consumers /\ Unacked(m) \in SUBSET Consumers
  BY DEF Pushed, Unacked
<1>2. IsFiniteSet(Pushed(m)) /\ IsFiniteSet(Unacked(m))
  BY <1>1, FS_Subset, ConsumersAssumption
<1> QED
  BY <1>2, FS_CardinalityType, FS_EmptySet DEF Unhandled, Pushed

\* A delivery to a worker that does not have the message adds one.
LEMMA CountsDeliver ==
    ASSUME TypeOK, NEW c \in Consumers, NEW m \in InQueue, Unhandled(m) = 0,
           delivered' = [delivered EXCEPT ![c] = @ \cup {m}]
    PROVE  /\ Unhandled(m)' = 1
           /\ \A n \in InQueue \ {m} : Unhandled(n)' = Unhandled(n)
<1>1. Pushed(m) = {}
  BY Counts
<1>2. delivered \in [Consumers -> SUBSET InQueue]
  BY DEF TypeOK
<1>3. {d \in Consumers : m \in delivered'[d]} = {c}
  BY <1>1, <1>2 DEF Pushed
<1>4. Unhandled(m)' = 1
  BY <1>3, FS_Singleton DEF Unhandled
<1>5. ASSUME NEW n \in InQueue \ {m}
      PROVE  Unhandled(n)' = Unhandled(n)
  <2>1. {d \in Consumers : n \in delivered'[d]} = {d \in Consumers : n \in delivered[d]}
    BY <1>2
  <2> QED
    BY <2>1 DEF Unhandled
<1> QED
  BY <1>4, <1>5

\* A worker that takes a message from its buffer leaves one less.
LEMMA CountsHandle ==
    ASSUME TypeOK, NEW c \in Consumers, NEW m \in delivered[c],
           delivered' = [delivered EXCEPT ![c] = @ \ {m}]
    PROVE  /\ Unhandled(m)' = Unhandled(m) - 1
           /\ \A n \in InQueue \ {m} : Unhandled(n)' = Unhandled(n)
<1>1. delivered \in [Consumers -> SUBSET InQueue]
  BY DEF TypeOK
<1>2. {d \in Consumers : m \in delivered'[d]} = Pushed(m) \ {c}
  BY <1>1 DEF Pushed
<1>3. c \in Pushed(m)
  BY DEF Pushed
<1>4. Unhandled(m)' = Unhandled(m) - 1
  BY <1>2, <1>3, Counts, FS_RemoveElement DEF Unhandled
<1>5. ASSUME NEW n \in InQueue \ {m}
      PROVE  Unhandled(n)' = Unhandled(n)
  <2>1. {d \in Consumers : n \in delivered'[d]} = {d \in Consumers : n \in delivered[d]}
    BY <1>1
  <2> QED
    BY <2>1 DEF Unhandled
<1> QED
  BY <1>4, <1>5

----------------------------------------------------------------------------
(* The initial states.                                                     *)

LEMMA InitInv == Init => IInv
<1> SUFFICES ASSUME Init PROVE IInv
  OBVIOUS
<1>0. Stale \in InQueue \ Messages /\ Messages \subseteq InQueue
  BY DEF InQueue, Messages, Stale
<1>1. queue \in [InQueue -> Nat] /\ \A m \in InQueue : queue[m] <= 1
  <2>1. CASE queue = NoCopies
    BY <2>1 DEF NoCopies
  <2>2. CASE queue = [NoCopies EXCEPT ![Stale] = 1]
    BY <2>2, <1>0 DEF NoCopies
  <2> QED
    BY <2>1, <2>2 DEF Init, BenchInit
<1>2. \A m \in Messages : queue[m] = 0
  <2>1. queue = NoCopies \/ queue = [NoCopies EXCEPT ![Stale] = 1]
    BY DEF Init, BenchInit
  <2> QED
    BY <2>1, <1>0 DEF NoCopies
<1>3. counted \in [InQueue -> Nat] /\ \A m \in InQueue : counted[m] = 0
  BY DEF Init, BenchInit, NoCopies
<1>4. TypeOK
  <2>1. BenchTypeOK
    <3>1. holding \in [Consumers -> InQueue \cup {None}]
      BY DEF Init, BenchInit
    <3>2. /\ phase = "purging" /\ closing = FALSE
          /\ generated = 0 /\ flushed = 0 /\ cursor = 0
          /\ sent = 0 /\ errors = 0 /\ failures = 0
          /\ producerOver = FALSE /\ consumerOver = FALSE /\ exited = {}
      BY DEF Init, BenchInit
    <3>3. closing \in BOOLEAN /\ producerOver \in BOOLEAN /\ consumerOver \in BOOLEAN
      BY <3>2
    <3>4. generated \in 0 .. MaxMessages /\ flushed \in 0 .. generated
          /\ cursor \in flushed .. generated /\ failures \in 0 .. MaxFailures
      BY <3>2, BenchAssumption
    <3> QED
      BY <1>1, <1>3, <3>1, <3>2, <3>3, <3>4 DEF BenchTypeOK
  <2>2. delivered \in [Consumers -> SUBSET InQueue]
    BY DEF Init
  <2> QED
    BY <2>1, <2>2 DEF Init, TypeOK
<1>5. \A m \in InQueue : Unhandled(m) = 0
  BY Counts DEF Init, Pushed
<1>6. Once
  BY <1>1, <1>3, <1>5 DEF Once
<1>7. Future
  BY <1>2, <1>3 DEF Future, Init, InQueue
<1>8. Loop /\ SendsRecorded /\ Held /\ NothingVanishes
  BY DEF Init, BenchInit, Loop, SendsRecorded, ProducerFinished, Held, NothingVanishes
<1> QED
  BY <1>4, <1>6, <1>7, <1>8 DEF IInv

----------------------------------------------------------------------------
(* The queue under the steps that change it.                               *)

\* What the consumer's end of the connection puts back is counted.
LEMMA RequeueType ==
    ASSUME TypeOK, Requeue
    PROVE  queue' \in [InQueue -> Nat]
<1>1. \A m \in InQueue : queue[m] \in Nat
  BY DEF TypeOK, BenchTypeOK
<1>2. \A m \in InQueue : queue[m] + Cardinality(Unacked(m)) \in Nat
  BY <1>1, Counts
<1> QED
  BY <1>2 DEF Requeue

----------------------------------------------------------------------------
(* The producer.                                                           *)

\* The steps that leave the queue, the consumer and what was accepted alone.
Aside == UNCHANGED <<queue, holding, counted, exited, delivered, connection, accepted>>

ProducerAside ==
    \/ Shared(ContextDone) \/ Shared(FallBackDone) \/ Shared(Generate)
    \/ PurgeLost \/ PublishBatch \/ PublishLost
    \/ Shared(ProducerDeadline) \/ Shared(ConsumerDeadline) \/ UNCHANGED vars

ConsumerStep ==
    \/ \E c \in Consumers : Deliver(c) \/ Handle(c) \/ Ack(c) \/ Exit(c)
    \/ ConnectionLost \/ Close

LEMMA Steps ==
    ASSUME [Next]_vars
    PROVE  ProducerAside \/ Shared(Purge) \/ Publish \/ ConsumerStep
BY DEF Next, ProducerStep, WorkerStep, Over, ProducerAside, ConsumerStep

LEMMA AsideStep == ASSUME ProducerAside PROVE Aside
<1>1. CASE Shared(ContextDone) \/ Shared(FallBackDone) \/ Shared(Generate)
  BY <1>1 DEF Shared, ContextDone, FallBackDone, Generate, Aside, consumer, channel, publishing
<1>2. CASE PurgeLost \/ PublishBatch \/ PublishLost
  BY <1>2 DEF PurgeLost, PurgeFails, PublishBatch, FallBack, PublishLost, Aside, consumer, channel, publishing
<1>3. CASE Shared(ProducerDeadline) \/ Shared(ConsumerDeadline) \/ UNCHANGED vars
  BY <1>3 DEF Shared, ProducerDeadline, ConsumerDeadline, vars, Aside, consumer, channel, publishing
<1> QED
  BY <1>1, <1>2, <1>3 DEF ProducerAside

Numbers ==
    /\ phase \in {"purging", "collecting", "batch", "single", "finished"}
    /\ generated \in 0 .. MaxMessages
    /\ flushed \in 0 .. generated
    /\ cursor \in flushed .. generated
    /\ sent \in Nat /\ errors \in Nat
    /\ failures \in 0 .. MaxFailures

Booleans == closing \in BOOLEAN /\ producerOver \in BOOLEAN /\ consumerOver \in BOOLEAN

\* The loop keeps its place, counts every message once, and never goes back.
Progress ==
    /\ Numbers' /\ SendsRecorded'
    /\ (phase # "single" => cursor = flushed)'
    /\ (phase = "finished" => flushed = generated)'
    /\ phase' = "purging" => phase = "purging"
    /\ cursor' >= cursor

LEMMA ProducerProgress == ASSUME IInv, [Next]_vars PROVE Progress
<1> USE BenchAssumption
<1>0. Numbers /\ SendsRecorded /\ Loop
  BY DEF IInv, TypeOK, BenchTypeOK, Numbers
<1>1. CASE Shared(ContextDone) \/ Shared(Generate)
  BY <1>0, <1>1 DEF Shared, ContextDone, Generate, Numbers, SendsRecorded, ProducerFinished, Loop, Progress
<1>2. CASE Shared(FallBackDone)
  BY <1>0, <1>2 DEF Shared, FallBackDone, FlushReturns, Numbers, SendsRecorded, ProducerFinished, Loop, Progress
<1>3. CASE PurgeLost \/ Shared(Purge)
  BY <1>0, <1>3 DEF Shared, PurgeLost, PurgeFails, Purge, Fails, Numbers, SendsRecorded, ProducerFinished, Loop, Progress
<1>4. CASE PublishBatch
  BY <1>0, <1>4 DEF PublishBatch, FallBack, Numbers, SendsRecorded, ProducerFinished, Loop, Progress
<1>5. CASE Publish \/ PublishLost
  <2>1. PICK ok \in BOOLEAN : Returned(ok) /\ failures' \in 0 .. MaxFailures
    <3>1. failures' \in 0 .. MaxFailures
      <4>1. failures' = failures \/ Fails
        BY <1>5 DEF Publish, PublishLost
      <4> QED
        BY <1>0, <4>1 DEF Fails, Numbers
    <3>2. Returned(TRUE) \/ Returned(link' = "breaking")
      BY <1>5 DEF Publish, PublishLost
    <3>3. (link' = "breaking") \in BOOLEAN
      OBVIOUS
    <3> QED
      BY <3>1, <3>2, <3>3
  <2> QED
    BY <1>0, <2>1 DEF Returned, Numbers, SendsRecorded, ProducerFinished, Loop, Progress
<1>6. CASE ConsumerStep \/ Shared(ProducerDeadline) \/ Shared(ConsumerDeadline) \/ UNCHANGED vars
  <2>1. UNCHANGED producer /\ failures' \in 0 .. MaxFailures
    BY <1>0, <1>6 DEF ConsumerStep, Deliver, Handle, Ack, Exit, ConnectionLost, Close, Fails, Shared,
       ProducerDeadline, ConsumerDeadline, vars, producer, Numbers
  <2> QED
    BY <1>0, <2>1 DEF producer, Numbers, SendsRecorded, ProducerFinished, Loop, Progress
<1> QED
  BY <1>1, <1>2, <1>3, <1>4, <1>5, <1>6, Steps DEF ProducerAside

LEMMA BooleansStep == ASSUME IInv, [Next]_vars PROVE Booleans'
<1>0. Booleans
  BY DEF IInv, TypeOK, BenchTypeOK, Booleans
<1>1. CASE ProducerAside
  BY <1>0, <1>1 DEF ProducerAside, Shared, ContextDone, FallBackDone, FlushReturns, Generate, PurgeLost, PurgeFails,
     PublishBatch, FallBack, PublishLost, Returned, ProducerDeadline, ConsumerDeadline, vars, producer, deadlines, Booleans
<1>2. CASE Shared(Purge) \/ Publish
  BY <1>0, <1>2 DEF Shared, Purge, Publish, Returned, deadlines, Booleans
<1>3. CASE ConsumerStep
  BY <1>0, <1>3 DEF ConsumerStep, Deliver, Handle, Ack, Exit, ConnectionLost, Close, producer, deadlines, Booleans
<1> QED
  BY <1>1, <1>2, <1>3, Steps

----------------------------------------------------------------------------
(* The queue and the workers.                                              *)

Stocks ==
    /\ queue \in [InQueue -> Nat] /\ counted \in [InQueue -> Nat]
    /\ holding \in [Consumers -> InQueue \cup {None}]
    /\ delivered \in [Consumers -> SUBSET InQueue]
    /\ exited \subseteq Consumers
    /\ accepted \subseteq Messages

Shelf == Stocks /\ Held /\ Future /\ Once /\ NothingVanishes
         /\ (phase = "purging" => accepted = {})

LEMMA InvShelf == ASSUME IInv PROVE Shelf
BY DEF IInv, TypeOK, BenchTypeOK, Loop, Shelf, Stocks

LEMMA AsideShelf ==
    ASSUME IInv, Aside, Progress
    PROVE  Shelf'
<1>1. Shelf
  BY InvShelf
<1>2. \A m : Unhandled(m)' = Unhandled(m)
  BY DEF Aside, Unhandled
<1>3. \A m : Unacked(m)' = Unacked(m)
  BY DEF Aside, Unacked
<1>4. cursor \in Nat /\ cursor' \in Nat
  BY BenchAssumption DEF IInv, TypeOK, BenchTypeOK, Progress, Numbers
<1>5. Stocks' /\ Held' /\ (phase = "purging" => accepted = {})'
  BY <1>1 DEF Shelf, Stocks, Held, Aside, Progress
<1>6. Future'
  BY <1>1, <1>4 DEF Shelf, Future, Aside, Progress, Messages
<1>7. Once'
  BY <1>1, <1>2 DEF Shelf, Once, Aside
<1>8. NothingVanishes'
  BY <1>1, <1>3 DEF Shelf, NothingVanishes, Aside
<1> QED
  BY <1>5, <1>6, <1>7, <1>8 DEF Shelf

LEMMA PurgeShelf ==
    ASSUME IInv, Shared(Purge)
    PROVE  Shelf'
<1>1. Shelf
  BY InvShelf
<1>2. /\ UNCHANGED <<holding, counted, exited, delivered, connection, accepted, cursor>>
      /\ queue' = [m \in InQueue |-> 0] /\ phase = "purging" /\ phase' = "collecting"
  BY DEF Shared, Purge, NoCopies, consumer, channel, publishing
<1>3. \A m : Unhandled(m)' = Unhandled(m) /\ Unhandled(m) \in Nat
  BY <1>2, Counts DEF Unhandled
<1>4. Stocks' /\ Held' /\ NothingVanishes'
  BY <1>1, <1>2 DEF Shelf, Stocks, Held, NothingVanishes
<1>5. Future' /\ Once'
  BY <1>1, <1>2, <1>3 DEF Shelf, Stocks, Future, Once, InQueue
<1> QED
  BY <1>2, <1>4, <1>5 DEF Shelf

LEMMA PublishShelf ==
    ASSUME IInv, Publish
    PROVE  Shelf'
<1> DEFINE n == cursor + 1
<1>1. Shelf
  BY InvShelf
<1>2. /\ UNCHANGED <<holding, counted, exited, delivered, connection, phase>>
      /\ queue' = [queue EXCEPT ![n] = @ + 1] /\ phase = "single" /\ cursor' = n
      /\ accepted' = accepted \cup {n}
  BY DEF Publish, Returned, Put, consumer, channel
<1>3. n \in Messages /\ n \in InQueue /\ cursor \in Nat
  BY BenchAssumption DEF IInv, TypeOK, BenchTypeOK, Publish, Returned, Messages, InQueue
<1>4. queue[n] = 0 /\ counted[n] = 0 /\ Unhandled(n) = 0
  <2>1. queue[n] = 0 /\ counted[n] = 0 /\ \A c \in Consumers : n \notin delivered[c]
    BY <1>1, <1>3 DEF Shelf, Future
  <2>2. Pushed(n) = {}
    BY <2>1 DEF Pushed
  <2> QED
    BY <2>1, <2>2, Counts
<1>5. /\ \A m : Unhandled(m)' = Unhandled(m) /\ Unhandled(m) \in Nat
      /\ \A m : Unacked(m)' = Unacked(m)
  BY <1>2, Counts DEF Unhandled, Unacked
<1> HIDE DEF n
<1>6. /\ queue' \in [InQueue -> Nat] /\ queue'[n] = 1
      /\ \A m \in InQueue \ {n} : queue'[m] = queue[m]
  BY <1>1, <1>2, <1>3, <1>4 DEF Shelf, Stocks
<1>7. Stocks' /\ Held'
  BY <1>1, <1>2, <1>3, <1>6 DEF Shelf, Stocks, Held
<1>8. Future'
  <2> SUFFICES ASSUME NEW m \in Messages, m > n
               PROVE  queue'[m] = 0 /\ counted[m] = 0 /\ \A c \in Consumers : m \notin delivered[c]
    BY <1>2 DEF Future
  <2>1. m > cursor /\ m # n /\ m \in InQueue
    BY <1>3 DEF n, Messages, InQueue
  <2> QED
    BY <1>1, <1>6, <2>1 DEF Shelf, Future
<1>9. Once'
  BY <1>1, <1>2, <1>4, <1>5, <1>6 DEF Shelf, Once
<1>10. NothingVanishes'
  BY <1>1, <1>2, <1>5, <1>6 DEF Shelf, Stocks, NothingVanishes, InQueue
<1> QED
  BY <1>2, <1>7, <1>8, <1>9, <1>10 DEF Shelf

LEMMA DeliverShelf ==
    ASSUME IInv, NEW c \in Consumers, Deliver(c)
    PROVE  Shelf'
<1>1. Shelf
  BY InvShelf
<1>2. PICK m \in InQueue :
          /\ queue[m] > 0 /\ queue' = [queue EXCEPT ![m] = @ - 1]
          /\ delivered' = [delivered EXCEPT ![c] = @ \cup {m}]
  BY DEF Deliver, Take
<1>3. UNCHANGED <<holding, counted, exited, connection, accepted, phase, cursor>> /\ connection = "open"
  BY DEF Deliver, producer, consumer, publishing
<1>4. /\ queue[m] = 1 /\ counted[m] = 0 /\ Unhandled(m) = 0
      /\ \A n \in InQueue : Unhandled(n) \in Nat
  <2>1. queue[m] \in Nat /\ counted[m] \in Nat
    BY <1>1 DEF Shelf, Stocks
  <2>2. Unhandled(m) \in Nat /\ \A n \in InQueue : Unhandled(n) \in Nat
    BY Counts
  <2>3. queue[m] + Unhandled(m) + counted[m] <= 1
    BY <1>1, <1>3 DEF Shelf, Once
  <2> QED
    BY <1>2, <2>1, <2>2, <2>3
<1>5. /\ queue' \in [InQueue -> Nat] /\ queue'[m] = 0
      /\ \A n \in InQueue \ {m} : queue'[n] = queue[n]
  BY <1>1, <1>2, <1>4 DEF Shelf, Stocks
<1>6. Unhandled(m)' = 1 /\ \A n \in InQueue \ {m} : Unhandled(n)' = Unhandled(n)
  BY <1>2, <1>4, CountsDeliver DEF IInv
<1>7. /\ delivered' \in [Consumers -> SUBSET InQueue] /\ m \in delivered'[c]
      /\ \A d \in Consumers : delivered[d] \subseteq delivered'[d]
                               /\ delivered'[d] \subseteq delivered[d] \cup {m}
  BY <1>1, <1>2 DEF Shelf, Stocks
<1>8. Stocks' /\ Held'
  BY <1>1, <1>3, <1>5, <1>7 DEF Shelf, Stocks, Held
<1>9. Future'
  <2> SUFFICES ASSUME NEW n \in Messages, n > cursor
               PROVE  queue'[n] = 0 /\ counted[n] = 0 /\ \A d \in Consumers : n \notin delivered'[d]
    BY <1>3 DEF Future
  <2>1. queue[n] = 0 /\ counted[n] = 0 /\ \A d \in Consumers : n \notin delivered[d]
    BY <1>1 DEF Shelf, Future
  <2>2. n # m /\ n \in InQueue
    BY <2>1, <1>4 DEF InQueue
  <2> QED
    BY <1>5, <1>7, <2>1, <2>2
<1>10. Once'
  BY <1>1, <1>3, <1>4, <1>5, <1>6 DEF Shelf, Once
<1>11. NothingVanishes'
  <2> SUFFICES ASSUME NEW n \in accepted
               PROVE  queue'[n] > 0 \/ counted[n] > 0 \/ Unacked(n)' # {}
    BY <1>3 DEF NothingVanishes
  <2>1. CASE n = m
    BY <2>1, <1>7 DEF Unacked
  <2>2. CASE n # m
    <3>1. queue[n] > 0 \/ counted[n] > 0 \/ Unacked(n) # {}
      BY <1>1 DEF Shelf, NothingVanishes
    <3>2. n \in InQueue
      BY <1>1 DEF Shelf, Stocks, InQueue
    <3>3. Unacked(n) \subseteq Unacked(n)'
      BY <1>3, <1>7 DEF Unacked
    <3> QED
      BY <2>2, <1>5, <3>1, <3>2, <3>3
  <2> QED
    BY <2>1, <2>2
<1> QED
  BY <1>1, <1>3, <1>8, <1>9, <1>10, <1>11 DEF Shelf

LEMMA HandleShelf ==
    ASSUME IInv, NEW c \in Consumers, Handle(c)
    PROVE  Shelf'
<1>1. Shelf
  BY InvShelf
<1>2. PICK m \in delivered[c] :
          /\ delivered' = [delivered EXCEPT ![c] = @ \ {m}]
          /\ holding' = [holding EXCEPT ![c] = m]
          /\ counted' = [counted EXCEPT ![m] = @ + 1]
  BY DEF Handle, Count
<1>3. UNCHANGED <<queue, exited, connection, accepted, phase, cursor>> /\ c \notin exited
  BY DEF Handle, Free, producer, publishing
<1>4. m \in InQueue /\ \A n \in InQueue : Unhandled(n) \in Nat
  BY <1>1, <1>2, Counts DEF Shelf, Stocks
<1>5. /\ counted' \in [InQueue -> Nat] /\ counted'[m] = counted[m] + 1
      /\ \A n \in InQueue \ {m} : counted'[n] = counted[n]
      /\ \A n \in InQueue : counted[n] \in Nat /\ queue[n] \in Nat
  BY <1>1, <1>2, <1>4 DEF Shelf, Stocks
<1>6. Unhandled(m)' = Unhandled(m) - 1 /\ \A n \in InQueue \ {m} : Unhandled(n)' = Unhandled(n)
  BY <1>2, CountsHandle DEF IInv
<1>7. /\ delivered' \in [Consumers -> SUBSET InQueue]
      /\ \A d \in Consumers : delivered'[d] \subseteq delivered[d]
                               /\ delivered[d] \subseteq delivered'[d] \cup {m}
  BY <1>1, <1>2 DEF Shelf, Stocks
<1>8. /\ holding' \in [Consumers -> InQueue \cup {None}] /\ holding'[c] = m
      /\ \A d \in Consumers \ {c} : holding'[d] = holding[d]
      /\ holding[c] = None
  BY <1>1, <1>2, <1>4 DEF Shelf, Stocks, Handle, Free
<1>9. Stocks'
  BY <1>1, <1>3, <1>5, <1>7, <1>8 DEF Shelf, Stocks
<1>10. Held'
  <2> SUFFICES ASSUME NEW d \in Consumers
               PROVE  /\ holding'[d] # None => counted'[holding'[d]] > 0
                      /\ d \in exited => holding'[d] = None
    BY <1>3 DEF Held
  <2>1. CASE d = c
    BY <2>1, <1>3, <1>4, <1>5, <1>8
  <2>2. CASE d # c
    <3>1. holding'[d] = holding[d] /\ holding[d] \in InQueue \cup {None}
      BY <2>2, <1>1, <1>8 DEF Shelf, Stocks
    <3>2. /\ holding[d] # None => counted[holding[d]] > 0
          /\ d \in exited => holding[d] = None
      BY <1>1 DEF Shelf, Held
    <3> QED
      BY <1>4, <1>5, <3>1, <3>2
  <2> QED
    BY <2>1, <2>2
<1>11. Future'
  <2> SUFFICES ASSUME NEW n \in Messages, n > cursor
               PROVE  queue[n] = 0 /\ counted'[n] = 0 /\ \A d \in Consumers : n \notin delivered'[d]
    BY <1>3 DEF Future
  <2>1. queue[n] = 0 /\ counted[n] = 0 /\ \A d \in Consumers : n \notin delivered[d]
    BY <1>1 DEF Shelf, Future
  <2>2. n # m /\ n \in InQueue
    BY <2>1, <1>2 DEF InQueue
  <2> QED
    BY <1>5, <1>7, <2>1, <2>2
<1>12. Once'
  BY <1>1, <1>3, <1>4, <1>5, <1>6 DEF Shelf, Once
<1>13. NothingVanishes'
  <2> SUFFICES ASSUME NEW n \in accepted
               PROVE  queue[n] > 0 \/ counted'[n] > 0 \/ (connection = "open" /\ Unacked(n)' # {})
    BY <1>3 DEF NothingVanishes
  <2>1. CASE n = m
    BY <2>1, <1>4, <1>5
  <2>2. CASE n # m
    <3>1. queue[n] > 0 \/ counted[n] > 0 \/ (connection = "open" /\ Unacked(n) # {})
      BY <1>1 DEF Shelf, NothingVanishes
    <3>2. n \in InQueue
      BY <1>1 DEF Shelf, Stocks, InQueue
    <3>3. Unacked(n) \subseteq Unacked(n)' \/ n = None
      BY <2>2, <1>7, <1>8 DEF Unacked
    <3>4. n # None
      BY <3>2, BenchAssumption DEF InQueue, Stale, Messages
    <3> QED
      BY <2>2, <1>5, <3>1, <3>2, <3>3, <3>4
  <2> QED
    BY <2>1, <2>2
<1> QED
  BY <1>1, <1>3, <1>9, <1>10, <1>11, <1>12, <1>13 DEF Shelf

LEMMA AckShelf ==
    ASSUME IInv, NEW c \in Consumers, Ack(c)
    PROVE  Shelf'
<1>1. Shelf
  BY InvShelf
<1>2. /\ holding[c] # None /\ holding' = [holding EXCEPT ![c] = None]
      /\ UNCHANGED <<queue, counted, delivered, exited, connection, accepted, phase, cursor>>
  BY DEF Ack, producer, channel, publishing
<1>3. /\ holding' \in [Consumers -> InQueue \cup {None}] /\ holding'[c] = None
      /\ \A d \in Consumers \ {c} : holding'[d] = holding[d]
  BY <1>1, <1>2 DEF Shelf, Stocks
<1>4. \A m : Unhandled(m)' = Unhandled(m)
  BY <1>2 DEF Unhandled
<1>5. Stocks'
  BY <1>1, <1>2, <1>3 DEF Shelf, Stocks
<1>6. Held'
  <2> SUFFICES ASSUME NEW d \in Consumers
               PROVE  /\ holding'[d] # None => counted[holding'[d]] > 0
                      /\ d \in exited => holding'[d] = None
    BY <1>2 DEF Held
  <2> QED
    BY <1>1, <1>3 DEF Shelf, Held
<1>7. Future' /\ Once'
  BY <1>1, <1>2, <1>4 DEF Shelf, Future, Once
<1>8. NothingVanishes'
  <2> SUFFICES ASSUME NEW n \in accepted
               PROVE  queue[n] > 0 \/ counted[n] > 0 \/ (connection = "open" /\ Unacked(n)' # {})
    BY <1>2 DEF NothingVanishes
  <2>1. queue[n] > 0 \/ counted[n] > 0 \/ (connection = "open" /\ Unacked(n) # {})
    BY <1>1 DEF Shelf, NothingVanishes
  <2>2. CASE holding[c] = n
    BY <1>1, <1>2, <2>2 DEF Shelf, Held
  <2>3. CASE holding[c] # n
    <3>1. Unacked(n) \subseteq Unacked(n)'
      BY <1>2, <1>3, <2>3 DEF Unacked
    <3> QED
      BY <2>1, <3>1
  <2> QED
    BY <2>2, <2>3
<1> QED
  BY <1>1, <1>2, <1>5, <1>6, <1>7, <1>8 DEF Shelf

LEMMA ExitShelf ==
    ASSUME IInv, NEW c \in Consumers, Exit(c)
    PROVE  Shelf'
<1>1. Shelf
  BY InvShelf
<1>2. /\ holding[c] = None /\ exited' = exited \cup {c}
      /\ UNCHANGED <<queue, holding, counted, delivered, connection, accepted, phase, cursor>>
  BY DEF Exit, Free, producer, channel, publishing
<1>3. \A m : Unhandled(m)' = Unhandled(m) /\ Unacked(m)' = Unacked(m)
  BY <1>2 DEF Unhandled, Unacked
<1>4. Stocks' /\ Held'
  BY <1>1, <1>2 DEF Shelf, Stocks, Held
<1>5. Future' /\ Once' /\ NothingVanishes'
  BY <1>1, <1>2, <1>3 DEF Shelf, Future, Once, NothingVanishes
<1> QED
  BY <1>1, <1>2, <1>4, <1>5 DEF Shelf

----------------------------------------------------------------------------
(* The end of the consumer's connection.                                   *)

\* A message that has not been published is in nobody's hands, and one that
\* is in somebody's hands is waiting again when the connection is gone.
LEMMA RequeueShelf ==
    ASSUME IInv, Requeue
    PROVE  /\ queue' \in [InQueue -> Nat]
           /\ \A m \in Messages : m > cursor => queue'[m] = 0
           /\ \A m \in accepted : queue'[m] > 0 \/ counted[m] > 0
<1>1. Shelf
  BY InvShelf
<1>2. queue' \in [InQueue -> Nat]
  BY RequeueType DEF IInv
<1>3. \A m \in InQueue : queue'[m] = queue[m] + Cardinality(Unacked(m)) /\ queue[m] \in Nat
  BY <1>1 DEF Requeue, Shelf, Stocks
<1>4. ASSUME NEW m \in Messages, m > cursor
      PROVE  queue'[m] = 0
  <2>1. queue[m] = 0 /\ counted[m] = 0 /\ \A d \in Consumers : m \notin delivered[d]
    BY <1>1, <1>4 DEF Shelf, Future
  <2>2. m # None /\ m \in InQueue
    BY BenchAssumption DEF Messages, InQueue
  <2>3. \A d \in Consumers : holding[d] # m
    BY <1>1, <2>1, <2>2 DEF Shelf, Held
  <2>4. Unacked(m) = {}
    BY <2>1, <2>3 DEF Unacked
  <2>5. Cardinality(Unacked(m)) = 0
    BY <2>4, Counts
  <2> QED
    BY <1>3, <2>1, <2>2, <2>5
<1>5. ASSUME NEW m \in accepted
      PROVE  queue'[m] > 0 \/ counted[m] > 0
  <2>1. m \in InQueue
    BY <1>1 DEF Shelf, Stocks, InQueue
  <2>2. CASE Unacked(m) = {}
    <3>1. queue[m] > 0 \/ counted[m] > 0
      BY <1>1, <2>2 DEF Shelf, NothingVanishes
    <3>2. Cardinality(Unacked(m)) = 0
      BY <2>2, Counts
    <3> QED
      BY <1>3, <2>1, <3>1, <3>2
  <2>3. CASE Unacked(m) # {}
    <3>1. Cardinality(Unacked(m)) \in Nat /\ Cardinality(Unacked(m)) # 0
      BY <2>3, Counts
    <3> QED
      BY <1>3, <2>1, <3>1
  <2> QED
    BY <2>2, <2>3
<1> QED
  BY <1>2, <1>4, <1>5

LEMMA LostShelf ==
    ASSUME IInv, ConnectionLost
    PROVE  Shelf'
<1>1. Shelf
  BY InvShelf
<1>2. /\ connection' = "lost" /\ Requeue
      /\ UNCHANGED <<holding, counted, exited, delivered, accepted, phase, cursor>>
  BY DEF ConnectionLost, producer, consumer, publishing
<1>3. /\ queue' \in [InQueue -> Nat]
      /\ \A m \in Messages : m > cursor => queue'[m] = 0
      /\ \A m \in accepted : queue'[m] > 0 \/ counted[m] > 0
  BY <1>2, RequeueShelf
<1>4. \A m : Unhandled(m)' = Unhandled(m)
  BY <1>2 DEF Unhandled
<1>5. Stocks' /\ Held' /\ Future' /\ NothingVanishes'
  BY <1>1, <1>2, <1>3 DEF Shelf, Stocks, Held, Future, NothingVanishes
<1>6. Once'
  BY <1>1, <1>2, <1>4 DEF Shelf, Once
<1> QED
  BY <1>1, <1>2, <1>5, <1>6 DEF Shelf

LEMMA CloseShelf ==
    ASSUME IInv, Close
    PROVE  Shelf'
<1>1. Shelf
  BY InvShelf
<1>2. /\ exited = Consumers /\ connection = "open" /\ connection' = "closed" /\ Requeue
      /\ delivered' = [c \in Consumers |-> {}]
      /\ UNCHANGED <<holding, counted, exited, accepted, phase, cursor>>
  BY DEF Close, ConsumerFinished, producer, consumer, publishing
<1>3. /\ queue' \in [InQueue -> Nat]
      /\ \A m \in Messages : m > cursor => queue'[m] = 0
      /\ \A m \in accepted : queue'[m] > 0 \/ counted[m] > 0
  BY <1>2, RequeueShelf
<1>4. /\ delivered' \in [Consumers -> SUBSET InQueue]
      /\ \A c \in Consumers : \A m : m \notin delivered'[c]
  BY <1>2
<1>5. Stocks' /\ Held'
  BY <1>1, <1>2, <1>3, <1>4 DEF Shelf, Stocks, Held
<1>6. Future'
  BY <1>1, <1>2, <1>3, <1>4 DEF Shelf, Future
<1>7. NothingVanishes'
  BY <1>2, <1>3 DEF NothingVanishes
<1>8. Once'
  <2> SUFFICES ASSUME NEW m \in InQueue
               PROVE  /\ Unhandled(m)' + counted[m] <= 1
                      /\ queue'[m] + Unhandled(m)' + counted[m] <= 1
    BY <1>2 DEF Once
  <2>1. /\ Unhandled(m) + counted[m] <= 1
        /\ queue[m] + Unhandled(m) + counted[m] <= 1
    BY <1>1, <1>2 DEF Shelf, Once
  <2>2. m # None
    BY BenchAssumption DEF InQueue, Stale, Messages
  <2>3. Unacked(m) = Pushed(m)
    BY <1>1, <1>2, <2>2 DEF Shelf, Held, Unacked, Pushed
  <2>4. queue'[m] = queue[m] + Unhandled(m)
    BY <1>2, <2>3, Counts DEF Requeue
  <2>5. {c \in Consumers : m \in delivered'[c]} = {}
    BY <1>4
  <2>6. Unhandled(m)' = 0
    BY <2>5, FS_EmptySet DEF Unhandled
  <2>7. queue[m] \in Nat /\ counted[m] \in Nat /\ Unhandled(m) \in Nat
    BY <1>1, Counts DEF Shelf, Stocks
  <2> QED
    BY <2>1, <2>4, <2>6, <2>7
<1> QED
  BY <1>1, <1>2, <1>5, <1>6, <1>7, <1>8 DEF Shelf

LEMMA ShelfStep == ASSUME IInv, [Next]_vars PROVE Shelf'
<1>1. CASE ProducerAside
  BY <1>1, AsideStep, AsideShelf, ProducerProgress
<1>2. CASE Shared(Purge)
  BY <1>2, PurgeShelf
<1>3. CASE Publish
  BY <1>3, PublishShelf
<1>4. CASE ConsumerStep
  BY <1>4, DeliverShelf, HandleShelf, AckShelf, ExitShelf, LostShelf, CloseShelf DEF ConsumerStep
<1> QED
  BY <1>1, <1>2, <1>3, <1>4, Steps

----------------------------------------------------------------------------
(* The invariant, and what follows from it.                                *)

Ends == connection \in {"open", "lost", "closed"} /\ link \in {"open", "breaking", "lost"}

LEMMA EndsStep == ASSUME IInv, [Next]_vars PROVE Ends'
<1>0. Ends
  BY DEF IInv, TypeOK, Ends
<1>1. CASE ProducerAside
  BY <1>0, <1>1 DEF ProducerAside, Shared, PurgeLost, PublishBatch, PublishLost, channel, publishing, vars, Ends
<1>2. CASE Shared(Purge) \/ Publish
  BY <1>0, <1>2 DEF Shared, Publish, channel, publishing, Ends
<1>3. CASE ConsumerStep
  BY <1>0, <1>3 DEF ConsumerStep, Deliver, Handle, Ack, Exit, ConnectionLost, Close, channel, publishing, Ends
<1> QED
  BY <1>1, <1>2, <1>3, Steps

LEMMA InvStep == ASSUME IInv, [Next]_vars PROVE IInv'
<1>1. Progress /\ Booleans' /\ Shelf' /\ Ends'
  BY ProducerProgress, BooleansStep, ShelfStep, EndsStep
<1>2. TypeOK'
  BY <1>1 DEF TypeOK, BenchTypeOK, Progress, Numbers, Booleans, Shelf, Stocks, Ends
<1>3. Loop' /\ SendsRecorded'
  BY <1>1 DEF Loop, Progress, Shelf
<1> QED
  BY <1>1, <1>2, <1>3 DEF IInv, Shelf

\* No operation of the producer, of a worker or of the connection leaves the
\* invariant.
THEOREM Invariance == Spec => []IInv
<1>1. Init => IInv
  BY InitInv
<1>2. IInv /\ [Next]_vars => IInv'
  BY InvStep
<1> QED
  BY <1>1, <1>2, PTL DEF Spec

\* The variables of the benchmark stay in their ranges: the cursor stays
\* inside the buffer, and copies and counts are natural numbers.
THEOREM TypeCorrect == Spec => []TypeOK
<1>1. IInv => TypeOK
  BY DEF IInv
<1> QED
  BY <1>1, Invariance, PTL

\* flushBuffer records every generated message exactly once, as sent or as an
\* error, although a failed batch is sent again.
THEOREM Recorded == Spec => []SendsRecorded
<1>1. IInv => SendsRecorded
  BY DEF IInv
<1> QED
  BY <1>1, Invariance, PTL

\* Whatever the broker accepted is waiting, owed to it by an open connection,
\* or counted, through any number of failures.
THEOREM Custody == Spec => []NothingVanishes
<1>1. IInv => NothingVanishes
  BY DEF IInv
<1> QED
  BY <1>1, Invariance, PTL

\* No message is counted twice by Consume's handlers, and none that was
\* counted is put back, unless a connection was lost.
THEOREM CountOnce == Spec => []CountedOnce
<1>1. ASSUME IInv
      PROVE  CountedOnce
  <2> SUFFICES ASSUME NEW m \in InQueue
               PROVE  /\ counted[m] <= 1
                      /\ connection # "lost" => queue[m] + Unhandled(m) + counted[m] <= 1
    BY DEF CountedOnce
  <2>1. counted[m] \in Nat /\ Unhandled(m) \in Nat
    BY <1>1, Counts DEF IInv, TypeOK, BenchTypeOK
  <2> QED
    BY <1>1, <2>1 DEF IInv, Once
<1> QED
  BY <1>1, Invariance, PTL
=============================================================================
