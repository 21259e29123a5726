---------------------------- MODULE RedisBroker -----------------------------
(***************************************************************************)
(* The benchmark on a Redis list: a flush is a pipeline of LPUSHes, and a  *)
(* worker pops with a blocking BLPOP of one second.  A popped message is   *)
(* gone from Redis before anybody has handled it.  go-redis repeats a      *)
(* command whose connection failed, whether or not Redis has executed it.  *)
(***************************************************************************)
EXTENDS BrokerBench

VARIABLES
    blocked    \* workers inside BLPop

vars == <<phase, closing, generated, flushed, cursor, sent, errors,
          holding, counted, exited, producerOver, consumerOver, queue,
          failures, blocked>>

TypeOK ==
    /\ BenchTypeOK
    /\ blocked \subseteq Consumers

Init ==
    /\ BenchInit
    /\ blocked = {}

----------------------------------------------------------------------------
(* The producer's side.                                                    *)

Shared(A) == A /\ UNCHANGED blocked

\* Seeded fault: the pipeline is built from buffer[:batchSize].
PipelinePushPastEnd ==
    /\ phase = "batch" /\ cursor < flushed + BatchSize
    /\ Put(cursor + 1)
    /\ cursor' = cursor + 1
    /\ UNCHANGED <<phase, closing, generated, flushed, sent, errors>>
    /\ UNCHANGED <<consumer, deadlines, failures, blocked>>

\* Redis executes the next LPUSH of the pipeline.
PipelinePush ==
    /\ phase = "batch" /\ cursor < generated
    /\ Put(cursor + 1)
    /\ cursor' = cursor + 1
    /\ UNCHANGED <<phase, closing, generated, flushed, sent, errors>>
    /\ UNCHANGED <<consumer, deadlines, failures, blocked>>

PublishBatch ==
    /\ phase = "batch" /\ cursor = generated
    /\ sent' = sent + (generated - flushed)
    /\ FlushReturns
    /\ UNCHANGED <<errors, consumer, deadlines, queue, failures, blocked>>

\* Seeded fault: a batch that failed is recorded before it is sent again.
PublishBatchFailsRecorded ==
    /\ phase = "batch"
    /\ Fails
    /\ phase' = "single"
    /\ cursor' = flushed
    /\ errors' = errors + (generated - flushed)
    /\ UNCHANGED <<closing, generated, flushed, sent>>
    /\ UNCHANGED <<consumer, deadlines, queue, blocked>>

\* The connection failed after any prefix of the pipeline was executed:
\* Exec returns an error and everything is sent again, one by one.
PublishBatchFails ==
    /\ FallBack
    /\ Fails
    /\ UNCHANGED <<consumer, deadlines, queue, blocked>>

\* The same failure, hidden by the client: it sends the pipeline again.
PipelineRetried ==
    /\ phase = "batch" /\ cursor > flushed
    /\ Fails
    /\ cursor' = flushed
    /\ UNCHANGED <<phase, closing, generated, flushed, sent, errors>>
    /\ UNCHANGED <<consumer, deadlines, queue, blocked>>

Publish ==
    /\ Returned(TRUE)
    /\ Put(cursor + 1)
    /\ UNCHANGED <<consumer, deadlines, failures, blocked>>

\* LPush failed, before or after Redis executed it.
PublishFails ==
    /\ Returned(FALSE)
    /\ Put(cursor + 1) \/ UNCHANGED queue
    /\ Fails
    /\ UNCHANGED <<consumer, deadlines, blocked>>

\* LPush was executed, its reply lost, and the client pushes once more.
PublishRetried ==
    /\ phase = "single" /\ cursor < generated
    /\ Put(cursor + 1)
    /\ Fails
    /\ UNCHANGED <<producer, consumer, deadlines, blocked>>

----------------------------------------------------------------------------
(* Consume.                                                                *)

Leave(c) == exited' = exited \cup {c} /\ blocked' = blocked \ {c}

\* The worker looks at its context between two BLPops.
Poll(c) ==
    /\ Free(c) /\ c \notin blocked
    /\ IF consumerOver THEN Leave(c)
                       ELSE blocked' = blocked \cup {c} /\ UNCHANGED exited
    /\ UNCHANGED <<producer, deadlines, holding, counted, queue, failures>>

\* Redis serves the BLPOP, possibly after the consumer's deadline.
Pop(c) ==
    /\ c \in blocked
    /\ \E m \in InQueue : Take(m) /\ holding' = [holding EXCEPT ![c] = m]
    /\ blocked' = blocked \ {c}
    /\ UNCHANGED <<producer, deadlines, counted, exited, failures>>

\* Seeded fault: BLPOP with timeout 0, which waits for ever.
PopTimeoutZero(c) ==
    /\ c \in blocked
    /\ queue = NoCopies
    /\ UNCHANGED vars

\* redis.Nil: a second has passed and the list was empty.
PopTimeout(c) ==
    /\ c \in blocked
    /\ queue = NoCopies
    /\ blocked' = blocked \ {c}
    /\ UNCHANGED <<producer, consumer, deadlines, queue, failures>>

\* Any other error ends the worker: that of a connection, or the context's
\* own, when the deadline passes before the client has sent the command.
PopFails(c) ==
    /\ c \in blocked
    /\ Fails \/ (consumerOver /\ UNCHANGED failures)
    /\ Leave(c)
    /\ UNCHANGED <<producer, deadlines, holding, counted, queue>>

\* Redis has popped the message and the reply is lost: the worker ends with
\* the error, or the client asks again.
ReplyLost(c) ==
    /\ holding[c] # None
    /\ Fails
    /\ holding' = [holding EXCEPT ![c] = None]
    /\ \/ Leave(c)
       \/ blocked' = blocked \cup {c} /\ UNCHANGED exited
    /\ UNCHANGED <<producer, deadlines, counted, queue>>

\* Seeded fault: the message is pushed back after it was handled.
HandleRequeued(c) ==
    /\ holding[c] # None
    /\ Count(holding[c])
    /\ Put(holding[c])
    /\ holding' = [holding EXCEPT ![c] = None]
    /\ UNCHANGED <<producer, deadlines, exited, failures, blocked>>

\* Seeded fault: a worker drops what arrives after its deadline.
HandleTooLate(c) ==
    /\ holding[c] # None
    /\ IF consumerOver THEN UNCHANGED counted ELSE Count(holding[c])
    /\ holding' = [holding EXCEPT ![c] = None]
    /\ UNCHANGED <<producer, deadlines, exited, queue, failures, blocked>>

\* The handler; it never returns an error.
Handle(c) ==
    /\ holding[c] # None
    /\ Count(holding[c])
    /\ holding' = [holding EXCEPT ![c] = None]
    /\ UNCHANGED <<producer, deadlines, exited, queue, failures, blocked>>

----------------------------------------------------------------------------
ProducerStep ==
    \/ Shared(Purge) \/ Shared(PurgeFails)
    \/ Shared(ContextDone) \/ Shared(FallBackDone)
    \/ PipelinePush \/ PublishBatch \/ PublishBatchFails \/ PipelineRetried
    \/ Publish \/ PublishFails \/ PublishRetried

WorkerGoesOn(c) == Poll(c) \/ Pop(c) \/ PopTimeout(c) \/ Handle(c)

WorkerStep(c) == WorkerGoesOn(c) \/ PopFails(c) \/ ReplyLost(c)

Over == ProducerFinished /\ ConsumerFinished /\ UNCHANGED vars

Next ==
    \/ ProducerStep \/ Shared(Generate)
    \/ \E c \in Consumers : WorkerStep(c)
    \/ Shared(ProducerDeadline) \/ Shared(ConsumerDeadline)
    \/ Over

Spec == Init /\ [][Next]_vars

\* A process goes on and both contexts end; BLPOP returns after a second at
\* the latest.  No error is counted on, not the context's own either: it does
\* not reach a worker whose command has been sent.  The producer's select takes ctx.Done some time when it finds
\* it ready time and again.  Nothing is assumed of the ticker.
FairSpec ==
    /\ Spec
    /\ WF_vars(ProducerStep)
    /\ SF_vars(Shared(ContextDone))
    /\ \A c \in Consumers : WF_vars(WorkerGoesOn(c))
    /\ WF_vars(Shared(ProducerDeadline))
    /\ WF_vars(Shared(ConsumerDeadline))

----------------------------------------------------------------------------
(* Properties.                                                             *)

\* Where the copies of a message are.
Copies(m) ==
    queue[m] + counted[m] + Cardinality({c \in Consumers : holding[c] = m})

\* What Redis has been given in this pass or an earlier one.
Published == 1 .. cursor

\* BLPOP removes a message before it is handled, and nothing but a failure
\* of a connection loses it: each failure loses one message at most.
LossBounded ==
    Cardinality({m \in Published : Copies(m) = 0}) <= failures

\* Each failure adds at most one copy of a message, by the client's retry or
\* by the producer's fallback: without one, everything published is in the
\* list, in the hands of a worker or counted, and exactly once.
DuplicatesBounded == \A m \in Messages : Copies(m) <= 1 + failures
=============================================================================
