----------------------------- MODULE BrokerBench ----------------------------
(***************************************************************************)
(* One run of the broker benchmark: a producer process and a consumer      *)
(* process around one queue.  This module holds the producer's loop and    *)
(* counters and what the two brokers have in common; RabbitBroker and      *)
(* RedisBroker add PublishBatch, Publish and Consume.                      *)
(*                                                                         *)
(* Messages are numbered in the order in which they are generated, so the  *)
(* buffer, which is only ever appended to and emptied, is the interval     *)
(* flushed + 1 .. generated.  The order inside the queue is left out: no   *)
(* property depends on it.                                                 *)
(***************************************************************************)
EXTENDS Naturals, FiniteSets

CONSTANTS
    Consumers,     \* the consumer's worker goroutines
    BatchSize,     \* batchSize of the producer
    MaxMessages,   \* bound: messages generated in one run
    MaxFailures,   \* bound: connection failures in one run
    None           \* no message

ASSUME BenchAssumption ==
    /\ BatchSize \in Nat \ {0}
    /\ MaxMessages \in Nat
    /\ MaxFailures \in Nat
    /\ None \notin Nat

ASSUME ConsumersAssumption == IsFiniteSet(Consumers)

Stale    == 0                    \* left in the queue by an earlier run
Messages == 1 .. MaxMessages
InQueue  == {Stale} \cup Messages

VARIABLES
    phase,          \* the producer: "purging", "collecting" (in select),
                    \* "batch" (PublishBatch), "single" (the fallback loop),
                    \* "finished"
    closing,        \* select has taken ctx.Done: this flush is the last one
    generated,      \* messages generated so far
    flushed,        \* messages flushBuffer has returned for
    cursor,         \* the last message sent in this pass over the buffer
    sent,           \* ProducerMetrics.sent
    errors,         \* ProducerMetrics.errors
    producerOver,   \* the producer's context is done
    consumerOver,   \* the consumer's context is done
    queue,          \* [InQueue -> Nat]: copies waiting in the broker
    holding,        \* [Consumers -> message or None]: taken from the broker
    counted,        \* [InQueue -> Nat]: ConsumerMetrics.received, by message
    exited,         \* workers that have returned from Consume
    failures        \* connection failures so far

producer == <<phase, closing, generated, flushed, cursor, sent, errors>>
consumer == <<holding, counted, exited>>
deadlines == <<producerOver, consumerOver>>
bench == <<producer, consumer, deadlines, queue, failures>>

BenchTypeOK ==
    /\ phase \in {"purging", "collecting", "batch", "single", "finished"}
    /\ closing \in BOOLEAN
    /\ generated \in 0 .. MaxMessages
    /\ flushed \in 0 .. generated
    /\ cursor \in flushed .. generated
    /\ sent \in Nat /\ errors \in Nat
    /\ producerOver \in BOOLEAN /\ consumerOver \in BOOLEAN
    /\ queue \in [InQueue -> Nat]
    /\ holding \in [Consumers -> InQueue \cup {None}]
    /\ counted \in [InQueue -> Nat]
    /\ exited \subseteq Consumers
    /\ failures \in 0 .. MaxFailures

NoCopies == [m \in InQueue |-> 0]

\* The scripts start the consumer first, and nothing empties the queue
\* before the producer does.
BenchInit ==
    /\ phase = "purging" /\ closing = FALSE
    /\ generated = 0 /\ flushed = 0 /\ cursor = 0
    /\ sent = 0 /\ errors = 0
    /\ producerOver = FALSE /\ consumerOver = FALSE
    /\ queue \in {NoCopies, [NoCopies EXCEPT ![Stale] = 1]}
    /\ holding = [c \in Consumers |-> None]
    /\ counted = NoCopies
    /\ exited = {}
    /\ failures = 0

Put(m)  == queue' = [queue EXCEPT ![m] = @ + 1]
Take(m) == queue[m] > 0 /\ queue' = [queue EXCEPT ![m] = @ - 1]

Fails == failures < MaxFailures /\ failures' = failures + 1

----------------------------------------------------------------------------
(* The producer.                                                           *)

\* Only what waits in the queue is purged, not what a consumer has taken.
Purge ==
    /\ phase = "purging"
    /\ queue' = NoCopies
    /\ phase' = "collecting"
    /\ UNCHANGED <<closing, generated, flushed, cursor, sent, errors>>
    /\ UNCHANGED <<consumer, deadlines, failures>>

\* A purge that fails is logged and the run goes on.
PurgeFails ==
    /\ phase = "purging"
    /\ Fails
    /\ phase' = "collecting"
    /\ UNCHANGED <<closing, generated, flushed, cursor, sent, errors>>
    /\ UNCHANGED <<consumer, deadlines, queue>>

\* A tick of the rate ticker; a full buffer is flushed at once.  Select may
\* still prefer the ticker when the context is done.
Generate ==
    /\ phase = "collecting"
    /\ generated < MaxMessages
    /\ generated' = generated + 1
    /\ phase' = IF generated' - flushed >= BatchSize THEN "batch"
                                                     ELSE "collecting"
    /\ UNCHANGED <<closing, flushed, cursor, sent, errors>>
    /\ UNCHANGED <<consumer, deadlines, queue, failures>>

\* Seeded fault: what is left in the buffer is not flushed.
ContextDoneUnflushed ==
    /\ phase = "collecting"
    /\ producerOver
    /\ closing' = TRUE
    /\ phase' = "finished"
    /\ UNCHANGED <<generated, flushed, cursor, sent, errors>>
    /\ UNCHANGED <<consumer, deadlines, queue, failures>>

ContextDone ==
    /\ phase = "collecting"
    /\ producerOver
    /\ closing' = TRUE
    /\ phase' = IF generated = flushed THEN "finished" ELSE "batch"
    /\ UNCHANGED <<generated, flushed, cursor, sent, errors>>
    /\ UNCHANGED <<consumer, deadlines, queue, failures>>

\* flushBuffer returns: the buffer is emptied and the loop goes on or ends.
FlushReturns ==
    /\ flushed' = generated
    /\ cursor' = generated
    /\ phase' = IF closing THEN "finished" ELSE "collecting"
    /\ UNCHANGED <<closing, generated>>

\* PublishBatch returned an error: the whole buffer is sent one by one.
FallBack ==
    /\ phase = "batch"
    /\ phase' = "single"
    /\ cursor' = flushed
    /\ UNCHANGED <<closing, generated, flushed, sent, errors>>

\* Seeded fault: the loop ranges over buffer[:batchSize], old slots included.
ReturnedPastEnd(ok) ==
    /\ phase = "single" /\ cursor < flushed + BatchSize
    /\ cursor' = cursor + 1
    /\ IF ok THEN sent' = sent + 1 /\ UNCHANGED errors
             ELSE errors' = errors + 1 /\ UNCHANGED sent
    /\ UNCHANGED <<phase, closing, generated, flushed>>

\* Publish returned for the next message of the fallback loop.
Returned(ok) ==
    /\ phase = "single" /\ cursor < generated
    /\ cursor' = cursor + 1
    /\ IF ok THEN sent' = sent + 1 /\ UNCHANGED errors
             ELSE errors' = errors + 1 /\ UNCHANGED sent
    /\ UNCHANGED <<phase, closing, generated, flushed>>

FallBackDone ==
    /\ phase = "single" /\ cursor = generated
    /\ FlushReturns
    /\ UNCHANGED <<sent, errors>>
    /\ UNCHANGED <<consumer, deadlines, queue, failures>>

----------------------------------------------------------------------------
(* The handler every worker passes to Consume, and the two deadlines.      *)

Free(c) == c \notin exited /\ holding[c] = None

Count(m) == counted' = [counted EXCEPT ![m] = @ + 1]

ProducerDeadline ==
    /\ ~producerOver /\ producerOver' = TRUE
    /\ UNCHANGED <<producer, consumer, consumerOver, queue, failures>>

ConsumerDeadline ==
    /\ ~consumerOver /\ consumerOver' = TRUE
    /\ UNCHANGED <<producer, consumer, producerOver, queue, failures>>

ProducerFinished == phase = "finished"
ConsumerFinished == exited = Consumers     \* wg.Wait() in the consumer

----------------------------------------------------------------------------
(* Properties of both brokers.                                             *)

\* Every generated message is recorded exactly once, as sent or as an error:
\* never twice although a failed batch is sent again, and none is forgotten
\* in the buffer when the producer ends.
SendsRecorded ==
    /\ sent + errors = IF phase = "single" THEN cursor ELSE flushed
    /\ ProducerFinished => sent + errors = generated

\* Both processes end, whatever fails, once their contexts are done.
RunEnds == <>(ProducerFinished /\ ConsumerFinished)

\* "Losses" in the report are sent minus received: when both processes are
\* done and no connection failed, no message may be counted as lost that is
\* still waiting in the broker.
LossIsLost ==
    ProducerFinished /\ ConsumerFinished /\ failures = 0 =>
        \A m \in Messages : counted[m] > 0 \/ queue[m] = 0
=============================================================================
