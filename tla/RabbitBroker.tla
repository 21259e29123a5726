---------------------------- MODULE RabbitBroker ----------------------------
(***************************************************************************)
(* The benchmark on RabbitMQ: PublishBatch always fails, so every flush is *)
(* the fallback loop; deliveries are pushed to the workers without a       *)
(* prefetch limit and acknowledged one by one after the handler.  All      *)
(* workers of the consumer share one connection and one channel.           *)
(***************************************************************************)
EXTENDS BrokerBench

VARIABLES
    delivered,    \* [Consumers -> SUBSET InQueue]: pushed by the broker and
                  \* not handled yet
    connection,   \* the consumer's: "open", "lost", "closed"
    link,         \* the producer's: "open", "breaking" (down, and the client
                  \* has not noticed), "lost"
    accepted      \* history: messages the broker has enqueued

vars == <<phase, closing, generated, flushed, cursor, sent, errors,
          holding, counted, exited, producerOver, consumerOver, queue,
          failures, delivered, connection, link, accepted>>

TypeOK ==
    /\ BenchTypeOK
    /\ delivered \in [Consumers -> SUBSET InQueue]
    /\ connection \in {"open", "lost", "closed"}
    /\ link \in {"open", "breaking", "lost"}
    /\ accepted \subseteq Messages

Init ==
    /\ BenchInit
    /\ delivered = [c \in Consumers |-> {}]
    /\ connection = "open" /\ link = "open"
    /\ accepted = {}

channel == <<delivered, connection>>
publishing == <<link, accepted>>

\* Delivered and not acknowledged.
Unacked(m) == {c \in Consumers : m \in delivered[c] \/ holding[c] = m}

\* The broker puts back what a connection that is gone had not acknowledged.
Requeue == queue' = [m \in InQueue |-> queue[m] + Cardinality(Unacked(m))]

----------------------------------------------------------------------------
(* The producer's side.                                                    *)

Shared(A) == A /\ UNCHANGED <<channel, publishing>>

\* The purge waits for its reply and so notices that the link is down.  The
\* client does not reconnect: what has failed once fails from then on.
PurgeLost ==
    /\ PurgeFails
    /\ link = "open" /\ link' = "lost"
    /\ UNCHANGED <<channel, accepted>>

PublishBatch ==
    /\ FallBack
    /\ UNCHANGED <<consumer, deadlines, queue, failures, channel, publishing>>

Publish ==
    /\ link = "open"
    /\ Returned(TRUE)
    /\ Put(cursor + 1)
    /\ accepted' = accepted \cup {cursor + 1}
    /\ UNCHANGED <<consumer, deadlines, failures, channel, link>>

\* The frame did not reach the broker.  Nobody waits for a publisher confirm,
\* so calls return nil until the client has noticed.
PublishLost ==
    /\ \/ link = "open" /\ Fails /\ link' \in {"breaking", "lost"}
       \/ link = "breaking" /\ UNCHANGED failures /\ link' \in {"breaking", "lost"}
       \/ link = "lost" /\ UNCHANGED <<link, failures>>
    /\ Returned(link' = "breaking")
    /\ UNCHANGED <<consumer, deadlines, queue, channel, accepted>>

----------------------------------------------------------------------------
(* Consume.                                                                *)

Deliver(c) ==
    /\ connection = "open" /\ c \notin exited
    /\ \E m \in InQueue : /\ Take(m)
                          /\ delivered' = [delivered EXCEPT ![c] = @ \cup {m}]
    /\ UNCHANGED <<producer, consumer, deadlines, failures, connection,
                   publishing>>

\* The worker takes a delivery and the handler counts it.  On a connection
\* that was lost, deliveries already buffered may still come out of msgs.
Handle(c) ==
    /\ Free(c)
    /\ \E m \in delivered[c] :
           /\ delivered' = [delivered EXCEPT ![c] = @ \ {m}]
           /\ holding' = [holding EXCEPT ![c] = m]
           /\ Count(m)
    /\ UNCHANGED <<producer, deadlines, exited, queue, failures, connection,
                   publishing>>

\* Seeded fault: the delivery is given back instead.
AckRequeued(c) ==
    /\ holding[c] # None
    /\ holding' = [holding EXCEPT ![c] = None]
    /\ IF connection = "open" THEN Put(holding[c]) ELSE UNCHANGED queue
    /\ UNCHANGED <<producer, deadlines, counted, exited, failures, channel,
                   publishing>>

\* On a lost connection the acknowledgement goes nowhere.
Ack(c) ==
    /\ holding[c] # None
    /\ holding' = [holding EXCEPT ![c] = None]
    /\ UNCHANGED <<producer, deadlines, counted, exited, queue, failures,
                   channel, publishing>>

\* Seeded fault: only a closed msgs channel ends the loop.
ExitWithoutDone(c) ==
    /\ Free(c)
    /\ connection # "open"
    /\ exited' = exited \cup {c}
    /\ UNCHANGED <<producer, deadlines, holding, counted, queue, failures,
                   channel, publishing>>

\* ctx.Done, or msgs closed under the worker.
Exit(c) ==
    /\ Free(c)
    /\ consumerOver \/ connection # "open"
    /\ exited' = exited \cup {c}
    /\ UNCHANGED <<producer, deadlines, holding, counted, queue, failures,
                   channel, publishing>>

ConnectionLost ==
    /\ connection = "open"
    /\ Fails
    /\ connection' = "lost"
    /\ Requeue
    /\ UNCHANGED <<producer, consumer, deadlines, delivered, publishing>>

\* Seeded fault: deliveries are acknowledged when they are sent (auto-ack).
CloseAutoAcked ==
    /\ ConsumerFinished
    /\ connection = "open"
    /\ connection' = "closed"
    /\ delivered' = [c \in Consumers |-> {}]
    /\ UNCHANGED <<producer, consumer, deadlines, queue, failures, publishing>>

\* main saves the metrics and closes the broker.
Close ==
    /\ ConsumerFinished
    /\ connection = "open"
    /\ connection' = "closed"
    /\ Requeue
    /\ delivered' = [c \in Consumers |-> {}]
    /\ UNCHANGED <<producer, consumer, deadlines, failures, publishing>>

----------------------------------------------------------------------------
ProducerStep ==
    \/ Shared(Purge) \/ Shared(ContextDone) \/ Shared(FallBackDone)
    \/ PurgeLost \/ PublishBatch \/ Publish \/ PublishLost

WorkerStep(c) == Handle(c) \/ Ack(c)

Over ==
    /\ ProducerFinished /\ ConsumerFinished /\ connection # "open"
    /\ UNCHANGED vars

Next ==
    \/ ProducerStep \/ Shared(Generate)
    \/ \E c \in Consumers : Deliver(c) \/ WorkerStep(c) \/ Exit(c)
    \/ Shared(ProducerDeadline) \/ Shared(ConsumerDeadline)
    \/ ConnectionLost \/ Close
    \/ Over

Spec == Init /\ [][Next]_vars

\* A process goes on, both contexts end, and a select that finds ctx.Done
\* ready time and again takes it some time: Go chooses uniformly among the
\* ready branches.  Nothing is assumed of the ticker or of deliveries.
FairSpec ==
    /\ Spec
    /\ WF_vars(ProducerStep)
    /\ SF_vars(Shared(ContextDone))
    /\ \A c \in Consumers : WF_vars(WorkerStep(c)) /\ SF_vars(Exit(c))
    /\ WF_vars(Shared(ProducerDeadline))
    /\ WF_vars(Shared(ConsumerDeadline))

----------------------------------------------------------------------------
(* Properties.                                                             *)

\* At least once: a message the broker accepted is waiting there, owed to it
\* by an open connection, or was counted; neither the purge, nor a worker
\* that leaves deliveries behind, nor a lost connection makes it vanish.
NothingVanishes ==
    \A m \in accepted :
        \/ queue[m] > 0 \/ counted[m] > 0
        \/ connection = "open" /\ Unacked(m) # {}

\* Exactly once while the connection holds: no worker is given what another
\* one has handled or holds, so received never exceeds what was accepted, and
\* what is put back at the end was not counted.
Unhandled(m) == Cardinality({c \in Consumers : m \in delivered[c]})

CountedOnce ==
    \A m \in InQueue :
        /\ counted[m] <= 1
        /\ connection # "lost" => queue[m] + Unhandled(m) + counted[m] <= 1
=============================================================================
