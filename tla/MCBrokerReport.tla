---------------------------- MODULE MCBrokerReport --------------------------
EXTENDS BrokerReport, TLC

\* Latencies of 40.9, 60.9 and 130 ms.
Sampled(fast, slow, slower) == 409 :> fast @@ 609 :> slow @@ 1300 :> slower

Found(sent, samples) == [sent |-> sent, samples |-> samples]
MCResults == {Found(100, Sampled(95, 4, 0)), Found(100, Sampled(94, 5, 0)),
              Found(100, Sampled(0, 94, 6)), Found(100, Sampled(1, 0, 97)),
              Found(0, Sampled(0, 0, 0))}
MCOldResult == Found(3, Sampled(3, 0, 0))
MCGlob == << [rate |-> 3, side |-> "consumer"], [rate |-> 3, side |-> "producer"],
             [rate |-> 1, side |-> "consumer"], [rate |-> 1, side |-> "producer"],
             [rate |-> 2, side |-> "consumer"], [rate |-> 2, side |-> "producer"] >>
=============================================================================
