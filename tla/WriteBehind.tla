---------------------------- MODULE WriteBehind -----------------------------
(***************************************************************************)
(* What a write-back store promises about its database, with nothing said  *)
(* of caches, maps or goroutines.  The accepted writes of a key form a     *)
(* sequence; the database holds one of them and only ever moves forward    *)
(* along it, skipping the ones that were overwritten before they got       *)
(* there.  Closing the store brings every key up to date, except those     *)
(* whose newest write was given up on.                                     *)
(***************************************************************************)
EXTENDS Naturals

CONSTANTS
    Keys,
    CanLose    \* TRUE when the database may refuse a write

VARIABLES
    accepted,   \* [Keys -> Nat]: how many writes of the key were accepted
    durable,    \* [Keys -> Nat]: which of them the database holds, 0 for none
    lost,       \* keys whose newest accepted write was given up on
    closed

store == <<accepted, durable, lost, closed>>

Init ==
    /\ accepted = [k \in Keys |-> 0]
    /\ durable = [k \in Keys |-> 0]
    /\ lost = {}
    /\ closed = FALSE

Accept(k) ==
    /\ ~closed
    /\ accepted' = [accepted EXCEPT ![k] = @ + 1]
    /\ lost' = lost \ {k}
    /\ UNCHANGED <<durable, closed>>

Persist(k) ==
    /\ ~closed
    /\ \E n \in durable[k] + 1 .. accepted[k] :
           durable' = [durable EXCEPT ![k] = n]
    /\ UNCHANGED <<accepted, lost, closed>>

GiveUp(k) ==
    /\ CanLose /\ ~closed
    /\ durable[k] < accepted[k]
    /\ lost' = lost \cup {k}
    /\ UNCHANGED <<accepted, durable, closed>>

Close ==
    /\ ~closed
    /\ \A k \in Keys \ lost : durable[k] = accepted[k]
    /\ closed' = TRUE
    /\ UNCHANGED <<accepted, durable, lost>>

Next == (\E k \in Keys : Accept(k) \/ Persist(k) \/ GiveUp(k)) \/ Close

Spec == Init /\ [][Next]_store
=============================================================================
