----------------------------- MODULE Fulfilment -----------------------------
(***************************************************************************)
(* What the order-worker promises: an order that it received is recorded   *)
(* if it is valid, then counted, and only then done with.  No record is    *)
(* lost or altered.  One that is counted again has seen another counted    *)
(* since, which is all that last_order_id rules out.  Whatever is not done *)
(* with may be buried in the dead-letter queue, recorded or not.           *)
(***************************************************************************)
EXTENDS Naturals

CONSTANTS
    Orders, Valid,  \* all orders, and those that validate
    None

VARIABLES
    received,  \* orders whose message was published
    recorded,  \* orders with a record
    latest,    \* the order that was counted last
    counted,   \* how often an order was counted
    done,      \* orders whose message is deleted
    buried     \* orders whose message is in the dead-letter queue

fulfilmentVars == <<received, recorded, latest, counted, done, buried>>

Open == received \ (done \cup buried)

Init ==
    /\ received = {} /\ recorded = {} /\ done = {} /\ buried = {}
    /\ latest = None
    /\ counted = [o \in Orders |-> 0]

Receive ==
    /\ \E S \in SUBSET (Orders \ received) : received' = received \cup S
    /\ UNCHANGED <<recorded, latest, counted, done, buried>>

(* A copy of a message that is done with or buried may still be at work. *)
Record(o) ==
    /\ o \in received \cap Valid
    /\ recorded' = recorded \cup {o}
    /\ UNCHANGED <<received, latest, counted, done, buried>>

Count(o) ==
    /\ o \in recorded
    /\ o # latest
    /\ latest' = o
    /\ counted' = [counted EXCEPT ![o] = @ + 1]
    /\ UNCHANGED <<received, recorded, done, buried>>

Close(o) ==
    /\ o \in Open \cap recorded
    /\ counted[o] >= 1
    /\ done' = done \cup {o}
    /\ UNCHANGED <<received, recorded, latest, counted, buried>>

Bury(o) ==
    /\ o \in Open
    /\ buried' = buried \cup {o}
    /\ UNCHANGED <<received, recorded, latest, counted, done>>

Next ==
    \/ Receive
    \/ \E o \in Orders : Record(o) \/ Count(o) \/ Close(o) \/ Bury(o)

Spec == Init /\ [][Next]_fulfilmentVars
=============================================================================
