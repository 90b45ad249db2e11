-------------------------- MODULE FlashSaleSystem ---------------------------
(***************************************************************************)
(* The path of a purchase: the flash-sale-api takes units off the Redis    *)
(* counter and publishes the order, the order-worker stores and counts it, *)
(* and scripts/consistency_check.py compares the two ends.                 *)
(*                                                                         *)
(* The services share nothing but the queue: a message that the API stores *)
(* there is the message the worker receives.  Every step is a step of one  *)
(* of the two.                                                             *)
(***************************************************************************)
EXTENDS FlashSaleApi

CONSTANTS
    Customer,      \* the customer_id of each request: "given" or "blanks"
    Tasks, NumWorkers, MaxMessages, RetryAttempts, MaxReceives,
    WorkerFaults   \* the order-worker's, as FaultKinds of OrderWorker

VARIABLES
    message, receives, running, stage, task, tries, inserted, stored,
    lastOrder, counted, confirmed, unacked

atWork ==
    <<receives, running, stage, task, tries, inserted, stored, lastOrder,
      counted, confirmed, unacked>>

(* The body that PublishOrder builds of a request that passed the binding. *)
Published(r) ==
    [order_id |-> "given", user_id |-> "", customer_id |-> Customer[r],
     item_id |-> "given", quantity |-> "positive", timestamp |-> "given"]

Worker == INSTANCE OrderWorker WITH
    Orders <- Requests, Body <- [r \in Requests |-> Published(r)],
    Faults <- WorkerFaults, host <- task

(* The books are compared between resets of the counter. *)
ASSUME SystemAssumption ==
    /\ ResetMode = "never"
    /\ Worker!WorkerAssumption

SystemInit == Init /\ Worker!Init

(* Mutant: the order is published before the reservation is known. *)
DeliverEarly ==
    message' = [r \in Requests |->
                  IF r \in taken' \ taken /\ message[r] = "unsent"
                  THEN "visible" ELSE message[r]]

(* What SQS stores becomes visible to the worker. *)
Deliver ==
    message' = [r \in Requests |->
                  IF r \in sent' \ sent THEN "visible" ELSE message[r]]

ApiStep ==
    /\ Next
    /\ Deliver
    /\ UNCHANGED atWork

WorkerStep ==
    /\ \/ \E r \in Requests : Worker!Expire(r) \/ Worker!Redrive(r)
       \/ \E t \in Tasks : Worker!Poll(t) \/ Worker!Stop(t) \/ Worker!Restart(t)
       \/ \E d \in Worker!Deliveries : Worker!Enqueue(d) \/ Worker!WorkerStep(d)
    /\ UNCHANGED vars

SystemNext == ApiStep \/ WorkerStep

systemVars == <<vars, message, atWork>>

SystemSpec == SystemInit /\ [][SystemNext]_systemVars

FairSystemSpec == SystemSpec /\ Fairness /\ Worker!Fairness

-----------------------------------------------------------------------------
(* scripts/consistency_check.py *)

(* confirmed_orders of the inventory table, a number of units. *)
ConfirmedOrders == UnitSum([r \in Requests |-> qty[r] * counted[r]], Requests)

Sum == Remaining + ConfirmedOrders

(* What the updates of an order beyond its first have added. *)
Recounted ==
    UnitSum([r \in Requests |->
               qty[r] * (IF counted[r] > 1 THEN counted[r] - 1 ELSE 0)],
            Requests)

(* run_exp2_matrix.sh waits until the queue and the worker have drained; it *)
(* goes on to the check if that takes too long.                             *)
Drained ==
    /\ Quiet
    /\ \A r \in sent : message[r] \in {"deleted", "dlq"}
    /\ \A d \in Worker!Deliveries : stage[d] \in {"none", "over", "failed"}

-----------------------------------------------------------------------------
(* Properties *)

(* The orders in the table never exceed the inventory, whatever handlers,   *)
(* workers, redeliveries and retries do: the promise of the whole system.   *)
(* Excepted are orders whose units the API put back although SQS had them,  *)
(* and units that were put back twice.                                      *)
StoredWithinInventory ==
    Total(stored \ Disowned) <= InventoryCount + Total(surplus)

(* The verdicts of the check mean what they say, once no purchase runs and  *)
(* whether or not the worker has drained.  "OVERSELL" never exceeds what    *)
(* was counted again, the orders whose units were put back, and what was    *)
(* put back twice.  "DATA LOSS" never exceeds what failed purchases or a    *)
(* doubled DECRBY took, and the orders that were published and are not      *)
(* counted.                                                                 *)
VerdictExplained ==
    keyExists /\ Quiet =>
       /\ Sum <= InventoryCount + Recounted + Total(Disowned) + Total(surplus)
       /\ InventoryCount
             <= Sum + Total((taken \ sent) \cap (Failed \cup resent))
                    + Total(doubled) + Total({r \in sent : counted[r] = 0})

(* An order is in the table only if its client was told so, has left, or    *)
(* lost the task that would have told it, or was failed by a lost answer of *)
(* SQS: no refused purchase is recorded.                                    *)
StoredIsAccepted ==
    \A r \in stored :
       \/ response[r] = "accepted" \/ pc[r] = "lost" \/ cancelled[r]
       \/ LosesAcks /\ (pc[r] = "rollback" \/ response[r] = "queue_failed")

(* A purchase that was accepted is never lost between the services: its     *)
(* order is in the queue, in the dead-letter queue, or stored and counted.  *)
AcceptedIsKept ==
    \A r \in Requests :
       response[r] = "accepted" =>
          \/ message[r] \in {"visible", "inflight", "dlq"}
          \/ r \in stored /\ counted[r] >= 1

(* "Secondary: DynamoDB order records should match confirmed_orders         *)
(* counter" (scripts/consistency_check.py)                                  *)
AuditMatches ==
    Drained => Cardinality(stored) = ConfirmedOrders

(* A purchase that was accepted is counted, or its message ends in the      *)
(* dead-letter queue; no stage of either service holds it forever.          *)
AcceptedPurchaseSettles ==
    \A r \in Requests :
       response[r] = "accepted" ~> counted[r] >= 1 \/ message[r] = "dlq"
=============================================================================
