---------------------------- MODULE OrderWorker -----------------------------
(***************************************************************************)
(* The order-worker service (src/services/order-worker): tasks that poll   *)
(* the SQS queue of orders, hand messages to a pool of workers over a      *)
(* bounded channel, store each order in DynamoDB, add it to the audit      *)
(* counter, and delete the message.                                        *)
(*                                                                         *)
(* A delivery <<o, n>> is the n-th receipt of the message of order o.  SQS *)
(* promises no order, so the channel is modelled as the set of deliveries  *)
(* in it.  One action is one round trip of a worker to DynamoDB or SQS.    *)
(***************************************************************************)
EXTENDS Naturals, FiniteSets

CONSTANTS
    Orders,         \* orders that the API may publish
    Body,           \* what the message of each order says
    Tasks,          \* worker tasks
    NumWorkers,     \* NUM_WORKERS: goroutines of a task
    MaxMessages,    \* messages per ReceiveMessage
    RetryAttempts,  \* attempts of retry.Do
    MaxReceives,    \* the queue's maxReceiveCount
    Faults          \* which faults of FaultKinds the environment injects

(* server_error: a call fails and may be retried.  client_error: DynamoDB   *)
(* rejects a call for good.  lost_reply: a call takes effect and its answer *)
(* is lost.  expiry: the visibility timeout ends while a delivery is still  *)
(* in a task.  stop: a task is stopped by a signal or dies.                 *)
FaultKinds ==
    {"server_error", "client_error", "lost_reply", "expiry", "stop"}

None == "none"

(* What the worker tells apart in a message: "" and blanks in its texts, a  *)
(* quantity below one, and a timestamp that is not RFC 3339 (which stands   *)
(* for all that is no JSON of this form) or is the zero time.               *)
Texts == {"given", "blanks", ""}
Bodies ==
    [order_id: Texts, user_id: Texts, customer_id: Texts, item_id: Texts,
     quantity: {"positive", "below_one"},
     timestamp: {"given", "zero", "unparsable"}]

(* An order without an identifier does not validate, so None names none.    *)
ASSUME WorkerAssumption ==
    /\ None \notin Orders
    /\ Body \in [Orders -> Bodies]
    /\ NumWorkers \in Nat \ {0}
    /\ MaxMessages \in Nat \ {0}
    /\ RetryAttempts \in Nat \ {0}
    /\ MaxReceives \in Nat \ {0}
    /\ Faults \subseteq FaultKinds

Deliveries == Orders \X (1..MaxReceives)

(* UnmarshalJSON: customer_id stands in for a missing user_id. *)
UserID(o) ==
    IF Body[o].user_id = "" THEN Body[o].customer_id ELSE Body[o].user_id

Decodes(o) == Body[o].timestamp # "unparsable"

Validates(o) ==
    /\ {Body[o].order_id, UserID(o), Body[o].item_id} = {"given"}
    /\ Body[o].quantity = "positive"
    /\ Body[o].timestamp # "zero"

Malformed == {o \in Orders : ~(Decodes(o) /\ Validates(o))}

VARIABLES
    message,    \* state of each order's message in SQS
    receives,   \* how often it was received
    running,    \* tasks whose context is not cancelled
    stage,      \* where a delivery is in its task
    host,       \* the task of a delivery
    tries,      \* attempts of the current retry.Do
    inserted,   \* SaveResult.Inserted of the attempt under way
    stored,     \* orders in the orders table
    lastOrder,  \* last_order_id of the inventory item
    counted,    \* how often an order was added to confirmed_orders
    confirmed,  \* deliveries that were reported as "order confirmed"
    unacked     \* history: orders that an update counted unanswered

queue  == <<message, receives>>
work   == <<running, stage, host, tries, inserted>>
tables == <<stored, lastOrder, counted, unacked>>
vars   == <<queue, work, tables, confirmed>>

MessageStates == {"unsent", "visible", "inflight", "deleted", "dlq"}
Stages ==
    {"none", "batch", "jobs", "put", "update", "delete", "over", "failed"}

TypeOK ==
    /\ message \in [Orders -> MessageStates]
    /\ receives \in [Orders -> 0..MaxReceives]
    /\ running \in [Tasks -> BOOLEAN]
    /\ stage \in [Deliveries -> Stages]
    /\ host \in [Deliveries -> Tasks \cup {None}]
    /\ tries \in [Deliveries -> 1..RetryAttempts]
    /\ inserted \in [Deliveries -> BOOLEAN]
    /\ stored \subseteq Orders
    /\ lastOrder \in Orders \cup {None}
    /\ counted \in [Orders -> Nat]
    /\ confirmed \subseteq Deliveries
    /\ unacked \subseteq Orders

Init ==
    /\ message = [o \in Orders |-> "unsent"]
    /\ receives = [o \in Orders |-> 0]
    /\ running = [t \in Tasks |-> TRUE]
    /\ stage = [d \in Deliveries |-> "none"]
    /\ host = [d \in Deliveries |-> None]
    /\ tries = [d \in Deliveries |-> 1]
    /\ inserted = [d \in Deliveries |-> FALSE]
    /\ stored = {}
    /\ lastOrder = None
    /\ counted = [o \in Orders |-> 0]
    /\ confirmed = {}
    /\ unacked = {}
-----------------------------------------------------------------------------
(* Derived state *)

Order(d) == d[1]

In(t, label) == {d \in Deliveries : host[d] = t /\ stage[d] = label}
Working(t) == In(t, "put") \cup In(t, "update") \cup In(t, "delete")
Live(o) == \E d \in Deliveries :
              Order(d) = o /\ stage[d] \notin {"none", "over", "failed"}

(* The capacity of the jobs channel. *)
Capacity == NumWorkers * MaxMessages

GoTo(d, label) == stage' = [stage EXCEPT ![d] = label]

(* A task is done with the deliveries in D, because they are "over" or      *)
(* because handleMessage "failed"; what it knew of them is gone.            *)
Finish(D, outcome) ==
    /\ stage' = [d \in Deliveries |-> IF d \in D THEN outcome ELSE stage[d]]
    /\ host' = [d \in Deliveries |-> IF d \in D THEN None ELSE host[d]]
    /\ tries' = [d \in Deliveries |-> IF d \in D THEN 1 ELSE tries[d]]
    /\ inserted' = [d \in Deliveries |-> d \notin D /\ inserted[d]]

-----------------------------------------------------------------------------
(* SQS *)

(* What the API stores there becomes visible: one message, or all that a    *)
(* task of the API was sending when it died.                                *)
Send ==
    /\ \E S \in SUBSET {o \in Orders : message[o] = "unsent"} :
          /\ S # {}
          /\ message' = [o \in Orders |->
                           IF o \in S THEN "visible" ELSE message[o]]
    /\ UNCHANGED <<receives, work, tables, confirmed>>

(* The visibility timeout ends; without the fault "expiry" only after the   *)
(* tasks are done with the message.                                         *)
Expire(o) ==
    /\ message[o] = "inflight"
    /\ "expiry" \in Faults \/ ~Live(o)
    /\ message' = [message EXCEPT ![o] = "visible"]
    /\ UNCHANGED <<receives, work, tables, confirmed>>

(* A message received maxReceiveCount times goes to the dead-letter queue. *)
Redrive(o) ==
    /\ message[o] = "visible"
    /\ receives[o] = MaxReceives
    /\ message' = [message EXCEPT ![o] = "dlq"]
    /\ UNCHANGED <<receives, work, tables, confirmed>>

-----------------------------------------------------------------------------
(* The poller of a task *)

(* ReceiveMessage, once the previous batch is in the channel. *)
Poll(t) ==
    /\ running[t]
    /\ In(t, "batch") = {}
    /\ \E S \in SUBSET {o \in Orders : /\ message[o] = "visible"
                                       /\ receives[o] < MaxReceives} :
          /\ S # {}
          /\ Cardinality(S) <= MaxMessages
          /\ message' = [o \in Orders |->
                           IF o \in S THEN "inflight" ELSE message[o]]
          /\ receives' = [o \in Orders |->
                            IF o \in S THEN receives[o] + 1 ELSE receives[o]]
          /\ LET new == {<<o, receives[o] + 1>> : o \in S} IN
             \/ /\ host' = [d \in Deliveries |->
                              IF d \in new THEN t ELSE host[d]]
                /\ stage' = [d \in Deliveries |->
                               IF d \in new THEN "batch" ELSE stage[d]]
                /\ UNCHANGED <<tries, inserted>>
             \/ "lost_reply" \in Faults /\ Finish(new, "over")
    /\ UNCHANGED <<running, tables, confirmed>>

(* Mutant: the poller drops what the channel cannot take. *)
EnqueueOrDrop(d) ==
    /\ stage[d] = "batch"
    /\ \/ /\ Cardinality(In(host[d], "jobs")) < Capacity
          /\ GoTo(d, "jobs")
          /\ UNCHANGED <<host, tries, inserted>>
       \/ /\ Cardinality(In(host[d], "jobs")) = Capacity
          /\ Finish({d}, "over")
    /\ UNCHANGED <<queue, running, tables, confirmed>>

(* The poller blocks while the channel is full. *)
Enqueue(d) ==
    /\ stage[d] = "batch"
    /\ Cardinality(In(host[d], "jobs")) < Capacity
    /\ GoTo(d, "jobs")
    /\ UNCHANGED <<queue, running, host, tries, inserted, tables, confirmed>>

(* The context is cancelled: poller and workers return, the jobs and the    *)
(* rest of the batch are dropped.                                           *)
Stop(t) ==
    /\ "stop" \in Faults
    /\ running[t]
    /\ running' = [running EXCEPT ![t] = FALSE]
    /\ Finish(In(t, "batch") \cup In(t, "jobs"), "over")
    /\ UNCHANGED <<queue, tables, confirmed>>

(* The task is replaced after its workers have returned. *)
Restart(t) ==
    /\ ~running[t]
    /\ Working(t) = {}
    /\ running' = [running EXCEPT ![t] = TRUE]
    /\ UNCHANGED <<queue, stage, host, tries, inserted, tables, confirmed>>

-----------------------------------------------------------------------------
(* A worker: handleMessage *)

(* Mutant: a message that does not validate is deleted. *)
TakeJobDiscarding(d) ==
    /\ stage[d] = "jobs"
    /\ Cardinality(Working(host[d])) < NumWorkers
    /\ \/ /\ Order(d) \in Malformed
          /\ message' = [message EXCEPT ![Order(d)] = "deleted"]
          /\ Finish({d}, "failed")
       \/ /\ Order(d) \notin Malformed
          /\ GoTo(d, "put")
          /\ UNCHANGED <<message, host, tries, inserted>>
    /\ UNCHANGED <<receives, running, tables, confirmed>>

(* A free worker takes a job; a message that does not validate is left to   *)
(* its visibility timeout.                                                  *)
TakeJob(d) ==
    /\ stage[d] = "jobs"
    /\ Cardinality(Working(host[d])) < NumWorkers
    /\ \/ Order(d) \in Malformed /\ Finish({d}, "failed")
       \/ /\ Order(d) \notin Malformed
          /\ GoTo(d, "put")
          /\ UNCHANGED <<host, tries, inserted>>
    /\ UNCHANGED <<queue, running, tables, confirmed>>

(* Mutants: one attempt too many; attempts start over; one retry.Do spans   *)
(* the save and the delete.                                                 *)
RetryOnceMore(d) ==
    /\ \/ /\ running[host[d]]
          /\ tries[d] <= RetryAttempts
          /\ tries' = [tries EXCEPT ![d] = @ + 1]
          /\ GoTo(d, IF stage[d] = "delete" THEN "delete" ELSE "put")
          /\ UNCHANGED <<host, inserted>>
       \/ ~running[host[d]] /\ Finish({d}, "failed")
    /\ UNCHANGED <<running, confirmed>>

RetryForever(d) ==
    /\ \/ /\ running[host[d]]
          /\ tries' = [tries EXCEPT ![d] = (@ % RetryAttempts) + 1]
          /\ UNCHANGED <<stage, host, inserted>>
       \/ ~running[host[d]] /\ Finish({d}, "failed")
    /\ UNCHANGED <<running, confirmed>>

RetryWhole(d) ==
    /\ \/ /\ running[host[d]]
          /\ tries[d] < RetryAttempts
          /\ tries' = [tries EXCEPT ![d] = @ + 1]
          /\ GoTo(d, "put")
          /\ UNCHANGED <<host, inserted>>
       \/ /\ ~running[host[d]] \/ tries[d] = RetryAttempts
          /\ Finish({d}, "failed")
    /\ UNCHANGED <<running, confirmed>>

(* retry.Do: SaveOrder starts again from its first write, DeleteMessage is  *)
(* repeated; the last attempt, or any attempt of a cancelled context, ends  *)
(* the delivery.                                                            *)
Retry(d) ==
    /\ \/ /\ running[host[d]]
          /\ tries[d] < RetryAttempts
          /\ tries' = [tries EXCEPT ![d] = @ + 1]
          /\ GoTo(d, IF stage[d] = "delete" THEN "delete" ELSE "put")
          /\ inserted' = [inserted EXCEPT ![d] = FALSE]
          /\ UNCHANGED host
       \/ /\ ~running[host[d]] \/ tries[d] = RetryAttempts
          /\ Finish({d}, "failed")
    /\ UNCHANGED <<running, confirmed>>

(* Mutant: PutItem without its condition. *)
PutOrderBlind(d) ==
    /\ stage[d] = "put"
    /\ running[host[d]]
    /\ stored' = stored \cup {Order(d)}
    /\ inserted' = [inserted EXCEPT ![d] = TRUE]
    /\ GoTo(d, "update")
    /\ UNCHANGED <<queue, running, host, tries, lastOrder, counted, unacked,
                   confirmed>>

(* PutItem with attribute_not_exists(order_id). *)
PutOrder(d) ==
    /\ stage[d] = "put"
    /\ running[host[d]]
    /\ stored' = stored \cup {Order(d)}
    /\ inserted' = [inserted EXCEPT ![d] = Order(d) \notin stored]
    /\ GoTo(d, "update")
    /\ UNCHANGED <<queue, running, host, tries, lastOrder, counted, unacked,
                   confirmed>>

(* Mutant: UpdateItem without its condition. *)
CountOrderBlind(o) ==
    /\ lastOrder' = o
    /\ counted' = [counted EXCEPT ![o] = @ + 1]
    /\ UNCHANGED stored

(* The effect of UpdateItem with last_order_id <> this order. *)
CountOrder(o) ==
    /\ lastOrder' = o
    /\ counted' = [counted EXCEPT ![o] = IF lastOrder = o THEN @ ELSE @ + 1]
    /\ UNCHANGED stored

(* UpdateItem succeeds or finds the order counted; either way it is saved. *)
UpdateInventory(d) ==
    /\ stage[d] = "update"
    /\ running[host[d]]
    /\ CountOrder(Order(d))
    /\ confirmed' = IF inserted[d] THEN confirmed \cup {d} ELSE confirmed
    /\ inserted' = [inserted EXCEPT ![d] = FALSE]
    /\ tries' = [tries EXCEPT ![d] = 1]
    /\ GoTo(d, "delete")
    /\ UNCHANGED <<queue, running, host, unacked>>

(* A receipt that is not the latest may be accepted without an effect. *)
RemoveMessage(d) ==
    IF message[Order(d)] \in {"visible", "inflight"}
    THEN \/ message' = [message EXCEPT ![Order(d)] = "deleted"]
         \/ d[2] < receives[Order(d)] /\ UNCHANGED message
    ELSE UNCHANGED message

DeleteMessage(d) ==
    /\ stage[d] = "delete"
    /\ running[host[d]]
    /\ RemoveMessage(d)
    /\ Finish({d}, "over")
    /\ UNCHANGED <<receives, running, tables, confirmed>>

(* Mutant: a failed update of the counter is logged and forgotten. *)
CallFailsForgotten(d) ==
    /\ stage[d] \in {"put", "update", "delete"}
    /\ \/ "server_error" \in Faults
       \/ "client_error" \in Faults /\ stage[d] = "delete"
       \/ ~running[host[d]]
    /\ \/ stage[d] # "update" /\ Retry(d)
       \/ /\ stage[d] = "update"
          /\ GoTo(d, "delete")
          /\ UNCHANGED <<running, host, tries, inserted, confirmed>>
    /\ UNCHANGED <<queue, tables>>

(* A call fails without an effect; of a delete every error is retried. *)
CallFails(d) ==
    /\ stage[d] \in {"put", "update", "delete"}
    /\ \/ "server_error" \in Faults
       \/ "client_error" \in Faults /\ stage[d] = "delete"
       \/ ~running[host[d]]
    /\ Retry(d)
    /\ UNCHANGED <<queue, tables>>

(* A call takes effect and its answer is lost. *)
CallUnacked(d) ==
    /\ stage[d] \in {"put", "update", "delete"}
    /\ "lost_reply" \in Faults \/ ~running[host[d]]
    /\ \/ /\ stage[d] = "put"
          /\ stored' = stored \cup {Order(d)}
          /\ UNCHANGED <<message, lastOrder, counted, unacked>>
       \/ /\ stage[d] = "update"
          /\ CountOrder(Order(d))
          /\ unacked' = unacked \cup {Order(d)}
          /\ UNCHANGED message
       \/ /\ stage[d] = "delete"
          /\ RemoveMessage(d)
          /\ UNCHANGED tables
    /\ Retry(d)
    /\ UNCHANGED receives

(* retry.Permanent: DynamoDB blames the request. *)
SaveRejected(d) ==
    /\ "client_error" \in Faults
    /\ stage[d] \in {"put", "update"}
    /\ Finish({d}, "failed")
    /\ UNCHANGED <<queue, running, tables, confirmed>>

-----------------------------------------------------------------------------

WorkerStep(d) ==
    \/ TakeJob(d)
    \/ PutOrder(d) \/ UpdateInventory(d) \/ DeleteMessage(d)
    \/ CallFails(d) \/ CallUnacked(d) \/ SaveRejected(d)

Next ==
    \/ Send
    \/ \E o \in Orders : Expire(o) \/ Redrive(o)
    \/ \E t \in Tasks : Poll(t) \/ Stop(t) \/ Restart(t)
    \/ \E d \in Deliveries : Enqueue(d) \/ WorkerStep(d)

Spec == Init /\ [][Next]_vars

(* Goroutines are scheduled and their calls end; SQS lets every visibility  *)
(* timeout end and moves exhausted messages away; ECS replaces a task.      *)
Fairness ==
    /\ \A o \in Orders : WF_vars(Expire(o)) /\ WF_vars(Redrive(o))
    /\ \A t \in Tasks : WF_vars(Poll(t)) /\ WF_vars(Restart(t))
    /\ \A d \in Deliveries : WF_vars(Enqueue(d)) /\ WF_vars(WorkerStep(d))

FairSpec == Spec /\ Fairness

-----------------------------------------------------------------------------
(* Properties *)

(* A message is deleted only after its order is in the table and in the     *)
(* counter, whatever failed, was retried, redelivered or stopped before.    *)
DeletedIsRecorded ==
    \A o \in Orders :
       message[o] = "deleted" => o \in stored /\ counted[o] >= 1

(* The audit counter counts only stored orders.  It counts an order again   *)
(* only for a redelivery or after an update whose answer was lost, and at   *)
(* most once per attempt of a delivery (an attempt is one UpdateItem that   *)
(* reaches DynamoDB; the AWS SDK's own resends are not modelled).           *)
OvercountExplained ==
    \A o \in Orders :
       /\ counted[o] >= 1 => o \in stored
       /\ counted[o] > receives[o] => o \in unacked
       /\ counted[o] <= receives[o] * RetryAttempts

(* At most one delivery of an order is reported as the confirmed one, even  *)
(* if two tasks save it at the same time.                                   *)
ConfirmedOnce ==
    \A d \in confirmed : /\ Order(d) \in stored
                         /\ \A e \in confirmed : Order(e) = Order(d) => e = d

(* Why: a delivery moves on only after its write, the guard of the counter  *)
(* names a recorded order, and of all deliveries of an order only the one   *)
(* that inserted it may still confirm or has confirmed it.                  *)
Recorded(o) == o \in stored /\ counted[o] >= 1

WritesInOrder ==
    /\ \A d \in Deliveries : stage[d] = "update" => Order(d) \in stored
    /\ \A d \in Deliveries : stage[d] = "delete" => Recorded(Order(d))
    /\ lastOrder # None => Recorded(lastOrder)

Claims == confirmed \cup {d \in Deliveries : inserted[d]}

ClaimedOnce ==
    \A d \in Claims : /\ Order(d) \in stored
                      /\ \A e \in Claims : Order(e) = Order(d) => e = d

(* Workers write of nothing but valid orders that were received.            *)
WorkIsReceived ==
    \A d \in Deliveries :
       /\ stage[d] # "none" => message[Order(d)] # "unsent"
       /\ stage[d] \in {"put", "update", "delete"} => Order(d) \notin Malformed

(* The inductive invariant that explains DeletedIsRecorded, ConfirmedOnce   *)
(* and ImplementsFulfilment.                                                *)
WorkerInv ==
    TypeOK /\ WritesInOrder /\ DeletedIsRecorded /\ ClaimedOnce /\ WorkIsReceived

(* Whatever fails, is repeated or is delivered twice, the tasks together    *)
(* record a valid order before they count it and count it before they are   *)
(* done with it, forget no record, and count none twice in a row.           *)
FulfilmentPromise == INSTANCE Fulfilment WITH
    Valid    <- Orders \ Malformed,
    received <- {o \in Orders : message[o] # "unsent"},
    recorded <- stored,
    latest   <- lastOrder,
    done     <- {o \in Orders : message[o] = "deleted"},
    buried   <- {o \in Orders : message[o] = "dlq"}

ImplementsFulfilment == FulfilmentPromise!Spec

(* "Idempotency guard: only increments if last_order_id != this order_id.   *)
(* This means retries after a partial failure [...] will correctly update   *)
(* the counter without double-counting" (store/dynamodb.go).                *)
CountedAtMostOnce == \A o \in Orders : counted[o] <= 1

(* Every published message leaves the queue: no task, channel or redelivery *)
(* holds it forever.                                                        *)
EveryMessageSettles ==
    \A o \in Orders :
       message[o] = "visible" ~> message[o] \in {"deleted", "dlq"}

(* A valid order is counted, or a worker has reported the failure of one of *)
(* its deliveries: waiting in the channel, expired visibility timeouts and  *)
(* the dead-letter queue alone lose none.                                   *)
EveryOrderCounted ==
    \A o \in Orders \ Malformed :
       message[o] = "visible"
          ~> \/ counted[o] >= 1
             \/ \E d \in Deliveries : Order(d) = o /\ stage[d] = "failed"
=============================================================================
