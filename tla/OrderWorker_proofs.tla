------------------------- MODULE OrderWorker_proofs -------------------------
(* Theorems about OrderWorker, for every value of its constants. *)
EXTENDS OrderWorker, FiniteSetTheorems, TLAPS

-----------------------------------------------------------------------------
(* What the parts of the actions do to the types *)

LEMMA FinishTypes ==
    ASSUME TypeOK, NEW D, NEW outcome \in {"over", "failed"}, Finish(D, outcome)
    PROVE  /\ stage' \in [Deliveries -> Stages]
           /\ host' \in [Deliveries -> Tasks \cup {None}]
           /\ tries' \in [Deliveries -> 1..RetryAttempts]
           /\ inserted' \in [Deliveries -> BOOLEAN]
<1>1. stage' \in [Deliveries -> Stages]
  BY DEF Finish, TypeOK, Stages
<1>2. host' \in [Deliveries -> Tasks \cup {None}]
  BY DEF Finish, TypeOK
<1>3. tries' \in [Deliveries -> 1..RetryAttempts]
  BY WorkerAssumption DEF Finish, TypeOK
<1>4. \A d \in Deliveries : (d \notin D /\ inserted[d]) \in BOOLEAN
  BY Zenon
<1>5. inserted' \in [Deliveries -> BOOLEAN]
  BY <1>4, Zenon DEF Finish
<1> QED
  BY <1>1, <1>2, <1>3, <1>5

LEMMA RetryTypes ==
    ASSUME TypeOK, NEW d \in Deliveries, Retry(d)
    PROVE  /\ running' \in [Tasks -> BOOLEAN]
           /\ stage' \in [Deliveries -> Stages]
           /\ host' \in [Deliveries -> Tasks \cup {None}]
           /\ tries' \in [Deliveries -> 1..RetryAttempts]
           /\ inserted' \in [Deliveries -> BOOLEAN]
           /\ confirmed' \subseteq Deliveries
<1>1. CASE Finish({d}, "failed")
  BY <1>1, FinishTypes DEF Retry, TypeOK
<1>2. CASE /\ tries[d] < RetryAttempts
           /\ tries' = [tries EXCEPT ![d] = @ + 1]
           /\ GoTo(d, IF stage[d] = "delete" THEN "delete" ELSE "put")
           /\ inserted' = [inserted EXCEPT ![d] = FALSE]
           /\ UNCHANGED host
  BY <1>2, WorkerAssumption DEF Retry, GoTo, TypeOK, Stages
<1> QED
  BY <1>1, <1>2 DEF Retry

LEMMA RemoveTypes ==
    ASSUME TypeOK, NEW d \in Deliveries, RemoveMessage(d)
    PROVE  message' \in [Orders -> MessageStates]
BY DEF RemoveMessage, TypeOK, MessageStates, Deliveries, Order

LEMMA CountTypes ==
    ASSUME TypeOK, NEW o \in Orders, CountOrder(o)
    PROVE  /\ lastOrder' \in Orders \cup {None}
           /\ counted' \in [Orders -> Nat]
           /\ stored' \subseteq Orders
BY DEF CountOrder, TypeOK

-----------------------------------------------------------------------------
(* Type correctness *)

LEMMA TypeInit == Init => TypeOK
BY WorkerAssumption DEF Init, TypeOK, MessageStates, Stages

LEMMA TypePoll ==
    ASSUME TypeOK, NEW t \in Tasks, Poll(t)
    PROVE  TypeOK'
<1> PICK S \in SUBSET {o \in Orders : /\ message[o] = "visible"
                                      /\ receives[o] < MaxReceives} :
           /\ message' = [o \in Orders |->
                            IF o \in S THEN "inflight" ELSE message[o]]
           /\ receives' = [o \in Orders |->
                             IF o \in S THEN receives[o] + 1 ELSE receives[o]]
           /\ LET new == {<<o, receives[o] + 1>> : o \in S} IN
              \/ /\ host' = [d \in Deliveries |->
                               IF d \in new THEN t ELSE host[d]]
                 /\ stage' = [d \in Deliveries |->
                                IF d \in new THEN "batch" ELSE stage[d]]
                 /\ UNCHANGED <<tries, inserted>>
              \/ "lost_reply" \in Faults /\ Finish(new, "over")
  BY DEF Poll
<1> DEFINE new == {<<o, receives[o] + 1>> : o \in S}
<1>1. message' \in [Orders -> MessageStates]
  BY DEF TypeOK, MessageStates
<1>2. receives' \in [Orders -> 0..MaxReceives]
  BY WorkerAssumption DEF TypeOK
<1>3. /\ running' \in [Tasks -> BOOLEAN]
      /\ stored' \subseteq Orders
      /\ lastOrder' \in Orders \cup {None}
      /\ counted' \in [Orders -> Nat]
      /\ confirmed' \subseteq Deliveries
      /\ unacked' \subseteq Orders
  BY DEF Poll, TypeOK, tables
<1>4. /\ stage' \in [Deliveries -> Stages]
      /\ host' \in [Deliveries -> Tasks \cup {None}]
      /\ tries' \in [Deliveries -> 1..RetryAttempts]
      /\ inserted' \in [Deliveries -> BOOLEAN]
  <2>1. CASE Finish(new, "over")
    BY <2>1, FinishTypes
  <2>2. CASE /\ host' = [d \in Deliveries |-> IF d \in new THEN t ELSE host[d]]
             /\ stage' = [d \in Deliveries |->
                            IF d \in new THEN "batch" ELSE stage[d]]
             /\ UNCHANGED <<tries, inserted>>
    <3> HIDE DEF new
    <3> QED
      BY <2>2 DEF TypeOK, Stages
  <2> QED
    BY <2>1, <2>2
<1> QED
  BY <1>1, <1>2, <1>3, <1>4 DEF TypeOK

LEMMA TypeWorker ==
    ASSUME TypeOK, NEW d \in Deliveries, WorkerStep(d)
    PROVE  TypeOK'
<1> USE DEF queue, tables
<1>0. Order(d) \in Orders
  BY DEF Order, Deliveries
<1>1. CASE TakeJob(d)
  BY <1>1, FinishTypes DEF TakeJob, GoTo, TypeOK, Stages
<1>2. CASE PutOrder(d)
  <2>1. (Order(d) \notin stored) \in BOOLEAN
    BY Zenon
  <2>2. inserted' \in [Deliveries -> BOOLEAN]
    BY <1>2, <2>1, Zenon DEF PutOrder, TypeOK
  <2> QED
    BY <1>0, <1>2, <2>2 DEF PutOrder, GoTo, TypeOK, Stages
<1>3. CASE UpdateInventory(d)
  BY <1>0, <1>3, CountTypes, WorkerAssumption
     DEF UpdateInventory, GoTo, TypeOK, Stages
<1>4. CASE DeleteMessage(d)
  BY <1>4, RemoveTypes, FinishTypes DEF DeleteMessage, TypeOK
<1>5. CASE CallFails(d)
  BY <1>5, RetryTypes DEF CallFails, TypeOK
<1>6. CASE CallUnacked(d)
  <2>1. /\ message' \in [Orders -> MessageStates]
        /\ stored' \subseteq Orders
        /\ lastOrder' \in Orders \cup {None}
        /\ counted' \in [Orders -> Nat]
        /\ unacked' \subseteq Orders
    BY <1>0, <1>6, RemoveTypes, CountTypes DEF CallUnacked, TypeOK
  <2> QED
    BY <1>6, <2>1, RetryTypes DEF CallUnacked, TypeOK
<1>7. CASE SaveRejected(d)
  BY <1>7, FinishTypes DEF SaveRejected, TypeOK
<1> QED
  BY <1>1, <1>2, <1>3, <1>4, <1>5, <1>6, <1>7 DEF WorkerStep

LEMMA TypeStep == TypeOK /\ [Next]_vars => TypeOK'
<1> SUFFICES ASSUME TypeOK, [Next]_vars PROVE TypeOK'
  OBVIOUS
<1> USE DEF queue, work, tables
<1>1. ASSUME Send \/ \E o \in Orders : Expire(o) \/ Redrive(o)
      PROVE  TypeOK'
  BY <1>1 DEF Send, Expire, Redrive, TypeOK, MessageStates
<1>2. ASSUME NEW t \in Tasks, Poll(t) PROVE TypeOK'
  BY <1>2, TypePoll
<1>3. ASSUME NEW t \in Tasks, Stop(t) PROVE TypeOK'
  BY <1>3, FinishTypes DEF Stop, TypeOK
<1>4. ASSUME NEW t \in Tasks, Restart(t) PROVE TypeOK'
  BY <1>4 DEF Restart, TypeOK
<1>5. ASSUME NEW d \in Deliveries, Enqueue(d) PROVE TypeOK'
  BY <1>5 DEF Enqueue, GoTo, TypeOK, Stages
<1>6. ASSUME NEW d \in Deliveries, WorkerStep(d) PROVE TypeOK'
  BY <1>6, TypeWorker
<1>7. CASE UNCHANGED vars
  BY <1>7 DEF vars, TypeOK
<1> QED
  BY <1>1, <1>2, <1>3, <1>4, <1>5, <1>6, <1>7 DEF Next

(* Every variable keeps its type, whatever fails or is redelivered. *)
THEOREM WorkerTypeCorrect == Spec => []TypeOK
<1> QED
  BY TypeInit, TypeStep, PTL DEF Spec

-----------------------------------------------------------------------------
(* Nothing recorded is ever unrecorded *)

LEMMA RecordedStays ==
    ASSUME TypeOK, [Next]_vars
    PROVE  /\ stored \subseteq stored'
           /\ \A o \in Orders : Recorded(o) => Recorded(o)'
<1> USE DEF queue, work, tables
<1>1. ASSUME NEW o \in Orders, CountOrder(o)
      PROVE  /\ stored' = stored
             /\ \A p \in Orders : counted'[p] >= counted[p]
  BY <1>1 DEF CountOrder, TypeOK
<1>2. ASSUME NEW d \in Deliveries, WorkerStep(d)
      PROVE  /\ stored \subseteq stored'
             /\ \A p \in Orders : counted'[p] >= counted[p]
  <2>1. Order(d) \in Orders
    BY DEF Order, Deliveries
  <2>2. CASE UpdateInventory(d)
    BY <2>1, <2>2, <1>1 DEF UpdateInventory
  <2>3. CASE CallUnacked(d)
    BY <2>1, <2>3, <1>1 DEF CallUnacked, TypeOK
  <2>4. CASE PutOrder(d)
    BY <2>4 DEF PutOrder, TypeOK
  <2>5. CASE TakeJob(d) \/ DeleteMessage(d) \/ CallFails(d) \/ SaveRejected(d)
    BY <2>5 DEF TakeJob, DeleteMessage, CallFails, SaveRejected, TypeOK
  <2> QED
    BY <1>2, <2>2, <2>3, <2>4, <2>5 DEF WorkerStep
<1>3. CASE UNCHANGED <<stored, counted>>
  BY <1>3 DEF Recorded
<1>4. ASSUME Send \/ \E o \in Orders : Expire(o) \/ Redrive(o)
      PROVE  UNCHANGED <<stored, counted>>
  BY <1>4 DEF Send, Expire, Redrive
<1>5. ASSUME NEW t \in Tasks, Poll(t) \/ Stop(t) \/ Restart(t)
      PROVE  UNCHANGED <<stored, counted>>
  BY <1>5 DEF Poll, Stop, Restart
<1>6. ASSUME NEW d \in Deliveries, Enqueue(d)
      PROVE  UNCHANGED <<stored, counted>>
  BY <1>6 DEF Enqueue
<1>7. CASE \E d \in Deliveries : WorkerStep(d)
  <2>1. /\ stored \subseteq stored'
        /\ \A p \in Orders : counted'[p] >= counted[p]
    BY <1>7, <1>2
  <2>2. /\ counted \in [Orders -> Nat]
        /\ counted' \in [Orders -> Nat]
    BY TypeStep DEF TypeOK
  <2> QED
    BY <2>1, <2>2 DEF Recorded
<1>8. CASE UNCHANGED vars
  BY <1>8, <1>3 DEF vars
<1> QED
  BY <1>3, <1>4, <1>5, <1>6, <1>7, <1>8 DEF Next

-----------------------------------------------------------------------------
(* Every write follows the one before *)

LEMMA FinishStages ==
    ASSUME NEW D, NEW outcome \in {"over", "failed"}, Finish(D, outcome),
           NEW d \in Deliveries
    PROVE  stage'[d] \in {"over", "failed", stage[d]}
BY DEF Finish

LEMMA RetryStages ==
    ASSUME TypeOK, NEW d \in Deliveries, Retry(d), NEW e \in Deliveries
    PROVE  stage'[e] \in {"over", "failed", "put", stage[e]}
<1>1. CASE Finish({d}, "failed")
  BY <1>1, FinishStages
<1>2. CASE GoTo(d, IF stage[d] = "delete" THEN "delete" ELSE "put")
  BY <1>2 DEF GoTo, TypeOK
<1> QED
  BY <1>1, <1>2 DEF Retry

(* A delivery reaches the update after a PutItem, the delete after both.    *)
LEMMA StageStep ==
    ASSUME TypeOK, Next, NEW d \in Deliveries
    PROVE  \/ stage'[d] \in {"none", "batch", "jobs", "put", "over", "failed",
                          stage[d]}
           \/ stage'[d] = "update" /\ Order(d) \in stored'
           \/ stage'[d] = "delete" /\ stage[d] = "update" /\ CountOrder(Order(d))
<1> USE DEF queue, work, tables
<1>1. ASSUME Send \/ \E o \in Orders : Expire(o) \/ Redrive(o)
      PROVE  stage' = stage
  BY <1>1 DEF Send, Expire, Redrive
<1>2. ASSUME NEW t \in Tasks, Poll(t)
      PROVE  stage'[d] \in {"over", "failed", "batch", stage[d]}
  BY <1>2, FinishStages DEF Poll
<1>3. ASSUME NEW t \in Tasks, Stop(t) \/ Restart(t)
      PROVE  stage'[d] \in {"over", "failed", stage[d]}
  BY <1>3, FinishStages DEF Stop, Restart
<1>4. ASSUME NEW e \in Deliveries, Enqueue(e)
      PROVE  stage'[d] \in {"jobs", stage[d]}
  BY <1>4 DEF Enqueue, GoTo, TypeOK
<1>5. ASSUME NEW e \in Deliveries, TakeJob(e)
      PROVE  stage'[d] \in {"over", "failed", "put", stage[d]}
  BY <1>5, FinishStages DEF TakeJob, GoTo, TypeOK
<1>6. ASSUME NEW e \in Deliveries, PutOrder(e)
      PROVE  \/ stage'[d] = stage[d]
             \/ stage'[d] = "update" /\ Order(d) \in stored'
  BY <1>6 DEF PutOrder, GoTo, TypeOK
<1>7. ASSUME NEW e \in Deliveries, UpdateInventory(e)
      PROVE  \/ stage'[d] = stage[d]
             \/ /\ stage'[d] = "delete"
                /\ stage[d] = "update"
                /\ CountOrder(Order(d))
  BY <1>7 DEF UpdateInventory, GoTo, TypeOK
<1>8. ASSUME NEW e \in Deliveries,
             DeleteMessage(e) \/ CallFails(e) \/ CallUnacked(e) \/ SaveRejected(e)
      PROVE  stage'[d] \in {"over", "failed", "put", stage[d]}
  BY <1>8, FinishStages, RetryStages
     DEF DeleteMessage, CallFails, CallUnacked, SaveRejected
<1> QED
  BY <1>1, <1>2, <1>3, <1>4, <1>5, <1>6, <1>7, <1>8 DEF Next, WorkerStep

(* The guard of the counter changes only with the counter, and only for an  *)
(* order that a delivery has stored.                                        *)
LEMMA CounterStep ==
    ASSUME TypeOK, Next
    PROVE  \/ UNCHANGED lastOrder
           \/ \E d \in Deliveries : stage[d] = "update" /\ CountOrder(Order(d))
<1> USE DEF queue, work, tables
<1>1. ASSUME Send \/ \E o \in Orders : Expire(o) \/ Redrive(o)
      PROVE  UNCHANGED lastOrder
  BY <1>1 DEF Send, Expire, Redrive
<1>2. ASSUME NEW t \in Tasks, Poll(t) \/ Stop(t) \/ Restart(t)
      PROVE  UNCHANGED lastOrder
  BY <1>2 DEF Poll, Stop, Restart
<1>3. ASSUME NEW d \in Deliveries, Enqueue(d)
      PROVE  UNCHANGED lastOrder
  BY <1>3 DEF Enqueue
<1>4. ASSUME NEW d \in Deliveries, WorkerStep(d)
      PROVE  \/ UNCHANGED lastOrder
             \/ stage[d] = "update" /\ CountOrder(Order(d))
  BY <1>4 DEF WorkerStep, TakeJob, PutOrder, UpdateInventory, DeleteMessage,
              CallFails, CallUnacked, SaveRejected
<1> QED
  BY <1>1, <1>2, <1>3, <1>4 DEF Next

(* Counting a stored order records it. *)
LEMMA CountRecords ==
    ASSUME TypeOK, WritesInOrder, NEW o \in Orders, o \in stored, CountOrder(o)
    PROVE  Recorded(o)'
<1>1. CASE lastOrder = o
  BY <1>1, WorkerAssumption DEF CountOrder, WritesInOrder, Recorded, TypeOK
<1>2. CASE lastOrder # o
  BY <1>2 DEF CountOrder, Recorded, TypeOK
<1> QED
  BY <1>1, <1>2

LEMMA WritesStep ==
    ASSUME TypeOK, WritesInOrder, [Next]_vars
    PROVE  WritesInOrder'
<1>1. CASE UNCHANGED vars
  BY <1>1 DEF vars, work, tables, WritesInOrder, Recorded
<1>2. CASE Next
  <2>1. ASSUME NEW d \in Deliveries, stage[d] = "update", CountOrder(Order(d))
        PROVE  Recorded(Order(d))'
    BY <2>1, CountRecords DEF WritesInOrder, Order, Deliveries
  <2>2. \A d \in Deliveries : Order(d) \in Orders
    BY DEF Order, Deliveries
  <2>3. ASSUME NEW d \in Deliveries, stage'[d] = "update"
        PROVE  Order(d) \in stored'
    BY <1>2, <2>3, StageStep, RecordedStays DEF WritesInOrder
  <2>4. ASSUME NEW d \in Deliveries, stage'[d] = "delete"
        PROVE  Recorded(Order(d))'
    BY <1>2, <2>1, <2>2, <2>4, StageStep, RecordedStays DEF WritesInOrder
  <2>5. ASSUME lastOrder' # None
        PROVE  Recorded(lastOrder)'
    <3>1. CASE UNCHANGED lastOrder
      <4>1. lastOrder \in Orders /\ Recorded(lastOrder)
        BY <2>5, <3>1 DEF WritesInOrder, TypeOK
      <4> QED
        BY <3>1, <4>1, RecordedStays DEF Recorded
    <3>2. ASSUME NEW d \in Deliveries, stage[d] = "update", CountOrder(Order(d))
          PROVE  Recorded(lastOrder)'
      BY <3>2, <2>1 DEF CountOrder, Recorded
    <3> QED
      BY <1>2, <3>1, <3>2, CounterStep
  <2> QED
    BY <2>3, <2>4, <2>5 DEF WritesInOrder, Recorded, Order
<1> QED
  BY <1>1, <1>2

(* A message that is deleted was just deleted by a delivery that recorded   *)
(* its order, or was deleted before.                                        *)
LEMMA DeletedStep ==
    ASSUME TypeOK, WritesInOrder, DeletedIsRecorded, [Next]_vars
    PROVE  DeletedIsRecorded'
<1> USE DEF queue, work, tables
<1>1. ASSUME NEW o \in Orders, message'[o] = "deleted"
      PROVE  Recorded(o)
  <2>1. CASE message'[o] = message[o]
    BY <1>1, <2>1 DEF DeletedIsRecorded, Recorded
  <2>2. ASSUME NEW d \in Deliveries, stage[d] = "delete", RemoveMessage(d)
        PROVE  Recorded(o)
    <3>1. Recorded(Order(d))
      BY <2>2 DEF WritesInOrder
    <3> QED
      BY <1>1, <2>2, <3>1
         DEF RemoveMessage, DeletedIsRecorded, Recorded, TypeOK
  <2>3. ASSUME Send \/ \E p \in Orders : Expire(p) \/ Redrive(p)
        PROVE  message'[o] = message[o]
    BY <1>1, <2>3 DEF Send, Expire, Redrive, TypeOK
  <2>4. ASSUME NEW t \in Tasks, Poll(t) \/ Stop(t) \/ Restart(t)
        PROVE  message'[o] = message[o]
    BY <1>1, <2>4 DEF Poll, Stop, Restart
  <2>5. ASSUME NEW d \in Deliveries, Enqueue(d)
        PROVE  message'[o] = message[o]
    BY <2>5 DEF Enqueue
  <2>6. ASSUME NEW d \in Deliveries, WorkerStep(d)
        PROVE  \/ message'[o] = message[o]
               \/ stage[d] = "delete" /\ RemoveMessage(d)
    BY <2>6 DEF WorkerStep, TakeJob, PutOrder, UpdateInventory, DeleteMessage,
                CallFails, CallUnacked, SaveRejected
  <2>7. CASE UNCHANGED vars
    BY <2>1, <2>7 DEF vars
  <2> QED
    BY <2>1, <2>2, <2>3, <2>4, <2>5, <2>6, <2>7 DEF Next
<1>2. \A o \in Orders : message'[o] = "deleted" => Recorded(o)'
  BY <1>1, RecordedStays
<1> QED
  BY <1>2 DEF DeletedIsRecorded, Recorded

-----------------------------------------------------------------------------
(* One confirmation per order *)

(* Whoever claims an order after a step claimed it before, or has just      *)
(* inserted it into a table that did not have it.                           *)
LEMMA ClaimStep ==
    ASSUME TypeOK, Next, NEW d \in Claims'
    PROVE  \/ d \in Claims
           \/ /\ PutOrder(d)
              /\ Order(d) \notin stored
              /\ Order(d) \in stored'
              /\ \A e \in Claims' : e \in Claims \/ e = d
<1> USE DEF queue, work, tables
<1>1. ASSUME NEW D, NEW outcome, Finish(D, outcome), UNCHANGED confirmed
      PROVE  Claims' \subseteq Claims
  BY <1>1 DEF Finish, Claims
<1>2. ASSUME UNCHANGED <<inserted, confirmed>>
      PROVE  Claims' \subseteq Claims
  BY <1>2 DEF Claims
<1>3. ASSUME Send \/ \E o \in Orders : Expire(o) \/ Redrive(o)
      PROVE  Claims' \subseteq Claims
  BY <1>3, <1>2 DEF Send, Expire, Redrive
<1>4. ASSUME NEW t \in Tasks, Poll(t) \/ Stop(t) \/ Restart(t)
      PROVE  Claims' \subseteq Claims
  BY <1>4, <1>1, <1>2 DEF Poll, Stop, Restart
<1>5. ASSUME NEW e \in Deliveries,
             Enqueue(e) \/ TakeJob(e) \/ DeleteMessage(e) \/ SaveRejected(e)
      PROVE  Claims' \subseteq Claims
  BY <1>5, <1>1, <1>2 DEF Enqueue, TakeJob, DeleteMessage, SaveRejected
<1>6. ASSUME NEW e \in Deliveries, CallFails(e) \/ CallUnacked(e)
      PROVE  Claims' \subseteq Claims
  <2>1. Retry(e) /\ UNCHANGED confirmed
    BY <1>6 DEF CallFails, CallUnacked, Retry
  <2>2. CASE inserted' = [inserted EXCEPT ![e] = FALSE]
    BY <2>1, <2>2 DEF Claims, TypeOK
  <2> QED
    BY <2>1, <2>2, <1>1 DEF Retry
<1>7. ASSUME NEW e \in Deliveries, UpdateInventory(e)
      PROVE  Claims' \subseteq Claims
  BY <1>7 DEF UpdateInventory, Claims, TypeOK
<1>8. ASSUME NEW e \in Deliveries, PutOrder(e)
      PROVE  \/ d \in Claims
             \/ /\ PutOrder(d)
                /\ Order(d) \notin stored
                /\ Order(d) \in stored'
                /\ \A f \in Claims' : f \in Claims \/ f = d
  BY <1>8 DEF PutOrder, Claims, TypeOK
<1> QED
  BY <1>3, <1>4, <1>5, <1>6, <1>7, <1>8 DEF Next, WorkerStep

LEMMA ClaimedOnceStep ==
    ASSUME TypeOK, ClaimedOnce, [Next]_vars
    PROVE  ClaimedOnce'
<1>1. CASE UNCHANGED vars
  BY <1>1 DEF vars, work, tables, ClaimedOnce, Claims
<1>2. CASE Next
  <2>1. ASSUME NEW d \in Claims'
        PROVE  Order(d) \in stored'
    BY <1>2, <2>1, ClaimStep, RecordedStays DEF ClaimedOnce
  <2>2. ASSUME NEW d \in Claims', NEW e \in Claims', Order(e) = Order(d)
        PROVE  e = d
    <3>1. CASE d \in Claims /\ e \in Claims
      BY <2>2, <3>1 DEF ClaimedOnce
    <3>2. CASE d \notin Claims
      <4>1. Order(d) \notin stored /\ (e \in Claims \/ e = d)
        BY <1>2, <3>2, ClaimStep
      <4> QED
        BY <2>2, <4>1 DEF ClaimedOnce
    <3>3. CASE e \notin Claims
      <4>1. Order(e) \notin stored /\ (d \in Claims \/ d = e)
        BY <1>2, <3>3, ClaimStep
      <4> QED
        BY <2>2, <4>1 DEF ClaimedOnce
    <3> QED
      BY <3>1, <3>2, <3>3
  <2> QED
    BY <2>1, <2>2 DEF ClaimedOnce, Order
<1> QED
  BY <1>1, <1>2

-----------------------------------------------------------------------------
(* Workers write of nothing but valid orders that were received *)

(* A delivery begins with a message, and passes TakeJob before its writes.  *)
LEMMA WorkBegins ==
    ASSUME TypeOK, Next, NEW d \in Deliveries
    PROVE  /\ stage'[d] # "none" => stage[d] # "none" \/ message'[Order(d)] # "unsent"
           /\ stage'[d] \in {"put", "update", "delete"}
                 => \/ stage[d] \in {"put", "update", "delete"}
                    \/ Order(d) \notin Malformed
<1> USE DEF queue, work, tables
<1> DEFINE writing == {"put", "update", "delete"}
           Goes == /\ stage'[d] # "none" => stage[d] # "none"
                   /\ stage'[d] \in writing => stage[d] \in writing
<1>1. ASSUME NEW D, NEW outcome \in {"over", "failed"}, Finish(D, outcome),
             \A e \in D : stage[e] # "none"
      PROVE  Goes
  BY <1>1 DEF Finish
<1>2. ASSUME NEW e \in Deliveries, NEW l \in Stages, GoTo(e, l),
             stage[e] # "none", l \in writing => stage[e] \in writing
      PROVE  Goes
  BY <1>2 DEF GoTo, TypeOK
<1>3. ASSUME UNCHANGED stage PROVE Goes
  BY <1>3
<1>4. ASSUME NEW e \in Deliveries, Retry(e), stage[e] \in writing
      PROVE  Goes
  BY <1>4, <1>1, <1>2 DEF Retry, Stages
<1> HIDE DEF Goes
<1>5. ASSUME Send \/ \E o \in Orders : Expire(o) \/ Redrive(o) PROVE Goes
  BY <1>5, <1>3 DEF Send, Expire, Redrive
<1>6. ASSUME NEW t \in Tasks, Stop(t) PROVE Goes
  BY <1>6, <1>1 DEF Stop, In
<1>7. ASSUME NEW t \in Tasks, Restart(t) PROVE Goes
  BY <1>7, <1>3 DEF Restart
<1>8. ASSUME NEW e \in Deliveries, Enqueue(e) PROVE Goes
  BY <1>8, <1>2 DEF Enqueue, Stages
<1>9. ASSUME NEW e \in Deliveries, PutOrder(e) \/ UpdateInventory(e) PROVE Goes
  BY <1>9, <1>2 DEF PutOrder, UpdateInventory, Stages
<1>10. ASSUME NEW e \in Deliveries, DeleteMessage(e) \/ SaveRejected(e) PROVE Goes
  BY <1>10, <1>1 DEF DeleteMessage, SaveRejected
<1>11. ASSUME NEW e \in Deliveries, CallFails(e) \/ CallUnacked(e) PROVE Goes
  BY <1>11, <1>4 DEF CallFails, CallUnacked
<1>12. ASSUME NEW e \in Deliveries, TakeJob(e)
       PROVE  Goes \/ (e = d /\ stage[d] # "none" /\ Order(d) \notin Malformed)
  <2>1. CASE Finish({e}, "failed")
    BY <1>12, <2>1, <1>1 DEF TakeJob
  <2>2. CASE Order(e) \notin Malformed /\ GoTo(e, "put")
    BY <1>12, <2>2 DEF TakeJob, GoTo, TypeOK, Goes
  <2> QED
    BY <1>12, <2>1, <2>2 DEF TakeJob
<1>13. ASSUME NEW t \in Tasks, Poll(t)
       PROVE  /\ stage'[d] # "none" => stage[d] # "none" \/ message'[Order(d)] # "unsent"
              /\ stage'[d] \in writing => stage[d] \in writing
  <2> PICK S \in SUBSET {o \in Orders : /\ message[o] = "visible"
                                        /\ receives[o] < MaxReceives} :
             /\ message' = [o \in Orders |->
                              IF o \in S THEN "inflight" ELSE message[o]]
             /\ LET new == {<<o, receives[o] + 1>> : o \in S} IN
                \/ stage' = [e \in Deliveries |->
                                IF e \in new THEN "batch" ELSE stage[e]]
                \/ Finish(new, "over")
    BY <1>13 DEF Poll
  <2> DEFINE new == {<<o, receives[o] + 1>> : o \in S}
  <2>1. d \in new => Order(d) \in S /\ Order(d) \in Orders
    BY DEF Order
  <2>2. Order(d) \in S => message'[Order(d)] = "inflight"
    BY <2>1
  <2>3. stage'[d] = stage[d] \/ (d \in new /\ stage'[d] \in {"batch", "over"})
    BY DEF Finish
  <2> QED
    BY <2>1, <2>2, <2>3
<1> QED
  BY <1>5, <1>6, <1>7, <1>8, <1>9, <1>10, <1>11, <1>12, <1>13
     DEF Next, WorkerStep, Goes

(* What is published stays so; done with and buried are final; and nothing  *)
(* is done with but at the end of a delivery.                               *)
Waiting == {"visible", "inflight"}

LEMMA MessageStep ==
    ASSUME TypeOK, Next
    PROVE  \/ Send /\ UNCHANGED <<stored, lastOrder, counted>>
           \/ \E o \in Orders : Redrive(o)
           \/ \E d \in Deliveries : stage[d] = "delete" /\ RemoveMessage(d)
                                   /\ UNCHANGED <<stored, lastOrder, counted>>
           \/ \A o \in Orders : \/ message'[o] = message[o]
                               \/ {message[o], message'[o]} \subseteq Waiting
<1> USE DEF queue, work, tables
<1>1. ASSUME NEW o \in Orders, Expire(o)
      PROVE  \A p \in Orders : \/ message'[p] = message[p]
                              \/ {message[p], message'[p]} \subseteq Waiting
  BY <1>1 DEF Expire, Waiting, TypeOK
<1>2. ASSUME NEW t \in Tasks, Poll(t)
      PROVE  \A p \in Orders : \/ message'[p] = message[p]
                              \/ {message[p], message'[p]} \subseteq Waiting
  BY <1>2 DEF Poll, Waiting
<1>3. ASSUME NEW t \in Tasks, Stop(t) \/ Restart(t)
      PROVE  UNCHANGED message
  BY <1>3 DEF Stop, Restart
<1>4. ASSUME NEW d \in Deliveries,
             \/ Enqueue(d) \/ TakeJob(d) \/ PutOrder(d) \/ UpdateInventory(d)
             \/ CallFails(d) \/ SaveRejected(d)
      PROVE  UNCHANGED message
  BY <1>4 DEF Enqueue, TakeJob, PutOrder, UpdateInventory, CallFails, SaveRejected
<1>5. ASSUME NEW d \in Deliveries, DeleteMessage(d)
      PROVE  stage[d] = "delete" /\ RemoveMessage(d)
             /\ UNCHANGED <<stored, lastOrder, counted>>
  BY <1>5 DEF DeleteMessage
<1>6. ASSUME NEW d \in Deliveries, CallUnacked(d)
      PROVE  \/ stage[d] = "delete" /\ RemoveMessage(d)
                /\ UNCHANGED <<stored, lastOrder, counted>>
             \/ UNCHANGED message
  BY <1>6 DEF CallUnacked
<1>7. Send => UNCHANGED <<stored, lastOrder, counted>>
  BY DEF Send
<1> QED
  BY <1>1, <1>2, <1>3, <1>4, <1>5, <1>6, <1>7 DEF Next, WorkerStep

LEMMA ReceivedStays ==
    ASSUME TypeOK, Next, NEW o \in Orders, message[o] # "unsent"
    PROVE  message'[o] # "unsent"
<1> USE DEF queue, work, tables
<1>1. CASE Send
  BY <1>1 DEF Send
<1>2. CASE \E p \in Orders : Redrive(p)
  BY <1>2 DEF Redrive, TypeOK
<1>3. ASSUME NEW d \in Deliveries, RemoveMessage(d) PROVE message'[o] # "unsent"
  BY <1>3 DEF RemoveMessage, TypeOK
<1>4. CASE \A p \in Orders : \/ message'[p] = message[p]
                            \/ {message[p], message'[p]} \subseteq Waiting
  BY <1>4 DEF Waiting
<1> QED
  BY <1>1, <1>2, <1>3, <1>4, MessageStep

LEMMA ReceivedStep ==
    ASSUME TypeOK, WorkIsReceived, [Next]_vars
    PROVE  WorkIsReceived'
<1>1. CASE UNCHANGED vars
  BY <1>1 DEF vars, queue, work, WorkIsReceived
<1>2. CASE Next
  <2>1. \A d \in Deliveries : Order(d) \in Orders
    BY DEF Order, Deliveries
  <2>2. ASSUME NEW d \in Deliveries
        PROVE  /\ stage'[d] # "none" => message'[Order(d)] # "unsent"
               /\ stage'[d] \in {"put", "update", "delete"}
                     => Order(d) \notin Malformed
    BY <1>2, <2>1, <2>2, WorkBegins, ReceivedStays DEF WorkIsReceived
  <2> QED
    BY <2>2 DEF WorkIsReceived
<1> QED
  BY <1>1, <1>2

-----------------------------------------------------------------------------
(* The inductive invariant and its consequences *)

LEMMA WorkerInvInit == Init => WorkerInv
<1> SUFFICES ASSUME Init PROVE WorkerInv
  OBVIOUS
<1>1. TypeOK
  BY TypeInit
<1>2. WritesInOrder /\ DeletedIsRecorded
  BY DEF Init, WritesInOrder, DeletedIsRecorded
<1>3. ClaimedOnce
  BY DEF Init, ClaimedOnce, Claims
<1>4. WorkIsReceived
  BY DEF Init, WorkIsReceived
<1> QED
  BY <1>1, <1>2, <1>3, <1>4 DEF WorkerInv

LEMMA WorkerInvStep == WorkerInv /\ [Next]_vars => WorkerInv'
BY TypeStep, WritesStep, DeletedStep, ClaimedOnceStep, ReceivedStep DEF WorkerInv

(* For any number of orders, tasks, workers, attempts and redeliveries and   *)
(* every fault, the inductive invariant of the worker holds.                *)
THEOREM WorkerSafe == Spec => []WorkerInv
<1> QED
  BY WorkerInvInit, WorkerInvStep, PTL DEF Spec

(* No message leaves the queue by deletion before its order is stored and   *)
(* counted.                                                                 *)
THEOREM DeletedRecorded == Spec => []DeletedIsRecorded
<1>1. WorkerInv => DeletedIsRecorded
  BY DEF WorkerInv
<1> QED
  BY <1>1, WorkerSafe, PTL

(* Of all deliveries of an order, on whatever tasks, at most one reports it *)
(* as confirmed, and the order is then in the table.                        *)
THEOREM Confirmed == Spec => []ConfirmedOnce
<1>1. WorkerInv => ConfirmedOnce
  BY DEF WorkerInv, ClaimedOnce, ConfirmedOnce, Claims
<1> QED
  BY <1>1, WorkerSafe, PTL

-----------------------------------------------------------------------------
(* The audit counter *)

(* Receipts of o that may yet count it, and the attempts they have left.    *)
Pending    == {"batch", "jobs", "put", "update"}
Owed(o)    == {n \in 1..MaxReceives : stage[<<o, n>>] \in Pending}
Chances(o) == {c \in (1..MaxReceives) \X (1..RetryAttempts) :
                 stage[<<o, c[1]>>] \in Pending /\ tries[<<o, c[1]>>] <= c[2]}

(* An order is counted at the cost of a receipt, or of an attempt if an     *)
(* update went unanswered.                                                  *)
PaidFor(o) ==
    /\ counted[o] >= 1 => o \in stored
    /\ o \notin unacked => counted[o] + Cardinality(Owed(o)) <= receives[o]
    /\ counted[o] + Cardinality(Chances(o)) <= receives[o] * RetryAttempts

EveryCountPaid == \A o \in Orders : PaidFor(o)

LEMMA CountTools ==
    ASSUME TypeOK, NEW o \in Orders
    PROVE  /\ counted[o] \in Nat /\ receives[o] \in Nat
           /\ RetryAttempts \in Nat \ {0} /\ receives[o] * RetryAttempts \in Nat
           /\ IsFiniteSet(Owed(o)) /\ Cardinality(Owed(o)) \in Nat
           /\ IsFiniteSet(Chances(o)) /\ Cardinality(Chances(o)) \in Nat
<1>1. counted[o] \in Nat /\ receives[o] \in Nat /\ RetryAttempts \in Nat \ {0}
  BY WorkerAssumption DEF TypeOK
<1>2. \A a, c \in Nat : a * c \in Nat
  OBVIOUS
<1>3. IsFiniteSet(1..MaxReceives) /\ IsFiniteSet(1..RetryAttempts)
  BY WorkerAssumption, FS_Interval
<1>4. IsFiniteSet((1..MaxReceives) \X (1..RetryAttempts))
  BY <1>3, FS_Product
<1>5. IsFiniteSet(Owed(o)) /\ IsFiniteSet(Chances(o))
  BY <1>3, <1>4, FS_Subset DEF Owed, Chances
<1> QED
  BY <1>1, <1>2, <1>5, FS_CardinalityType

(* No receipt of o comes to owe more. *)
Softens(d) == stage'[d] \in Pending => stage[d] \in Pending /\ tries[d] <= tries'[d]

LEMMA SofterOwes ==
    ASSUME TypeOK, TypeOK', NEW o \in Orders, NEW N \in SUBSET (1..MaxReceives),
           \A n \in (1..MaxReceives) \ N : Softens(<<o, n>>)
    PROVE  /\ Owed(o)' \subseteq Owed(o) \cup N
           /\ Chances(o)' \subseteq Chances(o) \cup (N \X (1..RetryAttempts))
<1>1. \A n \in 1..MaxReceives :
         <<o, n>> \in Deliveries /\ tries[<<o, n>>] \in Nat /\ tries'[<<o, n>>] \in Nat
  BY WorkerAssumption DEF TypeOK, Deliveries
<1>2. Owed(o)' \subseteq Owed(o) \cup N
  BY DEF Owed, Softens
<1>3. ASSUME NEW c \in Chances(o)'
      PROVE  c \in Chances(o) \cup (N \X (1..RetryAttempts))
  <2>1. /\ c \in (1..MaxReceives) \X (1..RetryAttempts) /\ c[2] \in Nat
        /\ stage'[<<o, c[1]>>] \in Pending /\ tries'[<<o, c[1]>>] <= c[2]
    BY <1>3, WorkerAssumption DEF Chances
  <2>2. CASE c[1] \in N
    BY <2>1, <2>2
  <2>3. CASE c[1] \notin N
    <3>1. c[1] \in (1..MaxReceives) \ N
      BY <2>1, <2>3
    <3>2. stage[<<o, c[1]>>] \in Pending /\ tries[<<o, c[1]>>] <= tries'[<<o, c[1]>>]
      BY <2>1, <3>1 DEF Softens
    <3>3. tries[<<o, c[1]>>] <= c[2]
      BY <1>1, <2>1, <3>1, <3>2
    <3> QED
      BY <2>1, <3>2, <3>3 DEF Chances
  <2> QED
    BY <2>2, <2>3
<1> QED
  BY <1>2, <1>3

LEMMA NoneOwesMore ==
    ASSUME TypeOK, TypeOK', NEW o \in Orders,
           \A n \in 1..MaxReceives : Softens(<<o, n>>)
    PROVE  Owed(o)' \subseteq Owed(o) /\ Chances(o)' \subseteq Chances(o)
<1> DEFINE N == {}
<1>1. N \in SUBSET (1..MaxReceives) /\ \A n \in (1..MaxReceives) \ N : Softens(<<o, n>>)
  OBVIOUS
<1> HIDE DEF N
<1>2. /\ Owed(o)' \subseteq Owed(o) \cup N
      /\ Chances(o)' \subseteq Chances(o) \cup (N \X (1..RetryAttempts))
  BY <1>1, SofterOwes
<1> QED
  BY <1>2 DEF N

LEMMA PaidStays ==
    ASSUME TypeOK, TypeOK', NEW o \in Orders, PaidFor(o),
           counted'[o] = counted[o], receives'[o] = receives[o],
           unacked \subseteq unacked', stored \subseteq stored',
           \A n \in 1..MaxReceives : Softens(<<o, n>>)
    PROVE  PaidFor(o)'
<1>1. Owed(o)' \subseteq Owed(o) /\ Chances(o)' \subseteq Chances(o)
  BY NoneOwesMore
<1>2. /\ Cardinality(Owed(o)') <= Cardinality(Owed(o))
      /\ Cardinality(Chances(o)') <= Cardinality(Chances(o))
      /\ Cardinality(Owed(o)') \in Nat /\ Cardinality(Chances(o)') \in Nat
  BY <1>1, CountTools, FS_Subset, FS_CardinalityType
<1> QED
  BY <1>2, CountTools DEF PaidFor

(* A receipt pays for one count, or for one per attempt. *)
LEMMA PaidByReceipt ==
    ASSUME TypeOK, TypeOK', NEW o \in Orders, PaidFor(o), NEW n \in 1..MaxReceives,
           counted'[o] = counted[o], receives'[o] = receives[o] + 1,
           unacked \subseteq unacked', stored \subseteq stored',
           \A k \in (1..MaxReceives) \ {n} : Softens(<<o, k>>)
    PROVE  PaidFor(o)'
<1> DEFINE N == {n} \X (1..RetryAttempts)
<1>1. Owed(o)' \subseteq Owed(o) \cup {n} /\ Chances(o)' \subseteq Chances(o) \cup N
  <2> DEFINE M == {n}
  <2>1. M \in SUBSET (1..MaxReceives) /\ \A k \in (1..MaxReceives) \ M : Softens(<<o, k>>)
    OBVIOUS
  <2> HIDE DEF M
  <2>2. /\ Owed(o)' \subseteq Owed(o) \cup M
        /\ Chances(o)' \subseteq Chances(o) \cup (M \X (1..RetryAttempts))
    BY <2>1, SofterOwes
  <2> QED
    BY <2>2 DEF M
<1>2. IsFiniteSet({n}) /\ Cardinality({n}) = 1
  BY FS_Singleton
<1>3. IsFiniteSet(1..RetryAttempts) /\ Cardinality(1..RetryAttempts) = RetryAttempts
  BY WorkerAssumption, FS_Interval
<1>4. IsFiniteSet(N) /\ Cardinality(N) = RetryAttempts
  <2>1. /\ IsFiniteSet(N)
        /\ Cardinality(N) = Cardinality({n}) * Cardinality(1..RetryAttempts)
    BY <1>2, <1>3, FS_Product, Zenon
  <2>2. Cardinality(N) = 1 * RetryAttempts
    BY <1>2, <1>3, <2>1, Zenon
  <2> QED
    BY <2>1, <2>2, CountTools
<1> HIDE DEF N
<1>5. /\ Cardinality(Owed(o)') <= Cardinality(Owed(o) \cup {n})
      /\ Cardinality(Owed(o)') \in Nat
  BY <1>1, <1>2, CountTools, FS_Union, FS_Subset, FS_CardinalityType
<1>6. /\ Cardinality(Chances(o)') <= Cardinality(Chances(o) \cup N)
      /\ Cardinality(Chances(o)') \in Nat
  BY <1>1, <1>4, CountTools, FS_Union, FS_Subset, FS_CardinalityType
<1>7. Cardinality(Owed(o) \cup {n}) <= Cardinality(Owed(o)) + 1
  <2>1. Cardinality(Owed(o) \cup {n}) =
           Cardinality(Owed(o)) + Cardinality({n}) - Cardinality(Owed(o) \cap {n})
    BY <1>2, CountTools, FS_Union
  <2>2. Cardinality(Owed(o) \cap {n}) \in Nat
    BY <1>2, FS_Intersection, FS_CardinalityType, CountTools
  <2> QED
    BY <1>2, <2>1, <2>2, CountTools
<1>8. Cardinality(Chances(o) \cup N) <= Cardinality(Chances(o)) + RetryAttempts
  <2>1. Cardinality(Chances(o) \cup N) =
           Cardinality(Chances(o)) + Cardinality(N) - Cardinality(Chances(o) \cap N)
    BY <1>4, CountTools, FS_Union
  <2>2. Cardinality(Chances(o) \cap N) \in Nat
    BY <1>4, FS_Intersection, FS_CardinalityType, CountTools
  <2> QED
    BY <1>4, <2>1, <2>2, CountTools
<1>9. (receives[o] + 1) * RetryAttempts = receives[o] * RetryAttempts + RetryAttempts
  <2>1. \A a, c \in Nat : (a + 1) * c = a * c + c
    OBVIOUS
  <2> QED
    BY <2>1, CountTools
<1>10. /\ Cardinality(Owed(o) \cup {n}) \in Nat
       /\ Cardinality(Chances(o) \cup N) \in Nat
  BY <1>2, <1>4, CountTools, FS_Union, FS_CardinalityType
<1>11. o \notin unacked'
          => counted'[o] + Cardinality(Owed(o)') <= receives'[o]
  BY <1>5, <1>7, <1>10, CountTools DEF PaidFor
<1>12. counted'[o] + Cardinality(Chances(o)') <= receives'[o] * RetryAttempts
  <2>1. receives'[o] * RetryAttempts = receives[o] * RetryAttempts + RetryAttempts
    BY <1>9
  <2>2. counted[o] + Cardinality(Chances(o)) <= receives[o] * RetryAttempts
    BY DEF PaidFor
  <2> QED
    BY <1>6, <1>8, <1>10, <2>1, <2>2, CountTools
<1> QED
  BY <1>11, <1>12 DEF PaidFor

(* An update spends an attempt, and the receipt if it is answered.          *)
LEMMA PaidByAttempt ==
    ASSUME TypeOK, TypeOK', NEW o \in Orders, PaidFor(o), NEW n \in 1..MaxReceives,
           counted'[o] <= counted[o] + 1, receives'[o] = receives[o],
           unacked \subseteq unacked', o \in stored',
           stage[<<o, n>>] = "update",
           \A k \in 1..MaxReceives : Softens(<<o, k>>),
           stage'[<<o, n>>] \notin Pending \/ tries[<<o, n>>] < tries'[<<o, n>>],
           stage'[<<o, n>>] \notin Pending \/ o \in unacked'
    PROVE  PaidFor(o)'
<1> DEFINE c == <<n, tries[<<o, n>>]>>
<1>0. /\ <<o, n>> \in Deliveries
      /\ tries[<<o, n>>] \in 1..RetryAttempts /\ tries'[<<o, n>>] \in 1..RetryAttempts
  BY DEF TypeOK, Deliveries
<1>1. Owed(o)' \subseteq Owed(o) /\ Chances(o)' \subseteq Chances(o)
  BY NoneOwesMore
<1>2. c \in Chances(o) /\ n \in Owed(o)
  BY <1>0, WorkerAssumption DEF Chances, Owed, Pending
<1>3. c \notin Chances(o)'
  BY <1>0, WorkerAssumption DEF Chances
<1> HIDE DEF c
<1>4. Cardinality(Chances(o) \ {c}) = Cardinality(Chances(o)) - 1
  BY <1>2, CountTools, FS_RemoveElement
<1>5. /\ Cardinality(Chances(o)') <= Cardinality(Chances(o) \ {c})
      /\ Cardinality(Chances(o)') \in Nat
  <2>1. Chances(o)' \subseteq Chances(o) \ {c} /\ IsFiniteSet(Chances(o) \ {c})
    BY <1>1, <1>3, CountTools, FS_Subset
  <2> QED
    BY <2>1, FS_Subset, FS_CardinalityType
<1>6. counted'[o] \in Nat
  BY DEF TypeOK
<1>7. counted'[o] + Cardinality(Chances(o)') <= receives'[o] * RetryAttempts
  BY <1>4, <1>5, <1>6, CountTools DEF PaidFor
<1>8. ASSUME o \notin unacked'
      PROVE  counted'[o] + Cardinality(Owed(o)') <= receives'[o]
  <2>1. n \notin Owed(o)' /\ o \notin unacked
    BY <1>8 DEF Owed
  <2>2. Cardinality(Owed(o) \ {n}) = Cardinality(Owed(o)) - 1
    BY <1>2, CountTools, FS_RemoveElement
  <2>3. Owed(o)' \subseteq Owed(o) \ {n} /\ IsFiniteSet(Owed(o) \ {n})
    BY <1>1, <2>1, CountTools, FS_Subset
  <2>4. Cardinality(Owed(o)') <= Cardinality(Owed(o) \ {n}) /\ Cardinality(Owed(o)') \in Nat
    BY <2>3, FS_Subset, FS_CardinalityType
  <2> QED
    BY <1>6, <2>1, <2>2, <2>4, CountTools DEF PaidFor
<1> QED
  BY <1>7, <1>8 DEF PaidFor

LEMMA FinishSoftens ==
    ASSUME TypeOK, NEW D, NEW outcome \in {"over", "failed"}, Finish(D, outcome)
    PROVE  \A e \in Deliveries : Softens(e)
<1> SUFFICES ASSUME NEW e \in Deliveries PROVE Softens(e)
  OBVIOUS
<1>1. tries[e] \in Nat
  BY WorkerAssumption DEF TypeOK
<1>2. CASE e \in D
  BY <1>2 DEF Finish, Softens, Pending
<1>3. CASE e \notin D
  BY <1>1, <1>3 DEF Finish, Softens
<1> QED
  BY <1>2, <1>3

LEMMA RetrySoftens ==
    ASSUME TypeOK, NEW d \in Deliveries, stage[d] \in {"put", "update", "delete"},
           Retry(d)
    PROVE  /\ \A e \in Deliveries : Softens(e)
           /\ stage'[d] \notin Pending \/ tries[d] < tries'[d]
<1>1. CASE Finish({d}, "failed")
  BY <1>1, FinishSoftens DEF Finish, Pending
<1>2. CASE /\ tries' = [tries EXCEPT ![d] = @ + 1]
           /\ GoTo(d, IF stage[d] = "delete" THEN "delete" ELSE "put")
  <2>1. \A e \in Deliveries : tries[e] \in Nat
    BY WorkerAssumption DEF TypeOK
  <2>2. tries'[d] = tries[d] + 1 /\ \A e \in Deliveries : e # d => tries'[e] = tries[e]
    BY <1>2 DEF TypeOK
  <2>3. /\ stage'[d] = IF stage[d] = "delete" THEN "delete" ELSE "put"
        /\ \A e \in Deliveries : e # d => stage'[e] = stage[e]
    BY <1>2 DEF GoTo, TypeOK
  <2> QED
    BY <2>1, <2>2, <2>3 DEF Softens, Pending
<1> QED
  BY <1>1, <1>2 DEF Retry

(* A delivery that goes on without a new attempt. *)
LEMMA GoOnSoftens ==
    ASSUME TypeOK, NEW d \in Deliveries, stage[d] \in Pending, NEW label,
           GoTo(d, label), UNCHANGED tries
    PROVE  \A e \in Deliveries : Softens(e)
<1>1. \A e \in Deliveries : tries[e] \in Nat
  BY WorkerAssumption DEF TypeOK
<1> QED
  BY <1>1 DEF GoTo, TypeOK, Softens

LEMMA CountGrows ==
    ASSUME TypeOK, NEW d \in Deliveries, CountOrder(Order(d))
    PROVE  /\ Order(d) \in Orders /\ counted'[Order(d)] <= counted[Order(d)] + 1
           /\ \A o \in Orders : o # Order(d) => counted'[o] = counted[o]
<1>1. Order(d) \in Orders
  BY DEF Order, Deliveries
<1>2. counted[Order(d)] \in Nat
  BY <1>1 DEF TypeOK
<1> QED
  BY <1>1, <1>2 DEF CountOrder, TypeOK

(* The update of a delivery is paid for by its attempt. *)
LEMMA PaidUpdate ==
    ASSUME TypeOK, TypeOK', WritesInOrder, EveryCountPaid, NEW d \in Deliveries,
           stage[d] = "update", CountOrder(Order(d)), UNCHANGED receives,
           unacked \subseteq unacked', \A e \in Deliveries : Softens(e),
           stage'[d] \notin Pending \/ tries[d] < tries'[d],
           stage'[d] \notin Pending \/ Order(d) \in unacked'
    PROVE  EveryCountPaid'
<1>1. stored' = stored /\ Order(d) \in stored
  BY DEF CountOrder, WritesInOrder
<1>2. PICK n \in 1..MaxReceives : d = <<Order(d), n>>
  BY DEF Deliveries, Order
<1>3. \A o \in Orders : \A k \in 1..MaxReceives : <<o, k>> \in Deliveries
  BY DEF Deliveries
<1>4. ASSUME NEW o \in Orders, o # Order(d) PROVE PaidFor(o)'
  <2>1. counted'[o] = counted[o] /\ receives'[o] = receives[o]
    BY <1>4, CountGrows
  <2>2. \A k \in 1..MaxReceives : Softens(<<o, k>>)
    BY <1>3
  <2> QED
    BY <1>1, <2>1, <2>2, PaidStays DEF EveryCountPaid
<1>5. PaidFor(Order(d))'
  <2> DEFINE o == Order(d)
  <2>1. /\ o \in Orders /\ counted'[o] <= counted[o] + 1
        /\ receives'[o] = receives[o] /\ o \in stored'
    BY <1>1, CountGrows
  <2>2. \A k \in 1..MaxReceives : Softens(<<o, k>>)
    BY <1>3, <2>1
  <2>3. /\ stage[<<o, n>>] = "update"
        /\ stage'[<<o, n>>] \notin Pending \/ tries[<<o, n>>] < tries'[<<o, n>>]
        /\ stage'[<<o, n>>] \notin Pending \/ o \in unacked'
    BY <1>2
  <2>4. PaidFor(o)
    BY <2>1 DEF EveryCountPaid
  <2> HIDE DEF o
  <2>5. PaidFor(o)'
    BY <2>1, <2>2, <2>3, <2>4, PaidByAttempt
  <2> QED
    BY <2>5 DEF o, PaidFor, Owed, Chances, Order
<1> QED
  BY <1>4, <1>5 DEF EveryCountPaid, PaidFor, Owed, Chances, Order

LEMMA PaidWithout ==
    ASSUME TypeOK, TypeOK', EveryCountPaid, UNCHANGED <<counted, receives>>,
           unacked \subseteq unacked', stored \subseteq stored',
           \A e \in Deliveries : Softens(e)
    PROVE  EveryCountPaid'
<1>1. ASSUME NEW o \in Orders PROVE PaidFor(o)'
  <2>1. \A k \in 1..MaxReceives : Softens(<<o, k>>)
    BY DEF Deliveries
  <2> QED
    BY <2>1, PaidStays DEF EveryCountPaid
<1> QED
  BY <1>1 DEF EveryCountPaid, PaidFor, Owed, Chances

LEMMA PaidPoll ==
    ASSUME TypeOK, TypeOK', EveryCountPaid, NEW t \in Tasks, Poll(t)
    PROVE  EveryCountPaid'
<1>1. PICK S \in SUBSET {o \in Orders : /\ message[o] = "visible"
                                      /\ receives[o] < MaxReceives} :
           /\ receives' = [o \in Orders |->
                             IF o \in S THEN receives[o] + 1 ELSE receives[o]]
           /\ LET new == {<<o, receives[o] + 1>> : o \in S} IN
              \/ /\ stage' = [d \in Deliveries |->
                                IF d \in new THEN "batch" ELSE stage[d]]
                 /\ UNCHANGED <<tries, inserted>>
              \/ "lost_reply" \in Faults /\ Finish(new, "over")
  BY DEF Poll
<1> DEFINE new == {<<o, receives[o] + 1>> : o \in S}
<1>2. UNCHANGED <<stored, counted, unacked>>
  BY DEF Poll, tables
<1>3. ASSUME NEW d \in Deliveries, d \notin new PROVE Softens(d)
  <2>1. tries[d] \in Nat
    BY WorkerAssumption DEF TypeOK
  <2>2. CASE Finish(new, "over")
    BY <2>2, FinishSoftens
  <2>3. CASE /\ stage' = [e \in Deliveries |->
                            IF e \in new THEN "batch" ELSE stage[e]]
             /\ UNCHANGED tries
    <3> HIDE DEF new
    <3> QED
      BY <1>3, <2>1, <2>3 DEF Softens
  <2> QED
    BY <1>1, <2>2, <2>3
<1>4. ASSUME NEW o \in S PROVE PaidFor(o)'
  <2> DEFINE n == receives[o] + 1
  <2>1. o \in Orders /\ n \in 1..MaxReceives
    BY WorkerAssumption DEF TypeOK
  <2>2. receives'[o] = receives[o] + 1 /\ counted'[o] = counted[o]
    BY <1>1, <1>2, <2>1
  <2>3. ASSUME NEW k \in (1..MaxReceives) \ {n} PROVE Softens(<<o, k>>)
    <3>1. <<o, k>> \in Deliveries /\ <<o, k>> \notin new
      BY <2>1, <2>3 DEF Deliveries
    <3> QED
      BY <1>3, <3>1
  <2> HIDE DEF n
  <2> QED
    BY <1>2, <2>1, <2>2, <2>3, PaidByReceipt DEF EveryCountPaid
<1>5. ASSUME NEW o \in Orders, o \notin S PROVE PaidFor(o)'
  <2>1. receives'[o] = receives[o] /\ counted'[o] = counted[o]
    BY <1>1, <1>2, <1>5
  <2>2. ASSUME NEW k \in 1..MaxReceives PROVE Softens(<<o, k>>)
    <3>1. <<o, k>> \in Deliveries /\ <<o, k>> \notin new
      BY <1>5 DEF Deliveries
    <3> QED
      BY <1>3, <3>1
  <2> QED
    BY <1>2, <2>1, <2>2, PaidStays DEF EveryCountPaid
<1> QED
  BY <1>4, <1>5 DEF EveryCountPaid, PaidFor, Owed, Chances

LEMMA PaidWorker ==
    ASSUME TypeOK, TypeOK', WritesInOrder, EveryCountPaid, stored \subseteq stored',
           NEW d \in Deliveries, WorkerStep(d)
    PROVE  EveryCountPaid'
<1> USE DEF queue, tables
<1>1. CASE TakeJob(d)
  <2>1. \A e \in Deliveries : Softens(e)
    <3>1. CASE Finish({d}, "failed")
      BY <3>1, FinishSoftens
    <3>2. CASE GoTo(d, "put") /\ UNCHANGED tries
      BY <1>1, <3>2, GoOnSoftens DEF TakeJob, Pending
    <3> QED
      BY <1>1, <3>1, <3>2 DEF TakeJob
  <2> QED
    BY <1>1, <2>1, PaidWithout DEF TakeJob
<1>2. CASE PutOrder(d)
  <2>1. \A e \in Deliveries : Softens(e)
    BY <1>2, GoOnSoftens DEF PutOrder, Pending
  <2> QED
    BY <1>2, <2>1, PaidWithout DEF PutOrder
<1>3. CASE UpdateInventory(d)
  <2>1. \A e \in Deliveries : e # d => stage'[e] = stage[e] /\ tries'[e] = tries[e]
    BY <1>3 DEF UpdateInventory, GoTo, TypeOK
  <2>2. stage'[d] = "delete" /\ "delete" \notin Pending
    BY <1>3 DEF UpdateInventory, GoTo, TypeOK, Pending
  <2>3. \A e \in Deliveries : tries[e] \in Nat
    BY WorkerAssumption DEF TypeOK
  <2>4. \A e \in Deliveries : Softens(e)
    BY <2>1, <2>2, <2>3 DEF Softens
  <2> QED
    BY <1>3, <2>2, <2>4, PaidUpdate DEF UpdateInventory
<1>4. CASE DeleteMessage(d) \/ SaveRejected(d)
  <2>1. \A e \in Deliveries : Softens(e)
    BY <1>4, FinishSoftens DEF DeleteMessage, SaveRejected
  <2> QED
    BY <1>4, <2>1, PaidWithout DEF DeleteMessage, SaveRejected
<1>5. CASE CallFails(d)
  <2>1. \A e \in Deliveries : Softens(e)
    BY <1>5, RetrySoftens DEF CallFails
  <2> QED
    BY <1>5, <2>1, PaidWithout DEF CallFails
<1>6. CASE CallUnacked(d)
  <2>1. /\ \A e \in Deliveries : Softens(e)
        /\ stage'[d] \notin Pending \/ tries[d] < tries'[d]
    BY <1>6, RetrySoftens DEF CallUnacked
  <2>2. CASE stage[d] = "update"
    BY <1>6, <2>1, <2>2, PaidUpdate DEF CallUnacked
  <2>3. CASE stage[d] # "update"
    <3>1. UNCHANGED <<counted, receives, unacked>>
      BY <1>6, <2>3 DEF CallUnacked
    <3> QED
      BY <2>1, <3>1, PaidWithout
  <2> QED
    BY <2>2, <2>3
<1> QED
  BY <1>1, <1>2, <1>3, <1>4, <1>5, <1>6 DEF WorkerStep

LEMMA PaidStep ==
    ASSUME TypeOK, WritesInOrder, EveryCountPaid, [Next]_vars
    PROVE  EveryCountPaid'
<1> USE DEF queue, work, tables
<1>0. TypeOK' /\ stored \subseteq stored'
  BY TypeStep, RecordedStays
<1>1. CASE UNCHANGED <<counted, receives, unacked, stage, tries>>
  <2>1. \A e \in Deliveries : Softens(e)
    <3>1. \A e \in Deliveries : tries[e] \in Nat
      BY WorkerAssumption DEF TypeOK
    <3> QED
      BY <1>1, <3>1 DEF Softens
  <2> QED
    BY <1>0, <1>1, <2>1, PaidWithout
<1>2. ASSUME Send \/ \E o \in Orders : Expire(o) \/ Redrive(o)
      PROVE  EveryCountPaid'
  BY <1>1, <1>2 DEF Send, Expire, Redrive
<1>3. ASSUME NEW t \in Tasks, Poll(t) PROVE EveryCountPaid'
  BY <1>0, <1>3, PaidPoll
<1>4. ASSUME NEW t \in Tasks, Stop(t) PROVE EveryCountPaid'
  <2>1. \A e \in Deliveries : Softens(e)
    BY <1>4, FinishSoftens DEF Stop
  <2> QED
    BY <1>0, <1>4, <2>1, PaidWithout DEF Stop
<1>5. ASSUME NEW t \in Tasks, Restart(t) PROVE EveryCountPaid'
  BY <1>1, <1>5 DEF Restart
<1>6. ASSUME NEW d \in Deliveries, Enqueue(d) PROVE EveryCountPaid'
  <2>1. \A e \in Deliveries : Softens(e)
    BY <1>6, GoOnSoftens DEF Enqueue, Pending
  <2> QED
    BY <1>0, <1>6, <2>1, PaidWithout DEF Enqueue
<1>7. ASSUME NEW d \in Deliveries, WorkerStep(d) PROVE EveryCountPaid'
  BY <1>0, <1>7, PaidWorker
<1>8. CASE UNCHANGED vars
  BY <1>1, <1>8 DEF vars
<1> QED
  BY <1>2, <1>3, <1>4, <1>5, <1>6, <1>7, <1>8 DEF Next

LEMMA PaidInit == Init => EveryCountPaid
<1> SUFFICES ASSUME Init, NEW o \in Orders PROVE PaidFor(o)
  BY DEF EveryCountPaid
<1>1. Owed(o) = {} /\ Chances(o) = {}
  BY DEF Init, Owed, Chances, Pending, Deliveries
<1>2. Cardinality({}) = 0
  BY FS_EmptySet
<1>3. 0 * RetryAttempts = 0
  BY WorkerAssumption
<1> QED
  BY <1>1, <1>2, <1>3 DEF Init, PaidFor

(* An order is counted more often than it was received only after an update *)
(* that went unanswered, and never more often than there were attempts      *)
(* (dynamodb.go:58), for any number of tasks and under every fault; what    *)
(* the AWS SDK may resend inside one attempt is not modelled.               *)
THEOREM Overcounts == Spec => []OvercountExplained
<1>1. WorkerInv /\ EveryCountPaid /\ [Next]_vars => EveryCountPaid'
  BY PaidStep DEF WorkerInv
<1>2. WorkerInv /\ EveryCountPaid => OvercountExplained
  BY CountTools DEF WorkerInv, EveryCountPaid, PaidFor, OvercountExplained
<1> QED
  BY <1>1, <1>2, PaidInit, WorkerSafe, PTL DEF Spec

-----------------------------------------------------------------------------
(* The worker implements Fulfilment *)

received == {o \in Orders : message[o] # "unsent"}
done     == {o \in Orders : message[o] = "deleted"}
buried   == {o \in Orders : message[o] = "dlq"}

Books == <<stored, lastOrder, counted>>
Ends  == <<received, done, buried>>

(* The tables change by one write of one delivery.                          *)
LEMMA TableStep ==
    ASSUME TypeOK, Next
    PROVE  \/ UNCHANGED Books
           \/ \E d \in Deliveries :
                 /\ stage[d] = "put"
                 /\ stored' = stored \cup {Order(d)}
                 /\ UNCHANGED <<lastOrder, counted, message>>
           \/ \E d \in Deliveries :
                 /\ stage[d] = "update"
                 /\ CountOrder(Order(d))
                 /\ UNCHANGED message
<1> USE DEF queue, work, tables, Books
<1>1. ASSUME Send \/ \E o \in Orders : Expire(o) \/ Redrive(o)
      PROVE  UNCHANGED Books
  BY <1>1 DEF Send, Expire, Redrive
<1>2. ASSUME NEW t \in Tasks, Poll(t) \/ Stop(t) \/ Restart(t)
      PROVE  UNCHANGED Books
  BY <1>2 DEF Poll, Stop, Restart
<1>3. ASSUME NEW d \in Deliveries,
             \/ Enqueue(d) \/ TakeJob(d) \/ DeleteMessage(d)
             \/ CallFails(d) \/ SaveRejected(d)
      PROVE  UNCHANGED Books
  BY <1>3 DEF Enqueue, TakeJob, DeleteMessage, CallFails, SaveRejected
<1>4. ASSUME NEW d \in Deliveries, PutOrder(d)
      PROVE  /\ stage[d] = "put"
             /\ stored' = stored \cup {Order(d)}
             /\ UNCHANGED <<lastOrder, counted, message>>
  BY <1>4 DEF PutOrder
<1>5. ASSUME NEW d \in Deliveries, UpdateInventory(d)
      PROVE  stage[d] = "update" /\ CountOrder(Order(d)) /\ UNCHANGED message
  BY <1>5 DEF UpdateInventory
<1>6. ASSUME NEW d \in Deliveries, CallUnacked(d)
      PROVE  \/ /\ stage[d] = "put"
                /\ stored' = stored \cup {Order(d)}
                /\ UNCHANGED <<lastOrder, counted, message>>
             \/ stage[d] = "update" /\ CountOrder(Order(d)) /\ UNCHANGED message
             \/ UNCHANGED Books
  BY <1>6 DEF CallUnacked
<1> QED
  BY <1>1, <1>2, <1>3, <1>4, <1>5, <1>6 DEF Next, WorkerStep

(* A message that only waits leaves the abstract order where it is.         *)
LEMMA EndsStay ==
    ASSUME \A o \in Orders : \/ message'[o] = message[o]
                             \/ {message[o], message'[o]} \subseteq Waiting
    PROVE  UNCHANGED Ends
<1>1. \A o \in Orders :
         /\ message'[o] # "unsent" <=> message[o] # "unsent"
         /\ message'[o] = "deleted" <=> message[o] = "deleted"
         /\ message'[o] = "dlq" <=> message[o] = "dlq"
  BY DEF Waiting
<1> QED
  BY <1>1, Zenon DEF Ends, received, done, buried

LEMMA FulfilmentStep ==
    ASSUME WorkerInv, Next
    PROVE  \/ FulfilmentPromise!Next
           \/ UNCHANGED FulfilmentPromise!fulfilmentVars
<1> USE DEF WorkerInv
<1>0. \A d \in Deliveries : Order(d) \in Orders
  BY DEF Order, Deliveries
<1> DEFINE Step == FulfilmentPromise!Next
           Idle == UNCHANGED FulfilmentPromise!fulfilmentVars
<1>1. CASE Send /\ UNCHANGED Books
  <2>1. PICK S \in SUBSET {o \in Orders : message[o] = "unsent"} :
           message' = [o \in Orders |->
                         IF o \in S THEN "visible" ELSE message[o]]
    BY <1>1 DEF Send
  <2>2. /\ S \in SUBSET (Orders \ received)
        /\ received' = received \cup S
        /\ done' = done /\ buried' = buried
    BY <2>1 DEF received, done, buried
  <2>3. FulfilmentPromise!Receive
    BY <1>1, <2>2
       DEF FulfilmentPromise!Receive, received, done, buried, Books
  <2> QED
    BY <2>3 DEF FulfilmentPromise!Next
<1>2. ASSUME NEW o \in Orders, Redrive(o)
      PROVE  Step
  <2>1. /\ o \in FulfilmentPromise!Open
        /\ received' = received /\ done' = done /\ buried' = buried \cup {o}
        /\ UNCHANGED Books
    BY <1>2 DEF Redrive, FulfilmentPromise!Open, TypeOK, tables, received, done,
                buried, Books
  <2>2. FulfilmentPromise!Bury(o)
    BY <2>1 DEF FulfilmentPromise!Bury, received, done, buried, Books
  <2> QED
    BY <2>2 DEF FulfilmentPromise!Next
<1>3. ASSUME NEW d \in Deliveries, stage[d] = "delete", RemoveMessage(d),
             UNCHANGED Books
      PROVE  Step \/ Idle
  <2> DEFINE o == Order(d)
  <2>1. o \in Orders /\ o \in stored /\ counted[o] >= 1
    BY <1>0, <1>3 DEF WritesInOrder, Recorded
  <2> HIDE DEF o
  <2>2. CASE UNCHANGED message
    BY <1>3, <2>2 DEF FulfilmentPromise!fulfilmentVars, Books
  <2>3. CASE /\ message[o] \in Waiting
             /\ message' = [message EXCEPT ![o] = "deleted"]
    <3>1. /\ o \in FulfilmentPromise!Open
          /\ received' = received /\ done' = done \cup {o} /\ buried' = buried
      BY <2>1, <2>3
         DEF FulfilmentPromise!Open, TypeOK, Waiting, received, done, buried
    <3>2. FulfilmentPromise!Close(o)
      BY <1>3, <2>1, <3>1
         DEF FulfilmentPromise!Close, received, done, buried, Books
    <3> QED
      BY <2>1, <3>2 DEF FulfilmentPromise!Next
  <2> QED
    BY <1>3, <2>2, <2>3 DEF RemoveMessage, Waiting, o
<1>4. CASE \A o \in Orders : \/ message'[o] = message[o]
                             \/ {message[o], message'[o]} \subseteq Waiting
  <2>1. received' = received /\ done' = done /\ buried' = buried
    BY <1>4, EndsStay DEF Ends
  <2>2. CASE UNCHANGED Books
    BY <2>1, <2>2
       DEF FulfilmentPromise!fulfilmentVars, received, done, buried, Books
  <2>3. ASSUME NEW d \in Deliveries, stage[d] = "put",
               stored' = stored \cup {Order(d)}, UNCHANGED <<lastOrder, counted>>
        PROVE  Step
    <3>1. Order(d) \in received \cap (Orders \ Malformed)
      BY <1>0, <2>3 DEF WorkIsReceived, received
    <3>2. FulfilmentPromise!Record(Order(d))
      BY <2>1, <2>3, <3>1
         DEF FulfilmentPromise!Record, received, done, buried
    <3> QED
      BY <1>0, <3>2 DEF FulfilmentPromise!Next
  <2>4. ASSUME NEW d \in Deliveries, stage[d] = "update", CountOrder(Order(d))
        PROVE  Step \/ Idle
    <3>1. CASE lastOrder = Order(d)
      <4>1. UNCHANGED Books
        BY <2>4, <3>1 DEF CountOrder, TypeOK, Books
      <4> QED
        BY <2>2, <4>1
    <3>2. CASE lastOrder # Order(d)
      <4>1. FulfilmentPromise!Count(Order(d))
        BY <2>1, <2>4, <3>2
           DEF FulfilmentPromise!Count, CountOrder, WritesInOrder, received,
               done, buried
      <4> QED
        BY <1>0, <4>1 DEF FulfilmentPromise!Next
    <3> QED
      BY <3>1, <3>2
  <2> QED
    BY <2>2, <2>3, <2>4, TableStep
<1> QED
  BY <1>1, <1>2, <1>3, <1>4, MessageStep DEF Books

(* Whatever fails, is repeated, redelivered or stopped, the tasks together  *)
(* implement the abstract worker, which forgets no record, is done with an  *)
(* order only once it is counted and counts none twice in a row.            *)
THEOREM FulfilmentImplemented == Spec => ImplementsFulfilment
<1>1. Init => FulfilmentPromise!Init
  BY DEF Init, FulfilmentPromise!Init
<1>2. WorkerInv /\ [Next]_vars
         => [FulfilmentPromise!Next]_(FulfilmentPromise!fulfilmentVars)
  <2>1. ASSUME UNCHANGED vars
        PROVE  UNCHANGED FulfilmentPromise!fulfilmentVars
    BY <2>1 DEF vars, queue, tables, FulfilmentPromise!fulfilmentVars
  <2> QED
    BY <2>1, FulfilmentStep
<1> QED
  BY <1>1, <1>2, WorkerSafe, PTL
     DEF Spec, ImplementsFulfilment, FulfilmentPromise!Spec
=============================================================================
