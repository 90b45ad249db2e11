----------------------- MODULE FlashSaleSystem_proofs -----------------------
(* Theorems about FlashSaleSystem, for every value of its constants.         *)
EXTENDS FlashSaleSystem, FlashSaleApi_answers, FlashSaleApi_stock

-----------------------------------------------------------------------------
(* The API is itself in the system *)

(* Whatever holds of the API alone holds in the system: the worker writes   *)
(* nothing of it.                                                           *)
LEMMA SystemHasApi == SystemSpec => Spec
<1>1. SystemInit => Init
  BY DEF SystemInit
<1>2. [SystemNext]_systemVars => [Next]_vars
  BY DEF SystemNext, ApiStep, WorkerStep, systemVars
<1> QED
  BY <1>1, <1>2, PTL DEF SystemSpec, Spec

(* Behind the worker, too, the replicas are a stock that is never negative  *)
(* and creates no unit: between resets, under every fault of both services  *)
(* but an INCRBY that go-redis sends again after it took effect.            *)
THEOREM SystemImplementsStock ==
    ASSUME "resent_incr" \notin Faults
    PROVE  SystemSpec => ImplementsStock
<1>1. ResetMode # "any"
  BY SystemAssumption
<1> QED
  BY <1>1, SystemHasApi, StockImplemented, PTL

(* Without resets the books were never closed. *)
FirstSale == baseline = {} /\ stragglers = {}

LEMMA FirstSaleStep == FirstSale /\ [Next]_vars => FirstSale'
<1> SUFFICES ASSUME FirstSale, [Next]_vars
             PROVE  UNCHANGED <<baseline, stragglers>>
  BY DEF FirstSale
<1> USE DEF static, counter, handlers, history
<1>1. ASSUME NEW r \in Requests, HandlerStep(r)
      PROVE  UNCHANGED <<baseline, stragglers>>
  BY <1>1
     DEF HandlerStep, Reserve, PublishOrder, CheckAdmission, UnknownStrategy,
         ReserveAtomic, ReserveLua, Watch, ReadInventory, Exec, ExecAborted,
         ReserveFails, ReserveUnacked, Compensate, CompensateFails, Publish,
         PublishFails, PublishUnacked, Rollback, RollbackFails, Take, PutBack,
         Restore
<1>2. ASSUME NEW r \in Requests, BadRequest(r) \/ Arrive(r) \/ Cancel(r)
      PROVE  UNCHANGED <<baseline, stragglers>>
  BY <1>2 DEF BadRequest, Arrive, Cancel
<1>3. ASSUME NEW r \in Requests, ReserveResent(r) \/ PutBackResent(r)
      PROVE  UNCHANGED <<baseline, stragglers>>
  BY <1>3 DEF ReserveResent, Take, PutBackResent, PutBack, Restore
<1>4. ASSUME NEW p \in Replicas, Start(p) \/ SeedThenDie(p) \/ Crash(p)
      PROVE  UNCHANGED <<baseline, stragglers>>
  BY <1>4 DEF Start, SeedThenDie, Crash, Restore
<1>5. ~Reset
  BY SystemAssumption DEF Reset
<1> QED
  BY <1>1, <1>2, <1>3, <1>4, <1>5 DEF Next, vars

-----------------------------------------------------------------------------
(* The worker works on what was sent *)

Deliveries == Worker!Deliveries

WorkTypes ==
    /\ message \in [Requests -> Worker!MessageStates]
    /\ stage \in [Deliveries -> Worker!Stages]
    /\ counted \in [Requests -> Nat]
    /\ stored \subseteq Requests

(* A message that was stored by SQS; deliveries, records and counts are of  *)
(* such messages.                                                           *)
Sent(r) == message[r] # "unsent"

Supplied ==
    /\ WorkTypes
    /\ \A r \in Requests : Sent(r) <=> r \in sent
    /\ \A d \in Deliveries : stage[d] # "none" => Sent(d[1])
    /\ \A r \in stored : Sent(r)
    /\ \A r \in Requests : counted[r] # 0 => Sent(r)

(* What a step of the worker may do to a system that is so supplied.        *)
WorkGoesOn ==
    /\ WorkTypes'
    /\ \A r \in Requests : Sent(r)' = Sent(r)
    /\ \A d \in Deliveries :
          stage'[d] # "none" => stage[d] # "none" \/ Sent(d[1])
    /\ \A r \in stored' \ stored :
          \E d \in Deliveries : d[1] = r /\ stage[d] # "none"
    /\ \A r \in Requests : counted'[r] # counted[r] =>
          \E d \in Deliveries : d[1] = r /\ stage[d] # "none"

LEMMA FinishStage ==
    ASSUME WorkTypes, NEW D, NEW l \in {"over", "failed"}, Worker!Finish(D, l),
           \A d \in D \cap Deliveries : stage[d] # "none" \/ Sent(d[1])
    PROVE  /\ stage' \in [Deliveries -> Worker!Stages]
           /\ \A d \in Deliveries :
                 stage'[d] # "none" => stage[d] # "none" \/ Sent(d[1])
BY DEF WorkTypes, Worker!Finish, Worker!Stages, Deliveries

LEMMA MoveStage ==
    ASSUME WorkTypes, NEW d \in Deliveries, NEW l \in Worker!Stages,
           Worker!GoTo(d, l), stage[d] # "none"
    PROVE  /\ stage' \in [Deliveries -> Worker!Stages]
           /\ \A e \in Deliveries :
                 stage'[e] # "none" => stage[e] # "none" \/ Sent(e[1])
BY DEF WorkTypes, Worker!GoTo

LEMMA RetryStage ==
    ASSUME WorkTypes, NEW d \in Deliveries, Worker!Retry(d), stage[d] # "none"
    PROVE  /\ stage' \in [Deliveries -> Worker!Stages]
           /\ \A e \in Deliveries :
                 stage'[e] # "none" => stage[e] # "none" \/ Sent(e[1])
<1>1. CASE Worker!Finish({d}, "failed")
  BY <1>1, FinishStage
<1>2. CASE Worker!GoTo(d, IF stage[d] = "delete" THEN "delete" ELSE "put")
  BY <1>2, MoveStage DEF Worker!Stages
<1> QED
  BY <1>1, <1>2 DEF Worker!Retry

LEMMA RemoveKeeps ==
    ASSUME WorkTypes, NEW d \in Deliveries, Worker!RemoveMessage(d)
    PROVE  /\ message' \in [Requests -> Worker!MessageStates]
           /\ \A r \in Requests : Sent(r)' = Sent(r)
BY DEF WorkTypes, Worker!RemoveMessage, Worker!MessageStates, Worker!Order,
       Deliveries, Worker!Deliveries, Sent

LEMMA CountKeeps ==
    ASSUME WorkTypes, NEW o \in Requests, Worker!CountOrder(o)
    PROVE  /\ counted' \in [Requests -> Nat] /\ stored' = stored
           /\ \A r \in Requests : counted'[r] # counted[r] => r = o
BY DEF WorkTypes, Worker!CountOrder

LEMMA WorkerGoesOn ==
    ASSUME WorkTypes, WorkerStep
    PROVE  WorkGoesOn
<1> USE DEF Worker!queue, Worker!work, Worker!tables, Worker!Order
<1>1. ASSUME NEW r \in Requests, Worker!Expire(r) \/ Worker!Redrive(r)
      PROVE  WorkGoesOn
  BY <1>1 DEF WorkGoesOn, WorkTypes, Worker!Expire, Worker!Redrive,
              Worker!MessageStates, Sent
<1>2. ASSUME UNCHANGED <<message, stored, counted>>,
             stage' \in [Deliveries -> Worker!Stages],
             \A d \in Deliveries :
                stage'[d] # "none" => stage[d] # "none" \/ Sent(d[1])
      PROVE  WorkGoesOn
  BY <1>2 DEF WorkGoesOn, WorkTypes, Sent
<1>3. ASSUME NEW t \in Tasks, Worker!Poll(t)
      PROVE  WorkGoesOn
  <2>1. PICK S \in SUBSET {o \in Requests : /\ message[o] = "visible"
                                            /\ receives[o] < MaxReceives} :
           /\ message' = [o \in Requests |->
                            IF o \in S THEN "inflight" ELSE message[o]]
           /\ LET new == {<<o, receives[o] + 1>> : o \in S} IN
              \/ stage' = [d \in Deliveries |->
                             IF d \in new THEN "batch" ELSE stage[d]]
              \/ Worker!Finish(new, "over")
    BY <1>3 DEF Worker!Poll, Deliveries
  <2> DEFINE new == {<<o, receives[o] + 1>> : o \in S}
  <2>2. \A d \in new : Sent(d[1])
    BY DEF Sent
  <2>3. /\ stage' \in [Deliveries -> Worker!Stages]
        /\ \A d \in Deliveries :
              stage'[d] # "none" => stage[d] # "none" \/ Sent(d[1])
    <3>1. CASE stage' = [d \in Deliveries |->
                           IF d \in new THEN "batch" ELSE stage[d]]
      <4> HIDE DEF new
      <4> QED
        BY <2>2, <3>1 DEF WorkTypes, Worker!Stages
    <3>2. CASE Worker!Finish(new, "over")
      BY <2>2, <3>2, FinishStage
    <3> QED
      BY <2>1, <3>1, <3>2
  <2>4. /\ message' \in [Requests -> Worker!MessageStates]
        /\ \A r \in Requests : Sent(r)' = Sent(r)
    BY <2>1 DEF WorkTypes, Worker!MessageStates, Sent
  <2>5. UNCHANGED <<stored, counted>>
    BY <1>3 DEF Worker!Poll
  <2> QED
    BY <2>3, <2>4, <2>5 DEF WorkGoesOn, WorkTypes
<1>4. ASSUME NEW t \in Tasks, Worker!Stop(t)
      PROVE  WorkGoesOn
  <2>1. \A d \in Worker!In(t, "batch") \cup Worker!In(t, "jobs") :
           stage[d] # "none"
    BY DEF Worker!In
  <2> QED
    BY <1>2, <1>4, <2>1, FinishStage DEF Worker!Stop
<1>5. ASSUME NEW t \in Tasks, Worker!Restart(t)
      PROVE  WorkGoesOn
  BY <1>2, <1>5 DEF Worker!Restart, WorkTypes
<1>6. ASSUME NEW d \in Deliveries, Worker!Enqueue(d)
      PROVE  WorkGoesOn
  BY <1>2, <1>6, MoveStage DEF Worker!Enqueue, Worker!Stages
<1>7. ASSUME NEW d \in Deliveries, Worker!TakeJob(d)
      PROVE  WorkGoesOn
  <2>1. CASE Worker!Finish({d}, "failed")
    BY <1>2, <1>7, <2>1, FinishStage DEF Worker!TakeJob
  <2>2. CASE Worker!GoTo(d, "put")
    BY <1>2, <1>7, <2>2, MoveStage DEF Worker!TakeJob, Worker!Stages
  <2> QED
    BY <1>7, <2>1, <2>2 DEF Worker!TakeJob
<1>8. ASSUME NEW d \in Deliveries
      PROVE  d[1] \in Requests
  BY DEF Deliveries, Worker!Deliveries
<1>9. ASSUME NEW d \in Deliveries, Worker!PutOrder(d)
      PROVE  WorkGoesOn
  <2>1. /\ stage[d] = "put" /\ Worker!GoTo(d, "update")
        /\ stored' = stored \cup {d[1]} /\ UNCHANGED <<message, counted>>
    BY <1>9 DEF Worker!PutOrder
  <2>2. /\ stage' \in [Deliveries -> Worker!Stages]
        /\ \A e \in Deliveries :
              stage'[e] # "none" => stage[e] # "none" \/ Sent(e[1])
    BY <2>1, MoveStage DEF Worker!Stages
  <2> QED
    BY <1>8, <2>1, <2>2 DEF WorkGoesOn, WorkTypes, Sent
<1>10. ASSUME NEW d \in Deliveries, Worker!UpdateInventory(d)
       PROVE  WorkGoesOn
  <2>1. /\ stage[d] = "update" /\ Worker!GoTo(d, "delete")
        /\ Worker!CountOrder(d[1]) /\ UNCHANGED message
    BY <1>10 DEF Worker!UpdateInventory
  <2>2. /\ stage' \in [Deliveries -> Worker!Stages]
        /\ \A e \in Deliveries :
              stage'[e] # "none" => stage[e] # "none" \/ Sent(e[1])
    BY <2>1, MoveStage DEF Worker!Stages
  <2>3. /\ counted' \in [Requests -> Nat] /\ stored' = stored
        /\ \A r \in Requests : counted'[r] # counted[r] => r = d[1]
    BY <1>8, <2>1, CountKeeps
  <2> QED
    BY <2>1, <2>2, <2>3 DEF WorkGoesOn, WorkTypes, Sent
<1>11. ASSUME NEW d \in Deliveries, Worker!DeleteMessage(d)
       PROVE  WorkGoesOn
  <2>1. /\ stage[d] = "delete" /\ Worker!Finish({d}, "over")
        /\ Worker!RemoveMessage(d) /\ UNCHANGED <<stored, counted>>
    BY <1>11 DEF Worker!DeleteMessage
  <2>2. /\ stage' \in [Deliveries -> Worker!Stages]
        /\ \A e \in Deliveries :
              stage'[e] # "none" => stage[e] # "none" \/ Sent(e[1])
    BY <2>1, FinishStage
  <2> QED
    BY <2>1, <2>2, RemoveKeeps DEF WorkGoesOn, WorkTypes
<1>12. ASSUME NEW d \in Deliveries, Worker!CallFails(d)
       PROVE  WorkGoesOn
  BY <1>2, <1>12, RetryStage DEF Worker!CallFails
<1>13. ASSUME NEW d \in Deliveries, Worker!CallUnacked(d)
       PROVE  WorkGoesOn
  <2>1. /\ stage[d] # "none"
        /\ stage' \in [Deliveries -> Worker!Stages]
        /\ \A e \in Deliveries :
              stage'[e] # "none" => stage[e] # "none" \/ Sent(e[1])
    BY <1>13, RetryStage DEF Worker!CallUnacked
  <2>2. CASE stored' = stored \cup {d[1]} /\ UNCHANGED <<message, counted>>
    BY <1>8, <2>1, <2>2 DEF WorkGoesOn, WorkTypes, Sent
  <2>3. CASE Worker!CountOrder(d[1]) /\ UNCHANGED message
    <3>1. /\ counted' \in [Requests -> Nat] /\ stored' = stored
          /\ \A r \in Requests : counted'[r] # counted[r] => r = d[1]
      BY <1>8, <2>3, CountKeeps
    <3> QED
      BY <2>1, <2>3, <3>1 DEF WorkGoesOn, WorkTypes, Sent
  <2>4. CASE Worker!RemoveMessage(d) /\ UNCHANGED <<stored, counted>>
    BY <2>1, <2>4, RemoveKeeps DEF WorkGoesOn, WorkTypes
  <2> QED
    BY <1>13, <2>2, <2>3, <2>4 DEF Worker!CallUnacked
<1>14. ASSUME NEW d \in Deliveries, Worker!SaveRejected(d)
       PROVE  WorkGoesOn
  <2>1. stage[d] # "none" /\ Worker!Finish({d}, "failed")
    BY <1>14 DEF Worker!SaveRejected
  <2> QED
    BY <1>2, <1>14, <2>1, FinishStage DEF Worker!SaveRejected
<1> QED
  BY <1>1, <1>3, <1>4, <1>5, <1>6, <1>7, <1>9, <1>10, <1>11, <1>12, <1>13, <1>14
     DEF WorkerStep, Worker!WorkerStep, Deliveries

-----------------------------------------------------------------------------
(* What was sent stays sent, and the worker has nothing else *)

LEMMA SentGrows ==
    ASSUME TypeOK, [Next]_vars
    PROVE  sent \subseteq sent'
<1> USE DEF static, counter, handlers, history
<1>1. ASSUME NEW r \in Requests, HandlerStep(r)
      PROVE  sent \subseteq sent'
  BY <1>1
     DEF HandlerStep, Reserve, PublishOrder, CheckAdmission, UnknownStrategy,
         ReserveAtomic, ReserveLua, Watch, ReadInventory, Exec, ExecAborted,
         ReserveFails, ReserveUnacked, Compensate, CompensateFails, Publish,
         PublishFails, PublishUnacked, Rollback, RollbackFails
<1>2. ASSUME NEW r \in Requests, BadRequest(r) \/ Arrive(r) \/ Cancel(r)
      PROVE  sent \subseteq sent'
  BY <1>2 DEF BadRequest, Arrive, Cancel
<1>3. ASSUME NEW r \in Requests, ReserveResent(r) \/ PutBackResent(r)
      PROVE  sent \subseteq sent'
  BY <1>3 DEF ReserveResent, PutBackResent
<1>4. ASSUME NEW p \in Replicas, Start(p) \/ SeedThenDie(p) \/ Crash(p)
      PROVE  sent \subseteq sent'
  BY <1>4 DEF Start, SeedThenDie, Crash
<1>5. CASE Reset \/ UNCHANGED vars
  BY <1>5 DEF Reset, vars
<1> QED
  BY <1>1, <1>2, <1>3, <1>4, <1>5 DEF Next

LEMMA SuppliedInit == SystemInit => Supplied
<1> SUFFICES ASSUME SystemInit PROVE Supplied
  OBVIOUS
<1>1. /\ message = [o \in Requests |-> "unsent"]
      /\ stage = [d \in Deliveries |-> "none"]
      /\ stored = {} /\ counted = [o \in Requests |-> 0] /\ sent = {}
  BY DEF SystemInit, Init, Worker!Init, Deliveries
<1> QED
  BY <1>1 DEF Supplied, WorkTypes, Worker!MessageStates, Worker!Stages, Sent

(* SQS hands over what PublishOrder stored there, and nothing else.         *)
LEMMA SuppliedStep ==
    ASSUME TypeOK, TypeOK', Supplied, [SystemNext]_systemVars
    PROVE  Supplied'
<1>0. \A d \in Deliveries : d[1] \in Requests
  BY DEF Deliveries, Worker!Deliveries
<1>1. CASE ApiStep
  <2>1. sent \subseteq sent' /\ sent' \subseteq Requests
    BY <1>1, SentGrows DEF ApiStep, TypeOK
  <2>2. UNCHANGED <<stage, counted, stored>>
    BY <1>1 DEF ApiStep, atWork
  <2>3. message' = [r \in Requests |->
                      IF r \in sent' \ sent THEN "visible" ELSE message[r]]
    BY <1>1 DEF ApiStep, Deliver
  <2>4. message' \in [Requests -> Worker!MessageStates]
    BY <2>3 DEF Supplied, WorkTypes, Worker!MessageStates
  <2>5. \A r \in Requests : Sent(r)' <=> (Sent(r) \/ r \in sent' \ sent)
    BY <2>3 DEF Sent
  <2>6. \A r \in Requests : Sent(r)' <=> r \in sent'
    BY <2>1, <2>5 DEF Supplied
  <2>7. /\ \A d \in Deliveries : stage'[d] # "none" => Sent(d[1])'
        /\ \A r \in stored' : Sent(r)'
        /\ \A r \in Requests : counted'[r] # 0 => Sent(r)'
    BY <1>0, <2>2, <2>5 DEF Supplied, WorkTypes
  <2> QED
    BY <2>2, <2>4, <2>6, <2>7 DEF Supplied, WorkTypes
<1>2. CASE WorkerStep
  <2>1. WorkGoesOn /\ UNCHANGED sent
    BY <1>2, WorkerGoesOn DEF WorkerStep, vars, Supplied
  <2>2. \A d \in Deliveries : stage'[d] # "none" => Sent(d[1])'
    BY <1>0, <2>1 DEF Supplied, WorkGoesOn
  <2>3. \A r \in stored' : Sent(r)'
    BY <1>0, <2>1 DEF Supplied, WorkGoesOn, WorkTypes
  <2>4. \A r \in Requests : counted'[r] # 0 => Sent(r)'
    BY <1>0, <2>1 DEF Supplied, WorkGoesOn
  <2> QED
    BY <2>1, <2>2, <2>3, <2>4 DEF Supplied, WorkGoesOn
<1>3. CASE UNCHANGED systemVars
  BY <1>3 DEF systemVars, vars, atWork, Supplied, WorkTypes, Sent
<1> QED
  BY <1>1, <1>2, <1>3 DEF SystemNext

(* The invariant of the whole path, from the counter to the table. *)
SystemInv == StockInv /\ AnswersInv /\ FirstSale /\ Supplied

LEMMA SystemHolds == SystemSpec => []SystemInv
<1>1. SystemInit => SystemInv
  BY StockInit, AnswersInit, SuppliedInit DEF SystemInit, SystemInv, Init, FirstSale
<1>2. SystemInv /\ [SystemNext]_systemVars => SystemInv'
  <2> SUFFICES ASSUME SystemInv, [SystemNext]_systemVars PROVE SystemInv'
    OBVIOUS
  <2>1. [Next]_vars
    BY DEF SystemNext, ApiStep, WorkerStep, systemVars
  <2>2. StockInv' /\ AnswersInv' /\ FirstSale'
    BY <2>1, StockStep, AnswersStep, FirstSaleStep DEF SystemInv, StockInv
  <2>3. Supplied'
    BY <2>2, SuppliedStep DEF SystemInv, StockInv
  <2> QED
    BY <2>2, <2>3 DEF SystemInv
<1> QED
  BY <1>1, <1>2, PTL DEF SystemSpec

-----------------------------------------------------------------------------
(* The promises of the system *)

LEMMA StoredIsSent == SystemInv => stored \subseteq sent
BY DEF SystemInv, Supplied, WorkTypes

(* Orders whose units no handler put back fit beside what is left on the    *)
(* counter: no reset has forgotten any.                                     *)
LEMMA SentFit ==
    ASSUME SystemInv, NEW D \in SUBSET (sent \ Disowned)
    PROVE  /\ Remaining + Total(D) <= InventoryCount + Total(surplus)
           /\ Remaining \in Nat /\ Total(D) \in Nat /\ Total(surplus) \in Nat
<1>1. /\ StockInv /\ TypeOK /\ Custody /\ baseline = {} /\ stragglers = {}
  BY DEF SystemInv, StockInv, FirstSale
<1>2. /\ D \in SUBSET (sent \ baseline) /\ D \subseteq taken \cup stragglers
      /\ D \cap surplus = {}
  BY <1>1 DEF Custody, Disowned
<1>3. Remaining + Total(D) <= InventoryCount + Total(stragglers \cup surplus)
  BY <1>1, <1>2, OrdersFit
<1>4. stragglers \cup surplus = surplus
  BY <1>1
<1>5. Remaining + Total(D) <= InventoryCount + Total(surplus)
  BY <1>3, <1>4, Zenon
<1>6. D \in SUBSET Requests /\ surplus \in SUBSET Requests
  BY <1>1 DEF TypeOK
<1>7. Total(D) \in Nat /\ Total(surplus) \in Nat
  BY <1>1, <1>6, Totals
<1>8. Remaining \in Nat
  BY <1>1 DEF Remaining, TypeOK
<1> QED
  BY <1>5, <1>7, <1>8

(* The orders table never holds more units than there were: the sale does   *)
(* not oversell, under every strategy, and whatever the retries of          *)
(* retry.go and the redeliveries of SQS do.  Excepted, as in PromisesFit,   *)
(* are orders whose units the API put back although SQS had them, and the   *)
(* units that a resent INCRBY put back twice.                               *)
THEOREM TableWithinInventory == SystemSpec => []StoredWithinInventory
<1>1. SystemInv => StoredWithinInventory
  <2> SUFFICES ASSUME SystemInv PROVE StoredWithinInventory
    OBVIOUS
  <2> DEFINE D == stored \ Disowned
  <2>1. D \in SUBSET (sent \ Disowned)
    BY StoredIsSent
  <2> HIDE DEF D
  <2>2. /\ Remaining + Total(D) <= InventoryCount + Total(surplus)
        /\ Remaining \in Nat /\ Total(D) \in Nat /\ Total(surplus) \in Nat
    BY <2>1, SentFit
  <2>3. Total(D) <= InventoryCount + Total(surplus)
    BY <2>2, ApiAssumption
  <2> QED
    BY <2>3 DEF D, StoredWithinInventory
<1> QED
  BY <1>1, SystemHolds, PTL

(* An order in the table was answered with 201, or its client is gone, or   *)
(* SQS lost the answer: service.go stores no order of a purchase that       *)
(* purchase.go refused.                                                     *)
THEOREM StoredAccepted == SystemSpec => []StoredIsAccepted
<1>1. SystemInv => StoredIsAccepted
  BY StoredIsSent DEF SystemInv, AnswersInv, OrdersAnswered, StoredIsAccepted
<1> QED
  BY <1>1, SystemHolds, PTL

(* The first updates of the orders, and those beyond. *)
Once  == [r \in Requests |-> IF counted[r] # 0 THEN qty[r] ELSE 0]
Again == [r \in Requests |->
            qty[r] * (IF counted[r] > 1 THEN counted[r] - 1 ELSE 0)]
AllUpdates == [r \in Requests |-> qty[r] * counted[r]]

(* What the audit counter has of an order. *)
LEMMA CountedUnits ==
    ASSUME SystemInv, NEW r \in Requests
    PROVE  /\ qty[r] \in Nat /\ counted[r] \in Nat
           /\ AllUpdates[r] \in Nat /\ Once[r] \in Nat /\ Again[r] \in Nat
           /\ AllUpdates[r] <= Once[r] + Again[r]
           /\ Once[r] = 0 \/ (r \in sent /\ Once[r] <= qty[r])
           /\ counted[r] # 0 => qty[r] <= AllUpdates[r]
<1>1. qty[r] \in Nat /\ counted[r] \in Nat
  BY ApiAssumption DEF SystemInv, StockInv, TypeOK, Supplied, WorkTypes
<1>2. \A a, c \in Nat : /\ a * c \in Nat /\ a * 0 = 0 /\ a * 1 = a
                        /\ c # 0 => a <= a * c
  OBVIOUS
<1>3. \A a, c \in Nat : c > 1 => c - 1 \in Nat /\ a * c = a + a * (c - 1)
  OBVIOUS
<1>4. r \notin sent => counted[r] = 0
  BY DEF SystemInv, Supplied
<1>5. CASE counted[r] > 1
  <2>1. /\ AllUpdates[r] = qty[r] * counted[r] /\ Once[r] = qty[r]
        /\ Again[r] = qty[r] * (counted[r] - 1)
    BY <1>1, <1>5 DEF AllUpdates, Once, Again
  <2> QED
    BY <1>1, <1>2, <1>3, <1>4, <1>5, <2>1
<1>6. CASE ~(counted[r] > 1)
  <2>1. counted[r] = 0 \/ counted[r] = 1
    BY <1>1, <1>6
  <2>2. /\ AllUpdates[r] = qty[r] * counted[r] /\ Again[r] = qty[r] * 0
        /\ Once[r] = IF counted[r] # 0 THEN qty[r] ELSE 0
    BY <1>1, <1>6 DEF AllUpdates, Once, Again
  <2> QED
    BY <1>1, <1>2, <1>4, <2>1, <2>2
<1> QED
  BY <1>5, <1>6

(* The audit counter has no more than the orders and their further updates, *)
(* and at least the orders that were counted.                               *)
LEMMA ConfirmedBounds ==
    ASSUME SystemInv
    PROVE  /\ ConfirmedOrders \in Nat /\ Recounted \in Nat
           /\ ConfirmedOrders <= Total(sent) + Recounted
           /\ Total({r \in sent : counted[r] # 0}) <= ConfirmedOrders
<1> DEFINE K == {r \in sent : counted[r] # 0}
<1>1. /\ IsFiniteSet(Requests) /\ sent \in SUBSET Requests
      /\ IsFiniteSet(sent)
  BY ApiAssumption, FS_Subset DEF SystemInv, StockInv, TypeOK
<1>2. /\ ConfirmedOrders = UnitSum(AllUpdates, Requests)
      /\ Recounted = UnitSum(Again, Requests)
      /\ Total(sent) = UnitSum(qty, sent) /\ Total(K) = UnitSum(qty, K)
  BY DEF ConfirmedOrders, Recounted, Total, AllUpdates, Again
<1>3. /\ UnitSum(AllUpdates, Requests) \in Nat
      /\ UnitSum(Once, Requests) \in Nat /\ UnitSum(Again, Requests) \in Nat
      /\ UnitSum(AllUpdates, Requests)
            <= UnitSum(Once, Requests) + UnitSum(Again, Requests)
  <2>1. \A r \in Requests :
           /\ AllUpdates[r] \in Nat /\ Once[r] \in Nat /\ Again[r] \in Nat
           /\ AllUpdates[r] <= Once[r] + Again[r]
    BY CountedUnits
  <2> QED
    BY <1>1, <2>1, UnitSumSplit
<1>4. /\ UnitSum(qty, sent) \in Nat
      /\ UnitSum(Once, Requests) <= UnitSum(qty, sent)
  <2>1. /\ \A r \in sent : qty[r] \in Nat
        /\ \A r \in Requests : Once[r] \in Nat
        /\ \A r \in Requests : Once[r] = 0 \/ (r \in sent /\ Once[r] <= qty[r])
    BY <1>1, CountedUnits
  <2> QED
    BY <1>1, <2>1, UnitSumWithin
<1>5. UnitSum(qty, K) <= UnitSum(AllUpdates, Requests)
  <2>1. /\ \A r \in Requests : AllUpdates[r] \in Nat
        /\ \A r \in K : qty[r] \in Nat
        /\ \A r \in K : qty[r] = 0 \/ (r \in Requests
                                         /\ qty[r] <= AllUpdates[r])
    BY <1>1, CountedUnits
  <2> HIDE DEF K
  <2> QED
    BY <1>1, <2>1, UnitSumWithin
<1> QED
  BY <1>2, <1>3, <1>4, <1>5

(* scripts/consistency_check.py accuses the right part, drained or not:     *)
(* units beyond the inventory are updates repeated by the worker, orders    *)
(* whose units the API put back or what an INCRBY put back twice; missing   *)
(* units are those of purchases that failed on our side, of a DECRBY that   *)
(* ran twice or of orders not counted.                                      *)
THEOREM VerdictsMean == SystemSpec => []VerdictExplained
<1>1. ASSUME SystemInv
      PROVE  Sum <= InventoryCount + Recounted + Total(Disowned)
                      + Total(surplus)
  <2> DEFINE D == sent \ Disowned
  <2>1. /\ TypeOK /\ D \in SUBSET Requests /\ Disowned \in SUBSET Requests
        /\ D \cup Disowned = sent
    BY <1>1 DEF SystemInv, StockInv, TypeOK, Disowned
  <2>2. D \in SUBSET (sent \ Disowned)
    OBVIOUS
  <2> HIDE DEF D
  <2>3. Total(D \cup Disowned) <= Total(D) + Total(Disowned)
    BY <2>1, TotalOfUnion
  <2>4. Total(sent) <= Total(D) + Total(Disowned)
    BY <2>1, <2>3, Zenon
  <2>5. /\ Remaining + Total(D) <= InventoryCount + Total(surplus)
        /\ Remaining \in Nat /\ Total(D) \in Nat /\ Total(surplus) \in Nat
    BY <1>1, <2>2, SentFit
  <2>6. Total(Disowned) \in Nat /\ Total(sent) \in Nat
    BY <2>1, Totals DEF TypeOK
  <2>7. /\ ConfirmedOrders \in Nat /\ Recounted \in Nat
        /\ ConfirmedOrders <= Total(sent) + Recounted
    BY <1>1, ConfirmedBounds
  <2> QED
    BY <2>4, <2>5, <2>6, <2>7, ApiAssumption DEF Sum
<1>2. ASSUME SystemInv, keyExists, Quiet
      PROVE  InventoryCount
                <= Sum + Total((taken \ sent) \cap (Failed \cup resent))
                       + Total(doubled) + Total({r \in sent : counted[r] = 0})
  <2> DEFINE L == (taken \ sent) \cap (Failed \cup resent)
             U == {r \in sent : counted[r] = 0}
             K == {r \in sent : counted[r] # 0}
  <2>1. /\ StockInv /\ AnswersInv /\ TypeOK /\ stragglers = {}
        /\ sent \ baseline = sent
    BY <1>2 DEF SystemInv, StockInv, FirstSale
  <2>2. StockAccounted
    BY <2>1, UnitsAccounted
  <2>3. InventoryCount <= inventory + Total(sent \ baseline) + Total(L)
                            + Total(doubled)
    BY <1>2, <2>1, <2>2 DEF StockAccounted
  <2>4. Total(sent \ baseline) = Total(sent)
    BY <2>1, Zenon
  <2>5. /\ U \in SUBSET Requests /\ K \in SUBSET Requests
        /\ L \in SUBSET Requests /\ doubled \in SUBSET Requests
        /\ sent \in SUBSET Requests /\ K \cup U = sent
    BY <2>1 DEF TypeOK
  <2>6. /\ ConfirmedOrders \in Nat /\ Total(K) <= ConfirmedOrders
    BY <1>2, ConfirmedBounds
  <2> HIDE DEF L, U, K
  <2>7. Total(K \cup U) <= Total(K) + Total(U)
    BY <2>1, <2>5, TotalOfUnion
  <2>8. Total(sent) <= Total(K) + Total(U)
    BY <2>5, <2>7, Zenon
  <2>9. /\ Total(U) \in Nat /\ Total(K) \in Nat /\ Total(L) \in Nat
        /\ Total(doubled) \in Nat /\ Total(sent) \in Nat
    BY <2>1, <2>5, Totals
  <2>10. inventory \in Int /\ Remaining \in Nat /\ inventory <= Remaining
    BY <2>1 DEF TypeOK, Remaining
  <2>11. InventoryCount <= Sum + Total(L) + Total(doubled) + Total(U)
    BY <2>3, <2>4, <2>6, <2>8, <2>9, <2>10, ApiAssumption DEF Sum
  <2> QED
    BY <2>11, Zenon DEF L, U
<1>3. SystemInv => VerdictExplained
  BY <1>1, <1>2 DEF VerdictExplained
<1> QED
  BY <1>3, SystemHolds, PTL

-----------------------------------------------------------------------------
(* The worker, too, is itself in the system *)

(* Whatever holds of the worker alone holds in the system: the API does to  *)
(* its queue what the model of the worker assumes of a publisher.           *)
THEOREM SystemHasWorker == SystemSpec => Worker!Spec
<1>1. SystemInit => Worker!Init
  BY DEF SystemInit
<1>2. SystemInv /\ SystemInv' /\ [SystemNext]_systemVars => [Worker!Next]_(Worker!vars)
  <2> SUFFICES ASSUME Supplied, sent' \subseteq Requests, [SystemNext]_systemVars
               PROVE  Worker!Next \/ UNCHANGED Worker!vars
    BY DEF SystemInv, StockInv, TypeOK
  <2>1. CASE ApiStep
    <3>1. [Next]_vars /\ UNCHANGED atWork
      BY <2>1 DEF ApiStep
    <3>2. message' = [r \in Requests |->
                        IF r \in sent' \ sent THEN "visible" ELSE message[r]]
      BY <2>1 DEF ApiStep, Deliver
    <3>3. DOMAIN message = Requests /\ message = [r \in Requests |-> message[r]]
      BY DEF Supplied, WorkTypes
    <3>4. CASE sent' \subseteq sent
      <4>1. message' = message
        BY <3>2, <3>3, <3>4
      <4> QED
        BY <3>1, <4>1
           DEF atWork, Worker!vars, Worker!queue, Worker!work, Worker!tables
    <3>5. CASE ~(sent' \subseteq sent)
      <4> DEFINE S == sent' \ sent
      <4>1. S # {} /\ S \subseteq Requests
        BY <3>5
      <4>2. \A r \in S : message[r] = "unsent"
        BY <4>1 DEF Supplied, Sent
      <4>3. /\ S \in SUBSET {r \in Requests : message[r] = "unsent"} /\ S # {}
            /\ message' = [r \in Requests |->
                             IF r \in S THEN "visible" ELSE message[r]]
        BY <3>2, <4>1, <4>2
      <4>4. UNCHANGED atWork
        BY <3>1
      <4> HIDE DEF S
      <4>5. Worker!Send
        BY <4>3, <4>4 DEF atWork, Worker!Send, Worker!work, Worker!tables
      <4> QED
        BY <4>5 DEF Worker!Next
    <3> QED
      BY <3>4, <3>5
  <2>2. CASE WorkerStep
    BY <2>2 DEF WorkerStep, Worker!Next
  <2>3. CASE UNCHANGED systemVars
    BY <2>3 DEF systemVars, atWork, Worker!vars, Worker!queue, Worker!work,
                Worker!tables
  <2> QED
    BY <2>1, <2>2, <2>3 DEF SystemNext
<1> QED
  BY <1>1, <1>2, SystemHolds, PTL DEF SystemSpec, Worker!Spec

(* The theorems about the worker, said of the worker in the system: both    *)
(* instances are of the same definitions.                                   *)
Proved == INSTANCE OrderWorker_proofs WITH
    Orders <- Requests, Body <- [r \in Requests |-> Published(r)],
    Faults <- WorkerFaults, host <- task

LEMMA SameWorker == Worker!Spec => Proved!Spec
<1>1. Worker!Init => Proved!Init
  BY DEF Worker!Init, Proved!Init, Worker!Deliveries, Proved!Deliveries,
         Worker!None, Proved!None
<1>2. Worker!Next => Proved!Next
  <2>1. Worker!Send => Proved!Send
    BY DEF Worker!Send, Proved!Send, Worker!work, Proved!work,
           Worker!tables, Proved!tables
  <2>2. \A o \in Requests : Worker!Expire(o) => Proved!Expire(o)
    BY DEF Worker!Expire, Proved!Expire, Worker!Live, Proved!Live,
           Worker!Order, Proved!Order, Worker!Deliveries,
           Proved!Deliveries, Worker!work, Proved!work, Worker!tables,
           Proved!tables
  <2>3. \A o \in Requests : Worker!Redrive(o) => Proved!Redrive(o)
    BY DEF Worker!Redrive, Proved!Redrive, Worker!work, Proved!work,
           Worker!tables, Proved!tables
  <2>4. \A t \in Tasks : Worker!Poll(t) => Proved!Poll(t)
    BY DEF Worker!Poll, Proved!Poll, Worker!Cardinality,
           Proved!Cardinality, Worker!IsFiniteSet, Proved!IsFiniteSet,
           Worker!In, Proved!In, Worker!Deliveries, Proved!Deliveries,
           Worker!Finish, Proved!Finish, Worker!tables, Proved!tables,
           Worker!None, Proved!None
  <2>5. \A t \in Tasks : Worker!Stop(t) => Proved!Stop(t)
    BY DEF Worker!Stop, Proved!Stop, Worker!In, Proved!In,
           Worker!Deliveries, Proved!Deliveries, Worker!Finish,
           Proved!Finish, Worker!queue, Proved!queue, Worker!tables,
           Proved!tables, Worker!None, Proved!None
  <2>6. \A t \in Tasks : Worker!Restart(t) => Proved!Restart(t)
    BY DEF Worker!Restart, Proved!Restart, Worker!Working, Proved!Working,
           Worker!In, Proved!In, Worker!Deliveries, Proved!Deliveries,
           Worker!queue, Proved!queue, Worker!tables, Proved!tables
  <2>7. \A d \in Deliveries : Worker!Enqueue(d) => Proved!Enqueue(d)
    BY DEF Deliveries, Worker!Enqueue, Proved!Enqueue, Worker!Cardinality,
           Proved!Cardinality, Worker!IsFiniteSet, Proved!IsFiniteSet,
           Worker!In, Proved!In, Worker!Deliveries, Proved!Deliveries,
           Worker!Capacity, Proved!Capacity, Worker!GoTo, Proved!GoTo,
           Worker!queue, Proved!queue, Worker!tables, Proved!tables
  <2>8. \A d \in Deliveries : Worker!TakeJob(d) => Proved!TakeJob(d)
    BY DEF Deliveries, Worker!TakeJob, Proved!TakeJob, Worker!Cardinality,
           Proved!Cardinality, Worker!IsFiniteSet, Proved!IsFiniteSet,
           Worker!Working, Proved!Working, Worker!In, Proved!In,
           Worker!Deliveries, Proved!Deliveries, Worker!Malformed,
           Proved!Malformed, Worker!Decodes, Proved!Decodes,
           Worker!Validates, Proved!Validates, Worker!UserID,
           Proved!UserID, Worker!Finish, Proved!Finish, Worker!GoTo,
           Proved!GoTo, Worker!Order, Proved!Order, Worker!queue,
           Proved!queue, Worker!tables, Proved!tables, Worker!None,
           Proved!None
  <2>9. \A d \in Deliveries : Worker!PutOrder(d) => Proved!PutOrder(d)
    BY DEF Deliveries, Worker!PutOrder, Proved!PutOrder, Worker!Order,
           Proved!Order, Worker!GoTo, Proved!GoTo, Worker!queue,
           Proved!queue
  <2>10. \A d \in Deliveries : Worker!UpdateInventory(d) => Proved!UpdateInventory(d)
    BY DEF Deliveries, Worker!UpdateInventory, Proved!UpdateInventory,
           Worker!Order, Proved!Order, Worker!GoTo, Proved!GoTo,
           Worker!CountOrder, Proved!CountOrder, Worker!queue, Proved!queue
  <2>11. \A d \in Deliveries : Worker!DeleteMessage(d) => Proved!DeleteMessage(d)
    BY DEF Deliveries, Worker!DeleteMessage, Proved!DeleteMessage,
           Worker!RemoveMessage, Proved!RemoveMessage, Worker!Finish,
           Proved!Finish, Worker!Order, Proved!Order, Worker!Deliveries,
           Proved!Deliveries, Worker!tables, Proved!tables, Worker!None,
           Proved!None
  <2>12. \A d \in Deliveries : Worker!CallFails(d) => Proved!CallFails(d)
    BY DEF Deliveries, Worker!CallFails, Proved!CallFails, Worker!Retry,
           Proved!Retry, Worker!GoTo, Proved!GoTo, Worker!Finish,
           Proved!Finish, Worker!Deliveries, Proved!Deliveries,
           Worker!queue, Proved!queue, Worker!tables, Proved!tables,
           Worker!None, Proved!None
  <2>13. \A d \in Deliveries : Worker!CallUnacked(d) => Proved!CallUnacked(d)
    BY DEF Deliveries, Worker!CallUnacked, Proved!CallUnacked,
           Worker!Retry, Proved!Retry, Worker!GoTo, Proved!GoTo,
           Worker!Finish, Proved!Finish, Worker!Order, Proved!Order,
           Worker!CountOrder, Proved!CountOrder, Worker!RemoveMessage,
           Proved!RemoveMessage, Worker!Deliveries, Proved!Deliveries,
           Worker!tables, Proved!tables, Worker!None, Proved!None
  <2>14. \A d \in Deliveries : Worker!SaveRejected(d) => Proved!SaveRejected(d)
    BY DEF Deliveries, Worker!SaveRejected, Proved!SaveRejected,
           Worker!Finish, Proved!Finish, Worker!Deliveries,
           Proved!Deliveries, Worker!queue, Proved!queue, Worker!tables,
           Proved!tables, Worker!None, Proved!None
  <2> QED
    BY <2>1, <2>2, <2>3, <2>4, <2>5, <2>6, <2>7, <2>8, <2>9, <2>10, <2>11, <2>12, <2>13, <2>14
       DEF Deliveries, Worker!Next, Proved!Next, Worker!WorkerStep,
           Proved!WorkerStep, Worker!Deliveries, Proved!Deliveries
<1>3. [Worker!Next]_(Worker!vars) => [Proved!Next]_(Proved!vars)
  BY <1>2
     DEF Worker!vars, Proved!vars, Worker!queue, Proved!queue, Worker!work,
         Proved!work, Worker!tables, Proved!tables
<1> QED
  BY <1>1, <1>3, PTL DEF Worker!Spec, Proved!Spec

(* The worker keeps its promises behind the API: what it deleted is in the  *)
(* tables, an order is confirmed at most once, and the audit counter        *)
(* overcounts only for a redelivery or an unanswered update (service.go,    *)
(* dynamodb.go).                                                            *)
THEOREM WorkerPromises ==
    SystemSpec => [](/\ Worker!DeletedIsRecorded
                     /\ Worker!ConfirmedOnce
                     /\ Worker!OvercountExplained)
<1>1. Proved!WorkerAssumption
  BY SystemAssumption
     DEF Worker!WorkerAssumption, Proved!WorkerAssumption,
         Worker!FaultKinds, Proved!FaultKinds, Worker!None, Proved!None,
         Worker!Bodies, Proved!Bodies, Worker!Texts, Proved!Texts
<1>2. /\ Proved!DeletedIsRecorded => Worker!DeletedIsRecorded
      /\ Proved!ConfirmedOnce => Worker!ConfirmedOnce
      /\ Proved!OvercountExplained => Worker!OvercountExplained
  BY DEF Worker!DeletedIsRecorded, Proved!DeletedIsRecorded,
         Worker!ConfirmedOnce, Proved!ConfirmedOnce,
         Worker!OvercountExplained, Proved!OvercountExplained,
         Worker!Order, Proved!Order
<1>3. Proved!Spec => []Proved!DeletedIsRecorded
  BY <1>1, Proved!DeletedRecorded
<1>4. Proved!Spec => []Proved!ConfirmedOnce
  BY <1>1, Proved!Confirmed
<1>5. Proved!Spec => []Proved!OvercountExplained
  BY <1>1, Proved!Overcounts
<1> QED
  BY <1>2, <1>3, <1>4, <1>5, SystemHasWorker, SameWorker, PTL

(* A purchase that was answered with 201 is never lost between the          *)
(* services: whatever dies, is retried or is redelivered after the answer,  *)
(* the order is in the queue, in its dead-letter queue or in both tables.   *)
THEOREM AcceptedKept == SystemSpec => []AcceptedIsKept
<1>1. SystemInv /\ Worker!DeletedIsRecorded => AcceptedIsKept
  <2> SUFFICES ASSUME SystemInv, Worker!DeletedIsRecorded,
                      NEW r \in Requests, response[r] = "accepted"
               PROVE  \/ message[r] \in {"visible", "inflight", "dlq"}
                      \/ r \in stored /\ counted[r] >= 1
    BY DEF AcceptedIsKept
  <2>1. r \in sent
    BY DEF SystemInv, AnswersInv, AnswersMatchStock
  <2>2. message[r] \in Worker!MessageStates /\ message[r] # "unsent"
    BY <2>1 DEF SystemInv, Supplied, WorkTypes, Sent
  <2> QED
    BY <2>2 DEF Worker!MessageStates, Worker!DeletedIsRecorded
<1> QED
  BY <1>1, SystemHolds, WorkerPromises, PTL
=============================================================================
