------------------------- MODULE FlashSaleApi_stock -------------------------
(* FlashSaleApi implements Stock, for every value of its constants.          *)
EXTENDS FlashSaleApi_proofs

-----------------------------------------------------------------------------
(* The stock that the counter stands for *)

available == IF keyExists /\ Unsold >= 0 THEN Unsold ELSE 0
granted   == {r \in taken : pc[r] \in {"publish", "rollback"}}
orders    == {r \in (taken \cap sent) \ returned : pc[r] \in {"done", "lost"}}

(* Resets come between sales, so nobody holds units when one comes.         *)
BetweenSales == stragglers = {}

LEMMA BetweenSalesStep ==
    ASSUME ResetMode # "any", TypeOK, BetweenSales, [Next]_vars
    PROVE  BetweenSales'
<1> USE DEF static, counter, handlers, history
<1>1. ASSUME UNCHANGED stragglers
      PROVE  BetweenSales'
  BY <1>1 DEF BetweenSales
<1>2. ASSUME NEW r \in Requests, HandlerStep(r) PROVE BetweenSales'
  BY <1>1, <1>2
     DEF HandlerStep, Reserve, PublishOrder, CheckAdmission, UnknownStrategy,
         ReserveAtomic, ReserveLua, Watch, ReadInventory, Exec, ExecAborted,
         ReserveFails, ReserveUnacked, Compensate, CompensateFails, Publish,
         PublishFails, PublishUnacked, Rollback, RollbackFails, Take, PutBack,
         Restore
<1>3. ASSUME NEW r \in Requests,
             \/ BadRequest(r) \/ Arrive(r) \/ Cancel(r)
             \/ ReserveResent(r) \/ PutBackResent(r)
      PROVE  BetweenSales'
  BY <1>1, <1>3 DEF BadRequest, Arrive, Cancel, ReserveResent, Take,
                    PutBackResent, PutBack, Restore
<1>4. ASSUME NEW p \in Replicas, Start(p) \/ SeedThenDie(p) \/ Crash(p)
      PROVE  BetweenSales'
  BY <1>1, <1>4 DEF Start, SeedThenDie, Crash, Restore
<1>5. CASE Reset
  <2>1. Quiet
    BY <1>5, ApiAssumption DEF Reset
  <2>2. Holders = {}
    BY <2>1 DEF Quiet, Running, Holders
  <2> QED
    BY <1>5, <2>2 DEF Reset, BetweenSales
<1>6. CASE UNCHANGED vars
  BY <1>1, <1>6 DEF vars
<1> QED
  BY <1>2, <1>3, <1>4, <1>5, <1>6 DEF Next

(* Whoever holds units then has taken them and put nothing back, unless an  *)
(* INCRBY is sent again.                                                    *)
LEMMA HeldIsTaken ==
    ASSUME "resent_incr" \notin Faults, Custody, BetweenSales
    PROVE  Holders \subseteq taken /\ Holders \cap returned = {}
BY DEF Custody, BetweenSales, Holders, ResendsIncr

LEMMA UnsoldType ==
    ASSUME TypeOK
    PROVE  /\ Doomed \in SUBSET Requests /\ Total(Doomed) \in Nat
           /\ Unsold = inventory + Total(Doomed) /\ Unsold \in Int
           /\ inventory \in Int /\ available \in Nat
           /\ \A r \in Requests : qty[r] \in Nat /\ qty[r] >= 1
<1>1. Doomed \in SUBSET Requests
  BY DEF Doomed
<1>2. Total(Doomed) \in Nat
  BY <1>1, Totals
<1>3. /\ inventory \in Int /\ qty \in [Requests -> 1..MaxQuantity]
      /\ keyExists \in BOOLEAN
  BY DEF TypeOK
<1> QED
  BY <1>1, <1>2, <1>3, ApiAssumption DEF Unsold, available

-----------------------------------------------------------------------------
(* The steps of the stock *)

Idle ==
    UNCHANGED <<qty, available, granted, orders>>

Step ==
    StockPromise!Next \/ Idle

(* Nothing of the counter, of the doomed or of the granted changes. *)
LEMMA StockIdle ==
    ASSUME UNCHANGED <<qty, inventory, keyExists>>,
           Doomed' = Doomed, granted' = granted, orders' = orders
    PROVE  Idle
BY DEF Idle, available, Unsold, Total

LEMMA PromiseVars ==
    /\ StockPromise!Open <=>
          /\ granted = {} /\ available' = InventoryCount /\ orders' = {}
          /\ UNCHANGED <<qty, granted>>
    /\ \A r : StockPromise!Grant(r) <=>
          /\ r \notin granted \cup orders
          /\ qty[r] <= available
          /\ available' = available - qty[r]
          /\ granted' = granted \cup {r}
          /\ UNCHANGED <<qty, orders>>
    /\ StockPromise!Settle <=>
          \E out \in SUBSET granted : \E back \in SUBSET (granted \ out) :
             /\ orders' = orders \cup out
             /\ granted' \in SUBSET (granted \ (out \cup back))
             /\ available' \in 0..(available + Total(back))
             /\ UNCHANGED qty
<1>1. \A S : StockPromise!UnitSum(qty, S) = Total(S)
  BY DEF Total, UnitSum, UnitSet, StockPromise!UnitSum, StockPromise!UnitSet,
         StockPromise!Cardinality, Cardinality, StockPromise!IsFiniteSet,
         IsFiniteSet
<1> QED
  BY <1>1 DEF StockPromise!Open, StockPromise!Grant, StockPromise!Settle,
              available, granted, orders

LEMMA UnsoldNext ==
    ASSUME UNCHANGED qty
    PROVE  Unsold' = inventory' + Total(Doomed')
BY DEF Unsold, Total

(* A handler before its DECRBY or after its answer holds nothing.           *)
LEMMA StockAside ==
    ASSUME TypeOK, Custody, NEW r \in Requests,
           pc[r] \in {"idle", "gate", "reserve", "read", "exec"},
           NEW label, label \notin {"compensate", "publish", "rollback"},
           pc' = [pc EXCEPT ![r] = label],
           UNCHANGED <<qty, inventory, keyExists, sent, taken, returned>>
    PROVE  Idle
<1>1. \A q \in Requests : q # r => pc'[q] = pc[q]
  BY DEF TypeOK
<1>2. pc'[r] = label
  BY DEF TypeOK
<1>3. Doomed' = Doomed
  BY <1>1, <1>2 DEF Doomed
<1>4. granted' = granted
  BY <1>1, <1>2 DEF granted, TypeOK
<1>5. r \notin sent
  BY DEF Custody
<1>6. orders' = orders
  BY <1>1, <1>5 DEF orders, TypeOK
<1> QED
  BY <1>3, <1>4, <1>6, StockIdle

(* A decrement that leaves the counter at zero or above is a grant.         *)
LEMMA StockGrant ==
    ASSUME TypeOK, Custody, keyExists, NEW r \in Requests,
           pc[r] \in {"reserve", "exec"}, stragglers = {}, qty[r] <= inventory,
           Take(r), pc' = [pc EXCEPT ![r] = "publish"], UNCHANGED <<qty, sent>>
    PROVE  StockPromise!Grant(r)
<1>1. r \notin sent
  BY DEF Custody
<1>2. \A q \in Requests : q # r => pc'[q] = pc[q]
  BY DEF TypeOK
<1>3. pc'[r] = "publish"
  BY DEF TypeOK
<1>4. Doomed' = Doomed
  BY <1>2, <1>3 DEF Doomed
<1>5. granted' = granted \cup {r} /\ r \notin granted
  BY <1>1, <1>2, <1>3 DEF granted, Take, TypeOK
<1>6. orders' = orders /\ r \notin orders
  BY <1>1, <1>2 DEF orders, Take, TypeOK
<1>7. /\ qty[r] <= available /\ available = Unsold
      /\ available' = available - qty[r]
  <2>1. inventory' = inventory - qty[r] /\ keyExists'
    BY DEF Take
  <2>2. Unsold' = Unsold - qty[r]
    BY <2>1, <1>4, UnsoldType, UnsoldNext
  <2>3. Unsold >= inventory
    BY UnsoldType
  <2> QED
    BY <2>1, <2>2, <2>3, UnsoldType DEF available
<1> QED
  BY <1>5, <1>6, <1>7, PromiseVars

(* Grants become orders (out), return at most what they were (back) or are  *)
(* lost.                                                                    *)
LEMMA StockSettling ==
    ASSUME TypeOK, UNCHANGED <<qty, keyExists>>,
           NEW out \in SUBSET granted, NEW back \in SUBSET (granted \ out),
           Unsold' \in Int, Unsold' <= Unsold + Total(back),
           orders' = orders \cup out,
           granted' \in SUBSET (granted \ (out \cup back))
    PROVE  Step
<1>1. Total(back) \in Nat
  <2>1. back \in SUBSET Requests
    BY DEF granted, TypeOK
  <2> QED
    BY <2>1, Totals
<1>2. available' \in 0..(available + Total(back))
  BY <1>1, UnsoldType DEF available
<1>3. StockPromise!Settle
  BY <1>2, PromiseVars
<1> QED
  BY <1>3 DEF Step, StockPromise!Next

(* Free units that shrink are lost; that is all the stock sees.             *)
LEMMA StockShrinks ==
    ASSUME TypeOK, UNCHANGED <<qty, keyExists>>,
           Unsold' \in Int, Unsold' <= Unsold,
           NEW out \in SUBSET granted, orders' = orders \cup out,
           granted' \in SUBSET (granted \ out)
    PROVE  Step
<1> DEFINE back == {}
<1>1. Total(back) = 0
  BY Totals
<1>2. /\ back \in SUBSET (granted \ out)
      /\ granted' \in SUBSET (granted \ (out \cup back))
  OBVIOUS
<1> HIDE DEF back
<1>3. Unsold' <= Unsold + Total(back)
  BY <1>1, UnsoldType
<1> QED
  BY <1>2, <1>3, StockSettling

(* A handler that leaves the doomed, or joins them, moves Total(Doomed).    *)
LEMMA DoomedMoves ==
    ASSUME TypeOK, NEW r \in Requests, UNCHANGED qty, NEW label,
           pc' = [pc EXCEPT ![r] = label]
    PROVE  /\ pc[r] # "compensate" /\ label # "compensate"
                 => Total(Doomed') = Total(Doomed)
           /\ pc[r] # "compensate" /\ label = "compensate"
                 => Total(Doomed') = Total(Doomed) + qty[r]
           /\ pc[r] = "compensate" /\ label # "compensate"
                 => Total(Doomed') = Total(Doomed) - qty[r]
<1>1. \A q \in Requests : q # r => pc'[q] = pc[q]
  BY DEF TypeOK
<1>2. pc'[r] = label
  BY DEF TypeOK
<1>3. ASSUME pc[r] # "compensate", label # "compensate"
      PROVE  Total(Doomed') = Total(Doomed)
  <2>1. Doomed' = Doomed
    BY <1>1, <1>2, <1>3 DEF Doomed
  <2> QED
    BY <2>1
<1>4. ASSUME pc[r] # "compensate", label = "compensate"
      PROVE  Total(Doomed') = Total(Doomed) + qty[r]
  <2>1. Doomed' = Doomed \cup {r} /\ r \in Requests \ Doomed
    BY <1>1, <1>2, <1>4 DEF Doomed
  <2>2. Doomed \in SUBSET Requests
    BY DEF Doomed
  <2> QED
    BY <2>1, <2>2, Totals
<1>5. ASSUME pc[r] = "compensate", label # "compensate"
      PROVE  Total(Doomed') = Total(Doomed) - qty[r]
  <2>1. Doomed = Doomed' \cup {r} /\ r \in Requests \ Doomed'
    BY <1>1, <1>2, <1>5 DEF Doomed
  <2>2. Doomed' \in SUBSET Requests
    BY DEF Doomed
  <2>3. Total(Doomed') \in Nat
    BY <2>2, Totals
  <2>4. Total(Doomed' \cup {r}) = Total(Doomed') + qty[r]
    BY <2>1, <2>2, Totals
  <2> QED
    BY <2>1, <2>3, <2>4, UnsoldType
<1> QED
  BY <1>3, <1>4, <1>5

(* A decrement below zero is no grant, and one whose reply is lost is lost. *)
LEMMA StockOvershoot ==
    ASSUME TypeOK, Custody, NEW r \in Requests, pc[r] \in {"reserve", "exec"},
           Take(r), UNCHANGED <<qty, sent>>,
           NEW label \in {"compensate", "done"}, pc' = [pc EXCEPT ![r] = label]
    PROVE  Step
<1>1. r \notin sent
  BY DEF Custody
<1>2. \A q \in Requests : q # r => pc'[q] = pc[q]
  BY DEF TypeOK
<1>3. pc'[r] = label
  BY DEF TypeOK
<1>4. granted' = granted
  BY <1>1, <1>2, <1>3 DEF granted, Take, TypeOK
<1>5. orders' = orders
  BY <1>1, <1>2 DEF orders, Take, TypeOK
<1>6. inventory' = inventory - qty[r] /\ keyExists' = keyExists
  BY DEF Take
<1>7. CASE label = "compensate"
  <2>1. Total(Doomed') = Total(Doomed) + qty[r]
    BY <1>7, DoomedMoves
  <2>2. Unsold' = Unsold
    BY <2>1, <1>6, UnsoldType, UnsoldNext
  <2>3. available' = available
    BY <2>2, <1>6 DEF available
  <2> QED
    BY <2>3, <1>4, <1>5 DEF Step, Idle
<1>8. CASE label = "done"
  <2>1. Total(Doomed') = Total(Doomed)
    BY <1>8, DoomedMoves
  <2>2. Unsold' = Unsold - qty[r]
    BY <2>1, <1>6, UnsoldType, UnsoldNext
  <2>3. Unsold' \in Int /\ Unsold' <= Unsold
    BY <2>2, UnsoldType
  <2>4. orders' = orders \cup {} /\ granted' \in SUBSET (granted \ {})
    BY <1>4, <1>5
  <2> QED
    BY <2>3, <2>4, <1>6, StockShrinks, {} \in SUBSET granted
<1> QED
  BY <1>7, <1>8

LEMMA DoomedLeaves ==
    ASSUME TypeOK, NEW r \in Requests, UNCHANGED qty, pc[r] = "compensate",
           pc' = [pc EXCEPT ![r] = "done"]
    PROVE  Total(Doomed') = Total(Doomed) - qty[r]
<1> DEFINE label == "done"
<1>1. pc' = [pc EXCEPT ![r] = label] /\ label # "compensate"
  OBVIOUS
<1> HIDE DEF label
<1> QED
  BY <1>1, DoomedMoves

(* The correction of a negative DECRBY changes nothing that was for sale.   *)
LEMMA StockCorrects ==
    ASSUME TypeOK, Custody, NEW r \in Requests, pc[r] = "compensate",
           pc' = [pc EXCEPT ![r] = "done"], UNCHANGED <<qty, sent, keyExists>>,
           taken \ {r} \subseteq taken' /\ taken' \subseteq taken,
           returned \subseteq returned', returned' \subseteq returned \cup {r},
           inventory' = inventory + qty[r] \/ inventory' = inventory
    PROVE  Step
<1>1. \A q \in Requests : q # r => pc'[q] = pc[q]
  BY DEF TypeOK
<1>2. pc'[r] = "done"
  BY DEF TypeOK
<1>3. granted' = granted
  BY <1>1, <1>2 DEF granted, TypeOK
<1>4. orders' = orders
  <2>1. r \notin sent
    BY DEF Custody
  <2> QED
    BY <1>1, <2>1 DEF orders, TypeOK
<1>5. Total(Doomed') = Total(Doomed) - qty[r]
  <2>1. UNCHANGED qty
    OBVIOUS
  <2> QED
    BY <2>1, DoomedLeaves
<1>6. Unsold' \in Int /\ Unsold' <= Unsold
  BY <1>5, UnsoldType, UnsoldNext
<1>7. orders' = orders \cup {} /\ granted' \in SUBSET (granted \ {})
  BY <1>3, <1>4
<1> QED
  BY <1>6, <1>7, StockShrinks, {} \in SUBSET granted

(* A request that answers without putting anything back has settled: it has *)
(* an order, or its units are lost.                                         *)
LEMMA StockSettles ==
    ASSUME "resent_incr" \notin Faults, TypeOK, Custody, BetweenSales,
           NEW r \in Requests, pc[r] \in {"publish", "rollback"},
           NEW label \in {"done", "lost"},
           pc' = [pc EXCEPT ![r] = label],
           NEW out \in SUBSET {r}, sent' = sent \cup out,
           UNCHANGED <<qty, inventory, keyExists, taken, returned>>
    PROVE  Step
<1>1. r \in taken /\ r \notin returned
  BY HeldIsTaken DEF Holders
<1>2. \A q \in Requests : q # r => pc'[q] = pc[q]
  BY DEF TypeOK
<1>3. r \in granted
  BY <1>1 DEF granted
<1>4. granted' \in SUBSET (granted \ {r})
  BY <1>2 DEF granted, TypeOK
<1> DEFINE new == {r} \cap sent'
<1>5. orders' = orders \cup new
  BY <1>1, <1>2 DEF orders, TypeOK
<1>6. Total(Doomed') = Total(Doomed)
  BY DoomedMoves
<1>7. Unsold' \in Int /\ Unsold' <= Unsold
  BY <1>6, UnsoldType, UnsoldNext
<1>8. new \in SUBSET granted /\ granted' \in SUBSET (granted \ new)
  BY <1>3, <1>4
<1> HIDE DEF new
<1> QED
  BY <1>5, <1>7, <1>8, StockShrinks

(* The rollback of an order returns what the order had been granted, even   *)
(* if SQS has the order.                                                    *)
LEMMA StockReturns ==
    ASSUME "resent_incr" \notin Faults, TypeOK, Custody, BetweenSales,
           keyExists, NEW r \in Requests, pc[r] = "rollback", PutBack(r),
           pc' = [pc EXCEPT ![r] = "done"], UNCHANGED <<qty, sent>>
    PROVE  Step
<1>1. r \in taken
  BY HeldIsTaken DEF Holders
<1>2. \A q \in Requests : q # r => pc'[q] = pc[q]
  BY DEF TypeOK
<1>3. pc'[r] = "done"
  BY DEF TypeOK
<1>4. r \in granted
  BY <1>1 DEF granted
<1>5. granted' = granted \ {r}
  BY <1>2, <1>3 DEF granted, PutBack, Restore, TypeOK
<1>6. orders' = orders
  BY <1>2 DEF orders, PutBack, Restore, TypeOK
<1>7. inventory' = inventory + qty[r] /\ keyExists'
  BY DEF PutBack
<1>8. Total(Doomed') = Total(Doomed)
  <2>1. pc[r] # "compensate" /\ "done" # "compensate"
    OBVIOUS
  <2> DEFINE label == "done"
  <2>2. pc' = [pc EXCEPT ![r] = label]
    OBVIOUS
  <2> HIDE DEF label
  <2>3. pc[r] # "compensate" /\ label # "compensate"
             => Total(Doomed') = Total(Doomed)
    BY <2>2, DoomedMoves
  <2> QED
    BY <2>1, <2>3 DEF label
<1>9. Unsold' = Unsold + qty[r]
  BY <1>7, <1>8, UnsoldType, UnsoldNext
<1>10. Total({r}) = qty[r]
  BY UnsoldType, UnitSumSingleton, Zenon DEF Total
<1> DEFINE back == {r}
           out == {}
<1>11. /\ out \in SUBSET granted /\ back \in SUBSET (granted \ out)
       /\ orders' = orders \cup out
       /\ granted' \in SUBSET (granted \ (out \cup back))
       /\ Total(back) = qty[r]
  BY <1>4, <1>5, <1>6, <1>10
<1>12. keyExists' = keyExists
  BY <1>7
<1> HIDE DEF back, out
<1>13. Unsold' \in Int /\ Unsold' <= Unsold + Total(back)
  BY <1>9, <1>11, UnsoldType
<1> QED
  BY <1>11, <1>12, <1>13, StockSettling

-----------------------------------------------------------------------------
(* Every step of the service is a step of the stock *)

LEMMA StockHandler ==
    ASSUME "resent_incr" \notin Faults, StockInv, BetweenSales,
           NEW r \in Requests, HandlerStep(r)
    PROVE  Step
<1> USE DEF StockInv
<1>1. keyExists
  <2>1. pc[r] \notin {"idle", "done", "lost"}
    BY DEF HandlerStep, Reserve, PublishOrder, CheckAdmission,
           UnknownStrategy, ReserveAtomic, ReserveLua, Watch, ReadInventory,
           Exec, ExecAborted, ReserveFails, ReserveUnacked, Compensate,
           CompensateFails, Publish, PublishFails, PublishUnacked, Rollback,
           RollbackFails
  <2> QED
    BY <2>1, RunningIsSeeded
<1>2. ASSUME \/ \E valid \in BOOLEAN : CheckAdmission(r, valid)
             \/ UnknownStrategy(r) \/ Watch(r) \/ ReadInventory(r)
             \/ ExecAborted(r) \/ ReserveFails(r)
      PROVE  Step
  <2>1. /\ pc[r] \in {"idle", "gate", "reserve", "read", "exec"}
        /\ UNCHANGED <<qty, inventory, keyExists, sent, taken, returned>>
    BY <1>2 DEF CheckAdmission, UnknownStrategy, Watch, ReadInventory,
         ExecAborted, ReserveFails, static, counter, history
  <2>2. \E label \in {"reserve", "read", "exec", "done"} :
           pc' = [pc EXCEPT ![r] = label]
    BY <1>2 DEF CheckAdmission, UnknownStrategy, Watch, ReadInventory,
         ExecAborted, ReserveFails, GoTo, Answer
  <2>3. PICK label \in {"reserve", "read", "exec", "done"} :
           pc' = [pc EXCEPT ![r] = label]
    BY <2>2
  <2>4. Idle
    BY <2>1, <2>3, StockAside
  <2> QED
    BY <2>4 DEF Step
<1>3. CASE ReserveAtomic(r)
  <2>1. /\ pc[r] = "reserve" /\ Take(r) /\ UNCHANGED <<qty, sent>>
        /\ pc' = [pc EXCEPT ![r] = IF inventory - qty[r] < 0
                                   THEN "compensate" ELSE "publish"]
    BY <1>3 DEF ReserveAtomic, GoTo, static
  <2>2. CASE inventory - qty[r] < 0
    <3>1. pc' = [pc EXCEPT ![r] = "compensate"]
      BY <2>1, <2>2
    <3> QED
      BY <2>1, <3>1, StockOvershoot
  <2>3. CASE ~(inventory - qty[r] < 0)
    <3>1. pc' = [pc EXCEPT ![r] = "publish"]
      BY <2>1, <2>3
    <3>2. qty[r] <= inventory
      BY <2>3, UnsoldType
    <3>3. StockPromise!Grant(r)
      BY <1>1, <2>1, <3>1, <3>2, StockGrant DEF BetweenSales
    <3> QED
      BY <3>3 DEF Step, StockPromise!Next
  <2> QED
    BY <2>2, <2>3
<1>4. CASE ReserveLua(r)
  <2>1. CASE Answer(r, "sold_out") /\ UNCHANGED <<counter, history>>
    <3>1. /\ pc[r] = "reserve" /\ pc' = [pc EXCEPT ![r] = "done"]
          /\ UNCHANGED <<qty, inventory, keyExists, sent, taken, returned>>
      BY <1>4, <2>1 DEF ReserveLua, Answer, static, counter, history
    <3>2. Idle
      BY <3>1, StockAside
    <3> QED
      BY <3>2 DEF Step
  <2>2. CASE inventory >= qty[r] /\ Take(r) /\ GoTo(r, "publish")
    <3>1. /\ pc[r] = "reserve" /\ Take(r) /\ UNCHANGED <<qty, sent>>
          /\ pc' = [pc EXCEPT ![r] = "publish"]
      BY <1>4, <2>2 DEF ReserveLua, GoTo, static
    <3>2. qty[r] <= inventory
      BY <2>2, UnsoldType
    <3>3. StockPromise!Grant(r)
      BY <1>1, <3>1, <3>2, StockGrant DEF BetweenSales
    <3> QED
      BY <3>3 DEF Step, StockPromise!Next
  <2> QED
    BY <1>4, <2>1, <2>2 DEF ReserveLua
<1>5. CASE Exec(r)
  <2>1. /\ pc[r] = "exec" /\ Take(r) /\ UNCHANGED <<qty, sent>>
        /\ pc' = [pc EXCEPT ![r] = "publish"]
    BY <1>5 DEF Exec, GoTo, static
  <2>2. qty[r] <= inventory
    BY <1>5 DEF Exec, WatchSound
  <2>3. StockPromise!Grant(r)
    BY <1>1, <2>1, <2>2, StockGrant DEF BetweenSales
  <2> QED
    BY <2>3 DEF Step, StockPromise!Next
<1>6. CASE ReserveUnacked(r)
  <2>1. /\ pc[r] \in {"reserve", "exec"} /\ Take(r) /\ UNCHANGED <<qty, sent>>
        /\ pc' = [pc EXCEPT ![r] = "done"]
    BY <1>6 DEF ReserveUnacked, Answer, static
  <2> QED
    BY <2>1, StockOvershoot
<1>7. CASE Compensate(r) \/ CompensateFails(r)
  <2>1. /\ pc[r] = "compensate" /\ pc' = [pc EXCEPT ![r] = "done"]
        /\ UNCHANGED <<qty, sent, keyExists>>
    BY <1>7 DEF Compensate, CompensateFails, PutBack, Answer, static, counter,
         history
  <2>2. /\ taken \ {r} \subseteq taken' /\ taken' \subseteq taken
        /\ returned \subseteq returned' /\ returned' \subseteq returned \cup {r}
        /\ inventory' = inventory + qty[r] \/ inventory' = inventory
    BY <1>7 DEF Compensate, CompensateFails, PutBack, Restore, counter, history
  <2> QED
    BY <2>1, <2>2, StockCorrects
<1>8. CASE Publish(r)
  <2> DEFINE label == "done"
             out == {r}
  <2>1. /\ pc[r] = "publish" /\ sent' = sent \cup out
        /\ UNCHANGED <<qty, inventory, keyExists, taken, returned>>
        /\ pc' = [pc EXCEPT ![r] = label]
    BY <1>8 DEF Publish, Answer, static, counter, history
  <2>2. label \in {"done", "lost"} /\ out \in SUBSET {r}
    OBVIOUS
  <2> HIDE DEF label, out
  <2> QED
    BY <2>1, <2>2, StockSettles
<1>9. CASE PublishFails(r) \/ PublishUnacked(r)
  <2>1. /\ pc[r] = "publish" /\ pc' = [pc EXCEPT ![r] = "rollback"]
        /\ UNCHANGED <<qty, inventory, keyExists, taken, returned>>
        /\ sent' = sent \/ sent' = sent \cup {r}
    BY <1>9 DEF PublishFails, PublishUnacked, GoTo, static, counter, history
  <2>2. \A q \in Requests : q # r => pc'[q] = pc[q]
    BY <2>1 DEF TypeOK
  <2>3. pc'[r] = "rollback"
    BY <2>1 DEF TypeOK
  <2>4. Doomed' = Doomed /\ granted' = granted /\ orders' = orders
    BY <2>1, <2>2, <2>3 DEF Doomed, granted, orders, TypeOK
  <2>5. Idle
    BY <2>1, <2>4, StockIdle
  <2> QED
    BY <2>5 DEF Step
<1>10. CASE Rollback(r)
  <2>1. /\ pc[r] = "rollback" /\ PutBack(r)
        /\ pc' = [pc EXCEPT ![r] = "done"] /\ UNCHANGED <<qty, sent>>
    BY <1>10 DEF Rollback, Answer, static
  <2> QED
    BY <1>1, <2>1, StockReturns
<1>11. CASE RollbackFails(r)
  <2> DEFINE label == "done"
             out == {}
  <2>1. /\ pc[r] = "rollback" /\ sent' = sent \cup out
        /\ UNCHANGED <<qty, inventory, keyExists, taken, returned>>
        /\ pc' = [pc EXCEPT ![r] = label]
    BY <1>11 DEF RollbackFails, Answer, static, counter, history
  <2>2. label \in {"done", "lost"} /\ out \in SUBSET {r}
    OBVIOUS
  <2> HIDE DEF label, out
  <2> QED
    BY <2>1, <2>2, StockSettles
<1> QED
  BY <1>2, <1>3, <1>4, <1>5, <1>6, <1>7, <1>8, <1>9, <1>10, <1>11
     DEF HandlerStep, Reserve, PublishOrder

(* A sale opens when the first replica seeds the counter, and at a reset.   *)
LEMMA StockOpens ==
    ASSUME TypeOK, granted' = {}, Doomed' = {}, granted = {},
           inventory' = InventoryCount, keyExists', taken' = {}, UNCHANGED qty
    PROVE  Step
<1>1. Total({}) = 0
  BY Totals
<1>2. Unsold' = InventoryCount
  BY <1>1, UnsoldNext, ApiAssumption
<1>3. available' = InventoryCount
  BY <1>2, ApiAssumption DEF available
<1>4. orders' = {}
  BY DEF orders
<1> QED
  BY <1>3, <1>4, PromiseVars DEF Step, StockPromise!Next

(* A crash loses what its handlers held, leaves them an order, or returns   *)
(* what they were putting back.                                             *)
LEMMA StockCrash ==
    ASSUME "resent_incr" \notin Faults, StockInv, BetweenSales,
           NEW p \in Replicas, Crash(p)
    PROVE  Step
<1> USE DEF StockInv
<1>1. PICK out \in SUBSET {r \in Requests : host[r] = p /\ pc[r] = "publish"} :
         sent' = sent \cup out
  BY DEF Crash
<1>2. PICK put \in SUBSET {r \in Requests :
              /\ host[r] = p
              /\ pc[r] \in {"compensate", "rollback"}
              /\ ~cancelled[r]} :
         /\ inventory' = inventory + Total(put)
         /\ Restore(put) /\ Total(put) \in Nat
  BY CrashUnseen
<1>3. UNCHANGED <<qty, keyExists>>
  BY DEF Crash, static
<1>4. \A r \in Requests : pc'[r] = pc[r] \/ (pc'[r] = "lost" /\ r \in Running)
  BY DEF Crash
<1>5. \A r \in put : pc'[r] = "lost" /\ r \in Requests
  BY <1>2 DEF Crash, Running
<1> DEFINE new == {r \in granted \ put : r \in sent' /\ pc'[r] = "lost"}
           back == put \cap granted
           fixed == put \cap Doomed
<1>6. new \in SUBSET granted /\ back \in SUBSET (granted \ new)
  OBVIOUS
<1>7. put = back \cup fixed /\ back \cap fixed = {}
  BY <1>2, HeldIsTaken DEF granted, Doomed, Holders
<1>8. orders' = orders \cup new
  <2>1. ASSUME NEW r \in orders PROVE r \in orders'
    <3>1. r \in Requests /\ r \notin put /\ pc'[r] = pc[r]
      BY <1>2, <1>4 DEF orders, TypeOK, Running
    <3> QED
      BY <1>1, <1>2, <3>1 DEF orders, Restore
  <2>2. ASSUME NEW r \in new PROVE r \in orders'
    <3>1. r \in Requests /\ r \in taken /\ r \notin returned
      BY HeldIsTaken DEF granted, TypeOK, Holders
    <3> QED
      BY <1>2, <3>1 DEF orders, Restore
  <2>3. ASSUME NEW r \in orders', r \notin orders PROVE r \in new
    <3>1. /\ r \in Requests /\ r \in taken /\ r \in sent' /\ r \notin put
          /\ r \notin returned /\ pc'[r] \in {"done", "lost"}
      BY <1>2, <2>3 DEF orders, Restore, TypeOK
    <3>2. pc[r] \in {"publish", "rollback"}
      BY <1>1, <1>4, <2>3, <3>1 DEF orders, Custody, Running
    <3> QED
      BY <1>4, <3>1, <3>2 DEF granted
  <2> QED
    BY <2>1, <2>2, <2>3
<1>9. granted' \in SUBSET (granted \ (new \cup back))
  <2> SUFFICES ASSUME NEW r \in granted'
               PROVE  r \in granted /\ r \notin new /\ r \notin put
    OBVIOUS
  <2>1. /\ r \in Requests /\ r \in taken /\ pc'[r] \in {"publish", "rollback"}
    BY <1>2 DEF granted, Restore, TypeOK
  <2> QED
    BY <1>4, <1>5, <2>1 DEF granted
<1>10. Doomed' \cup fixed \in SUBSET Doomed /\ Doomed' \cap fixed = {}
  BY <1>4, <1>5 DEF Doomed
<1>11. /\ Doomed \in SUBSET Requests /\ Doomed' \in SUBSET Requests
       /\ fixed \in SUBSET Requests /\ back \in SUBSET Requests
  BY <1>5 DEF Doomed
<1> HIDE DEF new, back, fixed
<1>12. /\ Total(Doomed' \cup fixed) <= Total(Doomed)
       /\ Total(Doomed' \cup fixed) = Total(Doomed') + Total(fixed)
       /\ Total(back \cup fixed) = Total(back) + Total(fixed)
  BY <1>7, <1>10, <1>11, Totals, TotalOfUnion
<1>13. /\ Total(Doomed) \in Nat /\ Total(Doomed') \in Nat
       /\ Total(fixed) \in Nat /\ Total(back) \in Nat
  BY <1>11, Totals
<1>14. Total(put) = Total(back) + Total(fixed)
  BY <1>7, <1>12, Zenon
<1>15. Unsold' \in Int /\ Unsold' <= Unsold + Total(back)
  BY <1>2, <1>3, <1>12, <1>13, <1>14, UnsoldType, UnsoldNext
<1> QED
  BY <1>3, <1>6, <1>8, <1>9, <1>15, StockSettling

LEMMA StockStepMaps ==
    ASSUME ResetMode # "any", "resent_incr" \notin Faults, StockInv,
           BetweenSales, [Next]_vars
    PROVE  Step
<1> USE DEF StockInv
<1>1. ASSUME NEW p \in Replicas, Start(p) \/ SeedThenDie(p) PROVE Step
  <2>1. Seed /\ UNCHANGED <<static, handlers, sent, history>>
    BY <1>1 DEF Start, SeedThenDie
  <2>2. Doomed' = Doomed /\ granted' = granted /\ orders' = orders
    BY <2>1 DEF Doomed, granted, orders, handlers, history
  <2>3. CASE keyExists
    <3>1. UNCHANGED <<qty, inventory, keyExists>>
      BY <2>1, <2>3 DEF Seed, static
    <3> QED
      BY <2>2, <3>1, StockIdle DEF Step
  <2>4. CASE ~keyExists
    <3>1. taken = {} /\ sent = {}
      BY <2>4 DEF SeededFirst
    <3>2. Doomed = {} /\ granted = {}
      BY <2>4, <3>1 DEF Doomed, granted, SeededFirst, Running, TypeOK
    <3>3. /\ inventory' = InventoryCount /\ keyExists' /\ taken' = {}
          /\ UNCHANGED qty
      BY <2>1, <2>4, <3>1 DEF Seed, static, history
    <3> QED
      BY <2>2, <3>2, <3>3, StockOpens
  <2> QED
    BY <2>3, <2>4
<1>2. ASSUME NEW p \in Replicas, Crash(p) PROVE Step
  BY <1>2, StockCrash
<1>3. ASSUME NEW r \in Requests, BadRequest(r) \/ Arrive(r) PROVE Step
  <2>1. /\ pc[r] \in {"idle", "gate", "reserve", "read", "exec"}
        /\ UNCHANGED <<qty, inventory, keyExists, sent, taken, returned>>
    BY <1>3 DEF BadRequest, Arrive, static, counter, history
  <2>2. \E label \in {"gate", "reserve", "done"} :
           pc' = [pc EXCEPT ![r] = label]
    BY <1>3 DEF BadRequest, Arrive, GoTo, Answer
  <2>3. PICK label \in {"gate", "reserve", "done"} :
           pc' = [pc EXCEPT ![r] = label]
    BY <2>2
  <2> QED
    BY <2>1, <2>3, StockAside DEF Step
<1>4. ASSUME UNCHANGED <<qty, inventory, keyExists, sent, taken, returned, pc>>
      PROVE  Step
  BY <1>4, StockIdle DEF Step, Doomed, granted, orders
<1>5. ASSUME NEW r \in Requests, HandlerStep(r) PROVE Step
  BY <1>5, StockHandler
<1>6. CASE Reset
  <2>1. Quiet /\ keyExists
    BY <1>6, ApiAssumption DEF Reset, SeededFirst
  <2>2. Doomed = {} /\ granted = {}
    BY <2>1 DEF Doomed, granted, Quiet, Running, TypeOK
  <2>3. /\ inventory' = InventoryCount /\ keyExists' /\ taken' = {}
        /\ UNCHANGED <<qty, pc>>
    BY <1>6, <2>1 DEF Reset, static, handlers
  <2>4. Doomed' = {} /\ granted' = {}
    BY <2>2, <2>3 DEF Doomed, granted
  <2> QED
    BY <2>2, <2>3, <2>4, StockOpens
(* A DECRBY that is sent again took units from nobody's grant. *)
<1>7. ASSUME NEW r \in Requests, ReserveResent(r) PROVE Step
  <2>1. /\ pc[r] = "reserve" /\ inventory' = inventory - qty[r]
        /\ taken' = taken \cup {r} /\ UNCHANGED <<qty, keyExists, returned>>
        /\ UNCHANGED <<pc, sent>>
    BY <1>7 DEF ReserveResent, Take, static, handlers
  <2>2. Doomed' = Doomed /\ granted' = granted /\ orders' = orders
    BY <2>1 DEF Doomed, granted, orders
  <2>3. Unsold' \in Int /\ Unsold' <= Unsold
    BY <2>1, <2>2, UnsoldType, UnsoldNext
  <2>4. /\ {} \in SUBSET granted /\ orders' = orders \cup {}
        /\ granted' \in SUBSET (granted \ {})
    BY <2>2
  <2> QED
    BY <2>1, <2>3, <2>4, StockShrinks
<1>8. ASSUME NEW r \in Requests PROVE ~PutBackResent(r)
  BY DEF PutBackResent
<1> QED
  BY <1>1, <1>2, <1>3, <1>4, <1>5, <1>6, <1>7, <1>8
     DEF Next, Cancel, vars, static, counter, handlers, history

(* The replicas implement a stock that is never negative and creates no     *)
(* unit, whatever the strategies and under every fault but an INCRBY that   *)
(* takes effect twice, as long as resets come between sales.                *)
THEOREM StockImplemented ==
    ASSUME ResetMode # "any", "resent_incr" \notin Faults
    PROVE  Spec => ImplementsStock
<1>1. Init => StockInv
  BY StockInit
<1>2. Init => BetweenSales
  BY DEF Init, BetweenSales
<1>3. StockInv /\ [Next]_vars => StockInv'
  BY StockStep
<1>4. StockInv /\ BetweenSales /\ [Next]_vars => BetweenSales'
  BY BetweenSalesStep DEF StockInv
<1>5. Init => StockPromise!Init
  BY DEF Init, StockPromise!Init
<1>6. StockInv /\ BetweenSales /\ [Next]_vars
         => [StockPromise!Next]_(StockPromise!stockVars)
  BY StockStepMaps
     DEF Step, Idle, StockPromise!stockVars, available, granted, orders
<1> QED
  BY <1>1, <1>2, <1>3, <1>4, <1>5, <1>6, PTL
     DEF Spec, ImplementsStock, StockPromise!Spec

-----------------------------------------------------------------------------
(* What the stock is worth, for the counter of this API *)

Books == INSTANCE Stock_proofs

LEMMA SameStock == ImplementsStock => Books!Spec
<1>1. StockPromise!Init <=> Books!Init
  BY DEF StockPromise!Init, Books!Init, available, granted, orders
<1>2. StockPromise!Next => Books!Next
  BY DEF StockPromise!Next, Books!Next, StockPromise!Open, Books!Open,
         StockPromise!Grant, Books!Grant, StockPromise!Settle, Books!Settle,
         StockPromise!UnitSum, Books!UnitSum, StockPromise!UnitSet,
         Books!UnitSet, StockPromise!Cardinality, Books!Cardinality,
         StockPromise!IsFiniteSet, Books!IsFiniteSet,
         available, granted, orders
<1>3. [StockPromise!Next]_(StockPromise!stockVars)
         => [Books!Next]_(Books!stockVars)
  BY <1>2
     DEF StockPromise!stockVars, Books!stockVars, available, granted, orders
<1> QED
  BY <1>1, <1>3, PTL DEF ImplementsStock, StockPromise!Spec, Books!Spec

(* What can be sold, what requests hold and what was ordered fit the        *)
(* inventory together, from one reset to the next.                          *)
StockFits == available + Total(granted) + Total(orders) <= InventoryCount

(* StockFits under every strategy and every fault but an INCRBY that takes  *)
(* effect twice: what holds of any Stock holds of the one that the counter  *)
(* of this API stands for.                                                  *)
THEOREM StockAlwaysFits ==
    ASSUME ResetMode # "any", "resent_incr" \notin Faults
    PROVE  Spec => []StockFits
<1>1. Spec => Books!Spec
  BY StockImplemented, SameStock, PTL
<1>2. IsFiniteSet(Requests) /\ InventoryCount \in Nat /\ MaxQuantity \in Nat
  BY ApiAssumption
<1>3. Books!Spec /\ qty \in [Requests -> 1..MaxQuantity] => []Books!Conserved
  <2>1. Books!IsFiniteSet(Requests)
    BY <1>2 DEF Books!IsFiniteSet, IsFiniteSet
  <2> QED
    BY <1>2, <2>1, Books!StockConserves, Zenon
<1>4. Init => qty \in [Requests -> 1..MaxQuantity]
  BY DEF Init
<1>5. Books!Conserved => StockFits
  BY DEF Books!Conserved, StockFits, Total, Books!UnitSum, UnitSum,
         Books!UnitSet, UnitSet, Books!Cardinality, Cardinality,
         Books!IsFiniteSet, IsFiniteSet
<1> QED
  BY <1>1, <1>3, <1>4, <1>5, PTL DEF Spec
=============================================================================
