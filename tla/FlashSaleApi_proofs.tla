------------------------ MODULE FlashSaleApi_proofs -------------------------
(* Theorems about FlashSaleApi, for every value of its constants. *)
EXTENDS FlashSaleApi, Units_proofs

-----------------------------------------------------------------------------
(* Sums of a state *)

(* The sums of a state: sets of requests and their quantities. *)
LEMMA Totals ==
    ASSUME TypeOK
    PROVE  /\ \A S \in SUBSET Requests : Total(S) \in Nat
           /\ \A T \in SUBSET Requests : \A S \in SUBSET T :
                 Total(S) <= Total(T)
           /\ \A S \in SUBSET Requests : \A r \in Requests \ S :
                 Total(S \cup {r}) = Total(S) + qty[r]
           /\ \A S \in SUBSET Requests : \A r \in S :
                 Total(S \ {r}) = Total(S) - qty[r]
           /\ Total({}) = 0
<1>1. MaxQuantity \in Nat /\ IsFiniteSet(Requests)
  BY ApiAssumption
<1>2. \A r \in Requests : qty[r] \in 1..MaxQuantity
  BY DEF TypeOK
<1>3. \A S \in SUBSET Requests : IsFiniteSet(S)
  BY <1>1, FS_Subset
<1>4. ASSUME NEW S \in SUBSET Requests PROVE Total(S) \in Nat
  <2>1. IsFiniteSet(S) /\ \A r \in S : qty[r] \in 1..MaxQuantity
    BY <1>2, <1>3
  <2> QED
    BY <1>1, <2>1, UnitSumType DEF Total
<1>5. ASSUME NEW T \in SUBSET Requests, NEW S \in SUBSET T
      PROVE  Total(S) <= Total(T)
  <2>1. IsFiniteSet(T) /\ \A r \in T : qty[r] \in 1..MaxQuantity
    BY <1>2, <1>3
  <2> QED
    BY <1>1, <2>1, UnitSumMonotone DEF Total
<1>6. ASSUME NEW S \in SUBSET Requests, NEW r \in Requests \ S
      PROVE  Total(S \cup {r}) = Total(S) + qty[r]
  <2>1. IsFiniteSet(S) /\ \A s \in S \cup {r} : qty[s] \in 1..MaxQuantity
    BY <1>2, <1>3
  <2> QED
    BY <1>1, <2>1, UnitSumAdd DEF Total
<1>7. ASSUME NEW S \in SUBSET Requests, NEW r \in S
      PROVE  Total(S \ {r}) = Total(S) - qty[r]
  <2>1. IsFiniteSet(S) /\ \A s \in S : qty[s] \in 1..MaxQuantity
    BY <1>2, <1>3
  <2> QED
    BY <1>1, <2>1, UnitSumRemove DEF Total
<1>8. Total({}) = 0
  BY UnitSumEmpty DEF Total
<1> QED
  BY <1>4, <1>5, <1>6, <1>7, <1>8

(* Sums of a union: never more than the sum of the parts, and exactly that  *)
(* if they are disjoint.                                                    *)
LEMMA TotalOfUnion ==
    ASSUME TypeOK, NEW S \in SUBSET Requests, NEW T \in SUBSET Requests
    PROVE  /\ Total(S \cup T) <= Total(S) + Total(T)
           /\ S \cap T = {} => Total(S \cup T) = Total(S) + Total(T)
<1>1. MaxQuantity \in Nat /\ IsFiniteSet(S) /\ IsFiniteSet(T)
  BY ApiAssumption, FS_Subset
<1>2. \A r \in S \cup T : qty[r] \in 1..MaxQuantity
  BY DEF TypeOK
<1> QED
  BY <1>1, <1>2, UnitSumUnion, UnitSumDisjoint DEF Total

-----------------------------------------------------------------------------
(* Type correctness *)

LEMMA TypeInit == Init => TypeOK
<1> SUFFICES ASSUME Init PROVE TypeOK
  OBVIOUS
<1>1. 0 \in 0..(RetryLimit - 1)
  BY ApiAssumption
<1>2. /\ pc \in [Requests -> Labels]
      /\ response \in [Requests -> Answers]
  BY DEF Init, Labels, Answers
<1>3. /\ up \in [Replicas -> BOOLEAN]
      /\ cancelled \in [Requests -> BOOLEAN]
  BY DEF Init
<1>4. current \in [Requests -> Int]
  BY DEF Init
<1>5. attempts \in [Requests -> 0..(RetryLimit - 1)]
  BY <1>1 DEF Init
<1>6. /\ inventory \in Int
      /\ strategy \in [Replicas -> Strategies]
      /\ host \in [Requests -> Replicas]
      /\ qty \in [Requests -> 1..MaxQuantity]
  BY DEF Init
<1>7. /\ watchers \subseteq Requests
      /\ sent \subseteq Requests
      /\ taken \subseteq Requests
      /\ doubled \subseteq Requests
      /\ surplus \subseteq Requests
      /\ returned \subseteq Requests
      /\ resent \subseteq Requests
      /\ stragglers \subseteq Requests
      /\ baseline \subseteq Requests
  BY DEF Init
<1>8. keyExists \in BOOLEAN
  BY Zenon DEF Init
<1> QED
  BY <1>2, <1>3, <1>4, <1>5, <1>6, <1>7, <1>8, Zenon DEF TypeOK

(* One step of a handler keeps the types. *)
LEMMA TypeHandler ==
    ASSUME TypeOK, NEW r \in Requests, HandlerStep(r)
    PROVE  TypeOK'
<1> USE ApiAssumption DEF static, counter, handlers, history
<1>1. ASSUME NEW valid \in BOOLEAN, CheckAdmission(r, valid) PROVE TypeOK'
  BY <1>1 DEF TypeOK, CheckAdmission, GoTo, Answer, Labels, Answers
<1>2. CASE UnknownStrategy(r)
  BY <1>2 DEF TypeOK, UnknownStrategy, Answer, Labels, Answers
<1>3. CASE ReserveAtomic(r)
  BY <1>3 DEF TypeOK, ReserveAtomic, Take, GoTo, Labels, Answers
<1>4. CASE ReserveLua(r)
  BY <1>4 DEF TypeOK, ReserveLua, Take, GoTo, Answer, Labels, Answers
<1>5. CASE Watch(r)
  BY <1>5 DEF TypeOK, Watch, GoTo, Labels
<1>6. CASE ReadInventory(r)
  BY <1>6 DEF TypeOK, ReadInventory, GoTo, Answer, Labels, Answers
<1>7. CASE Exec(r)
  BY <1>7 DEF TypeOK, Exec, Take, GoTo, Labels
<1>8. CASE ExecAborted(r)
  BY <1>8 DEF TypeOK, ExecAborted, GoTo, Answer, Labels, Answers
<1>9. CASE ReserveFails(r)
  BY <1>9 DEF TypeOK, ReserveFails, Answer, Labels, Answers
<1>10. CASE ReserveUnacked(r)
  BY <1>10 DEF TypeOK, ReserveUnacked, Take, Answer, Labels, Answers
<1>11. CASE Compensate(r)
  BY <1>11 DEF TypeOK, Compensate, PutBack, Restore, Answer, Labels, Answers
<1>12. CASE CompensateFails(r)
  BY <1>12 DEF TypeOK, CompensateFails, Answer, Labels, Answers
<1>13. CASE Publish(r)
  BY <1>13 DEF TypeOK, Publish, Answer, Labels, Answers
<1>14. CASE PublishFails(r)
  BY <1>14 DEF TypeOK, PublishFails, GoTo, Labels
<1>15. CASE PublishUnacked(r)
  BY <1>15 DEF TypeOK, PublishUnacked, GoTo, Labels
<1>16. CASE Rollback(r)
  BY <1>16 DEF TypeOK, Rollback, PutBack, Restore, Answer, Labels, Answers
<1>17. CASE RollbackFails(r)
  BY <1>17 DEF TypeOK, RollbackFails, Answer, Labels, Answers
<1> QED
  BY <1>1, <1>2, <1>3, <1>4, <1>5, <1>6, <1>7, <1>8, <1>9, <1>10, <1>11,
     <1>12, <1>13, <1>14, <1>15, <1>16, <1>17
     DEF HandlerStep, Reserve, PublishOrder

(* A task dies with units put back (back) and messages stored unseen. *)
LEMMA CrashUnseen ==
    ASSUME TypeOK, NEW p \in Replicas, Crash(p)
    PROVE  \E back \in SUBSET {r \in Requests :
              /\ host[r] = p
              /\ pc[r] \in {"compensate", "rollback"}
              /\ ~cancelled[r]} :
             /\ inventory' = inventory + Total(back)
             /\ watchers' = {r \in watchers : back = {} /\ host[r] # p}
             /\ Restore(back)
             /\ back \in SUBSET Requests /\ Total(back) \in Nat
             /\ back = {} => Total(back) = 0
<1>1. PICK back \in SUBSET {r \in Requests :
              /\ host[r] = p
              /\ pc[r] \in {"compensate", "rollback"}
              /\ ~cancelled[r]} :
             /\ inventory' = inventory + Total(back)
             /\ watchers' = {r \in watchers : back = {} /\ host[r] # p}
             /\ Restore(back)
  BY DEF Crash
<1>2. back \in SUBSET Requests
  OBVIOUS
<1>3. Total(back) \in Nat /\ Total({}) = 0
  BY <1>2, Totals
<1> QED
  BY <1>1, <1>2, <1>3

LEMMA TypeStep == TypeOK /\ [Next]_vars => TypeOK'
<1> SUFFICES ASSUME TypeOK, [Next]_vars PROVE TypeOK'
  OBVIOUS
<1> USE ApiAssumption DEF static, counter, handlers, history
<1>1. ASSUME NEW p \in Replicas, Start(p) PROVE TypeOK'
  BY <1>1 DEF TypeOK, Start, Seed
<1>2. ASSUME NEW p \in Replicas, SeedThenDie(p) PROVE TypeOK'
  BY <1>2 DEF TypeOK, SeedThenDie, Seed
<1>3. ASSUME NEW p \in Replicas, Crash(p) PROVE TypeOK'
  <2>1. PICK back \in SUBSET Requests :
               /\ inventory' = inventory + Total(back)
               /\ watchers' = {r \in watchers : back = {} /\ host[r] # p}
               /\ Restore(back)
               /\ Total(back) \in Nat
    BY <1>3, CrashUnseen
  <2> QED
    BY <1>3, <2>1 DEF TypeOK, Crash, Restore, Labels
<1>4. ASSUME NEW r \in Requests, BadRequest(r) PROVE TypeOK'
  BY <1>4 DEF TypeOK, BadRequest, Answer, Labels, Answers
<1>5. ASSUME NEW r \in Requests, Arrive(r) PROVE TypeOK'
  BY <1>5 DEF TypeOK, Arrive, GoTo, Labels
<1>6. ASSUME NEW r \in Requests, Cancel(r) PROVE TypeOK'
  BY <1>6 DEF TypeOK, Cancel
<1>7. ASSUME NEW r \in Requests, ReserveResent(r) PROVE TypeOK'
  BY <1>7 DEF TypeOK, ReserveResent, Take
<1>8. ASSUME NEW r \in Requests, PutBackResent(r) PROVE TypeOK'
  BY <1>8 DEF TypeOK, PutBackResent, PutBack, Restore
<1>9. ASSUME NEW r \in Requests, HandlerStep(r) PROVE TypeOK'
  BY <1>9, TypeHandler
<1>10. CASE Reset
  BY <1>10 DEF TypeOK, Reset, Holders
<1>11. CASE UNCHANGED vars
  BY <1>11 DEF TypeOK, vars
<1> QED
  BY <1>1, <1>2, <1>3, <1>4, <1>5, <1>6, <1>7, <1>8, <1>9, <1>10, <1>11
     DEF Next

(* Every variable keeps its type under every strategy, fault and reset; the *)
(* loop counter of the optimistic strategy stays below its limit.           *)
THEOREM TypeCorrect == Spec => []TypeOK
  BY TypeInit, TypeStep, PTL DEF Spec

-----------------------------------------------------------------------------
(* Optimistic locking *)

LEMMA WatchInit == Init => WatchSound
  BY DEF Init, WatchSound

(* Every write of the counter empties watchers; what remains is the life of *)
(* a transaction from WATCH to EXEC.                                        *)
LEMMA WatchHandler ==
    ASSUME TypeOK, WatchSound, NEW r \in Requests, HandlerStep(r)
    PROVE  WatchSound'
<1> USE ApiAssumption DEF static, counter, handlers, history
<1>1. ASSUME NEW valid \in BOOLEAN, CheckAdmission(r, valid)
      PROVE  WatchSound'
  BY <1>1 DEF TypeOK, WatchSound, CheckAdmission, GoTo, Answer
<1>2. CASE UnknownStrategy(r)
  BY <1>2 DEF TypeOK, WatchSound, UnknownStrategy, Answer
<1>3. CASE ReserveAtomic(r)
  BY <1>3 DEF WatchSound, ReserveAtomic, Take
<1>4. CASE ReserveLua(r)
  BY <1>4 DEF TypeOK, WatchSound, ReserveLua, Take, GoTo, Answer
<1>5. CASE Watch(r)
  BY <1>5 DEF TypeOK, WatchSound, Watch, GoTo
<1>6. CASE ReadInventory(r)
  BY <1>6 DEF TypeOK, WatchSound, ReadInventory, GoTo, Answer
<1>7. CASE Exec(r)
  BY <1>7 DEF WatchSound, Exec, Take
<1>8. CASE ExecAborted(r)
  BY <1>8 DEF TypeOK, WatchSound, ExecAborted, GoTo, Answer
<1>9. CASE ReserveFails(r)
  BY <1>9 DEF TypeOK, WatchSound, ReserveFails, Answer
<1>10. CASE ReserveUnacked(r)
  BY <1>10 DEF WatchSound, ReserveUnacked, Take
<1>11. CASE Compensate(r)
  BY <1>11 DEF WatchSound, Compensate, PutBack
<1>12. CASE CompensateFails(r)
  BY <1>12 DEF TypeOK, WatchSound, CompensateFails, Answer
<1>13. CASE Publish(r)
  BY <1>13 DEF TypeOK, WatchSound, Publish, Answer
<1>14. CASE PublishFails(r)
  BY <1>14 DEF TypeOK, WatchSound, PublishFails, GoTo
<1>15. CASE PublishUnacked(r)
  BY <1>15 DEF TypeOK, WatchSound, PublishUnacked, GoTo
<1>16. CASE Rollback(r)
  BY <1>16 DEF WatchSound, Rollback, PutBack
<1>17. CASE RollbackFails(r)
  BY <1>17 DEF TypeOK, WatchSound, RollbackFails, Answer
<1> QED
  BY <1>1, <1>2, <1>3, <1>4, <1>5, <1>6, <1>7, <1>8, <1>9, <1>10, <1>11,
     <1>12, <1>13, <1>14, <1>15, <1>16, <1>17
     DEF HandlerStep, Reserve, PublishOrder

LEMMA WatchStep == TypeOK /\ WatchSound /\ [Next]_vars => WatchSound'
<1> SUFFICES ASSUME TypeOK, WatchSound, [Next]_vars PROVE WatchSound'
  OBVIOUS
<1> USE ApiAssumption DEF static, counter, handlers, history
<1>1. ASSUME NEW p \in Replicas, Start(p) PROVE WatchSound'
  BY <1>1 DEF TypeOK, WatchSound, Start, Seed
<1>2. ASSUME NEW p \in Replicas, SeedThenDie(p) PROVE WatchSound'
  BY <1>2 DEF TypeOK, WatchSound, SeedThenDie, Seed
<1>3. ASSUME NEW p \in Replicas, Crash(p) PROVE WatchSound'
  <2>1. PICK back \in SUBSET Requests :
               /\ inventory' = inventory + Total(back)
               /\ watchers' = {r \in watchers : back = {} /\ host[r] # p}
               /\ back = {} => Total(back) = 0
    BY <1>3, CrashUnseen
  <2> QED
    BY <1>3, <2>1 DEF TypeOK, WatchSound, Crash
<1>4. ASSUME NEW r \in Requests, BadRequest(r) PROVE WatchSound'
  BY <1>4 DEF TypeOK, WatchSound, BadRequest, Answer
<1>5. ASSUME NEW r \in Requests, Arrive(r) PROVE WatchSound'
  BY <1>5 DEF TypeOK, WatchSound, Arrive, GoTo
<1>6. ASSUME NEW r \in Requests, Cancel(r) PROVE WatchSound'
  BY <1>6 DEF TypeOK, WatchSound, Cancel
<1>7. ASSUME NEW r \in Requests, ReserveResent(r) PROVE WatchSound'
  BY <1>7 DEF TypeOK, WatchSound, ReserveResent, Take
<1>8. ASSUME NEW r \in Requests, PutBackResent(r) PROVE WatchSound'
  BY <1>8 DEF TypeOK, WatchSound, PutBackResent, PutBack, Restore
<1>9. ASSUME NEW r \in Requests, HandlerStep(r) PROVE WatchSound'
  BY <1>9, WatchHandler
<1>10. CASE Reset
  BY <1>10 DEF WatchSound, Reset
<1>11. CASE UNCHANGED vars
  BY <1>11 DEF WatchSound, vars
<1> QED
  BY <1>1, <1>2, <1>3, <1>4, <1>5, <1>6, <1>7, <1>8, <1>9, <1>10, <1>11
     DEF Next

LEMMA WatchCorrect == Spec => [](TypeOK /\ WatchSound)
<1>1. Init => TypeOK /\ WatchSound
  BY TypeInit, WatchInit
<1>2. TypeOK /\ WatchSound /\ [Next]_vars => (TypeOK /\ WatchSound)'
  BY TypeStep, WatchStep
<1> QED
  BY <1>1, <1>2, PTL DEF Spec

-----------------------------------------------------------------------------
(* Custody of units *)

LEMMA SeededInit == Init => SeededFirst
  BY DEF Init, SeededFirst, Running

(* Only a seeded replica runs handlers, so the counter exists. *)
LEMMA SeededHandler ==
    ASSUME TypeOK, SeededFirst, NEW r \in Requests, HandlerStep(r)
    PROVE  SeededFirst'
<1> USE ApiAssumption DEF static, counter, handlers, history
<1>1. ASSUME NEW valid \in BOOLEAN, CheckAdmission(r, valid)
      PROVE  SeededFirst'
  BY <1>1 DEF TypeOK, SeededFirst, Running, CheckAdmission, GoTo, Answer
<1>2. CASE UnknownStrategy(r)
  BY <1>2 DEF TypeOK, SeededFirst, Running, UnknownStrategy, Answer
<1>3. CASE ReserveAtomic(r)
  BY <1>3 DEF TypeOK, SeededFirst, Running, ReserveAtomic, Take, GoTo
<1>4. CASE ReserveLua(r)
  BY <1>4 DEF TypeOK, SeededFirst, Running, ReserveLua, Take, GoTo, Answer
<1>5. CASE Watch(r)
  BY <1>5 DEF TypeOK, SeededFirst, Running, Watch, GoTo
<1>6. CASE ReadInventory(r)
  BY <1>6 DEF TypeOK, SeededFirst, Running, ReadInventory, GoTo, Answer
<1>7. CASE Exec(r)
  BY <1>7 DEF TypeOK, SeededFirst, Running, Exec, Take, GoTo
<1>8. CASE ExecAborted(r)
  BY <1>8 DEF TypeOK, SeededFirst, Running, ExecAborted, GoTo, Answer
<1>9. CASE ReserveFails(r)
  BY <1>9 DEF TypeOK, SeededFirst, Running, ReserveFails, Answer
<1>10. CASE ReserveUnacked(r)
  BY <1>10 DEF TypeOK, SeededFirst, Running, ReserveUnacked, Take, Answer
<1>11. CASE Compensate(r)
  BY <1>11 DEF TypeOK, SeededFirst, Running, Compensate, PutBack, Restore,
             Answer
<1>12. CASE CompensateFails(r)
  BY <1>12 DEF TypeOK, SeededFirst, Running, CompensateFails, Answer
<1>13. CASE Publish(r)
  BY <1>13 DEF TypeOK, SeededFirst, Running, Publish, Answer
<1>14. CASE PublishFails(r)
  BY <1>14 DEF TypeOK, SeededFirst, Running, PublishFails, GoTo
<1>15. CASE PublishUnacked(r)
  BY <1>15 DEF TypeOK, SeededFirst, Running, PublishUnacked, GoTo
<1>16. CASE Rollback(r)
  BY <1>16 DEF TypeOK, SeededFirst, Running, Rollback, PutBack, Restore, Answer
<1>17. CASE RollbackFails(r)
  BY <1>17 DEF TypeOK, SeededFirst, Running, RollbackFails, Answer
<1> QED
  BY <1>1, <1>2, <1>3, <1>4, <1>5, <1>6, <1>7, <1>8, <1>9, <1>10, <1>11,
     <1>12, <1>13, <1>14, <1>15, <1>16, <1>17
     DEF HandlerStep, Reserve, PublishOrder

LEMMA SeededStep ==
    ASSUME TypeOK, SeededFirst, [Next]_vars
    PROVE  SeededFirst'
<1> USE ApiAssumption DEF static, counter, handlers, history
<1>1. ASSUME NEW p \in Replicas, Start(p) PROVE SeededFirst'
  BY <1>1 DEF TypeOK, SeededFirst, Running, Start, Seed
<1>2. ASSUME NEW p \in Replicas, SeedThenDie(p) PROVE SeededFirst'
  BY <1>2 DEF TypeOK, SeededFirst, Running, SeedThenDie, Seed
<1>3. ASSUME NEW p \in Replicas, Crash(p) PROVE SeededFirst'
  <2>1. keyExists
    BY <1>3 DEF Crash, SeededFirst
  <2> QED
    BY <1>3, <2>1 DEF TypeOK, SeededFirst, Running, Crash
<1>4. ASSUME NEW r \in Requests, BadRequest(r) PROVE SeededFirst'
  BY <1>4 DEF TypeOK, SeededFirst, Running, BadRequest, Answer
<1>5. ASSUME NEW r \in Requests, Arrive(r) PROVE SeededFirst'
  BY <1>5 DEF TypeOK, SeededFirst, Running, Arrive, GoTo
<1>6. ASSUME NEW r \in Requests, Cancel(r) PROVE SeededFirst'
  BY <1>6 DEF TypeOK, SeededFirst, Running, Cancel
<1>7. ASSUME NEW r \in Requests, ReserveResent(r) PROVE SeededFirst'
  BY <1>7 DEF TypeOK, SeededFirst, Running, ReserveResent, Take
<1>8. ASSUME NEW r \in Requests, PutBackResent(r) PROVE SeededFirst'
  BY <1>8 DEF TypeOK, SeededFirst, Running, PutBackResent, PutBack, Restore
<1>9. ASSUME NEW r \in Requests, HandlerStep(r) PROVE SeededFirst'
  BY <1>9, SeededHandler
<1>10. CASE Reset
  BY <1>10 DEF TypeOK, SeededFirst, Running, Reset
<1>11. CASE UNCHANGED vars
  BY <1>11 DEF TypeOK, SeededFirst, Running, vars
<1> QED
  BY <1>1, <1>2, <1>3, <1>4, <1>5, <1>6, <1>7, <1>8, <1>9, <1>10, <1>11
     DEF Next

LEMMA CustodyInit == Init => Custody
  BY DEF Init, Custody, Holders, Disowned

(* A request takes units before it has any and settles them once; an order  *)
(* whose publish was reported as failed is disowned when it puts back.      *)
LEMMA CustodyHandler ==
    ASSUME TypeOK, Custody, NEW r \in Requests, HandlerStep(r)
    PROVE  Custody'
<1> USE ApiAssumption DEF static, counter, handlers, history, Holders,
                          Mode, Disowned, LosesAcks, ResendsDecr, ResendsIncr
<1>1. ASSUME NEW valid \in BOOLEAN, CheckAdmission(r, valid)
      PROVE  Custody'
  BY <1>1 DEF TypeOK, Custody, CheckAdmission, GoTo, Answer
<1>2. CASE UnknownStrategy(r)
  BY <1>2 DEF TypeOK, Custody, UnknownStrategy, Answer
<1>3. CASE ReserveAtomic(r)
  BY <1>3 DEF TypeOK, Custody, ReserveAtomic, Take, GoTo
<1>4. CASE ReserveLua(r)
  BY <1>4 DEF TypeOK, Custody, ReserveLua, Take, GoTo, Answer
<1>5. CASE Watch(r)
  BY <1>5 DEF TypeOK, Custody, Watch, GoTo
<1>6. CASE ReadInventory(r)
  BY <1>6 DEF TypeOK, Custody, ReadInventory, GoTo, Answer
<1>7. CASE Exec(r)
  BY <1>7 DEF TypeOK, Custody, Exec, Take, GoTo
<1>8. CASE ExecAborted(r)
  BY <1>8 DEF TypeOK, Custody, ExecAborted, GoTo, Answer
<1>9. CASE ReserveFails(r)
  BY <1>9 DEF TypeOK, Custody, ReserveFails, Answer
<1>10. CASE ReserveUnacked(r)
  BY <1>10 DEF TypeOK, Custody, ReserveUnacked, Take, Answer
<1>11. CASE Compensate(r)
  BY <1>11 DEF TypeOK, Custody, Compensate, PutBack, Restore, Answer
<1>12. CASE CompensateFails(r)
  BY <1>12 DEF TypeOK, Custody, CompensateFails, Answer
<1>13. CASE Publish(r)
  BY <1>13 DEF TypeOK, Custody, Publish, Answer
<1>14. CASE PublishFails(r)
  BY <1>14 DEF TypeOK, Custody, PublishFails, GoTo
<1>15. CASE PublishUnacked(r)
  BY <1>15 DEF TypeOK, Custody, PublishUnacked, GoTo
<1>16. CASE Rollback(r)
  BY <1>16 DEF TypeOK, Custody, Rollback, PutBack, Restore, Answer
<1>17. CASE RollbackFails(r)
  BY <1>17 DEF TypeOK, Custody, RollbackFails, Answer
<1> QED
  BY <1>1, <1>2, <1>3, <1>4, <1>5, <1>6, <1>7, <1>8, <1>9, <1>10, <1>11,
     <1>12, <1>13, <1>14, <1>15, <1>16, <1>17
     DEF HandlerStep, Reserve, PublishOrder

LEMMA CustodyStep ==
    ASSUME TypeOK, Custody, [Next]_vars
    PROVE  Custody'
<1> USE ApiAssumption DEF static, counter, handlers, history, Holders,
                          Mode, Disowned, LosesAcks, ResendsDecr, ResendsIncr
<1>1. ASSUME NEW p \in Replicas, Start(p) PROVE Custody'
  BY <1>1 DEF TypeOK, Custody, Start, Seed
<1>2. ASSUME NEW p \in Replicas, SeedThenDie(p) PROVE Custody'
  BY <1>2 DEF TypeOK, Custody, SeedThenDie, Seed
<1>3. ASSUME NEW p \in Replicas, Crash(p) PROVE Custody'
  BY <1>3 DEF TypeOK, Custody, Running, Crash, Restore
<1>4. ASSUME NEW r \in Requests, BadRequest(r) PROVE Custody'
  BY <1>4 DEF TypeOK, Custody, BadRequest, Answer
<1>5. ASSUME NEW r \in Requests, Arrive(r) PROVE Custody'
  BY <1>5 DEF TypeOK, Custody, Arrive, GoTo
<1>6. ASSUME NEW r \in Requests, Cancel(r) PROVE Custody'
  BY <1>6 DEF TypeOK, Custody, Cancel
<1>7. ASSUME NEW r \in Requests, ReserveResent(r) PROVE Custody'
  BY <1>7 DEF TypeOK, Custody, ReserveResent, Take
<1>8. ASSUME NEW r \in Requests, PutBackResent(r) PROVE Custody'
  BY <1>8 DEF TypeOK, Custody, PutBackResent, PutBack, Restore
<1>9. ASSUME NEW r \in Requests, HandlerStep(r) PROVE Custody'
  BY <1>9, CustodyHandler
<1>10. CASE Reset
  BY <1>10 DEF TypeOK, Custody, Reset
<1>11. CASE UNCHANGED vars
  BY <1>11 DEF TypeOK, Custody, vars
<1> QED
  BY <1>1, <1>2, <1>3, <1>4, <1>5, <1>6, <1>7, <1>8, <1>9, <1>10, <1>11
     DEF Next

-----------------------------------------------------------------------------
(* The ledger *)

(* What leaves counter and ledger alone leaves them in agreement. *)
LEMMA LedgerFrame ==
    ASSUME Ledger,
           UNCHANGED <<inventory, keyExists, taken, doubled, surplus, qty>>
    PROVE  Ledger'
BY DEF Ledger, Total

(* A decrement enters the books of a request that had none, or is doubled. *)
LEMMA LedgerTake ==
    ASSUME TypeOK, Ledger, keyExists, NEW r \in Requests, r \notin doubled,
           Take(r), UNCHANGED qty
    PROVE  Ledger'
<1>1. /\ taken \in SUBSET Requests /\ doubled \in SUBSET Requests
      /\ surplus \in SUBSET Requests
  BY DEF TypeOK
<1>2. /\ Total(taken) \in Nat /\ Total(doubled) \in Nat
      /\ Total(surplus) \in Nat /\ qty[r] \in Nat
  <2>1. qty[r] \in 1..MaxQuantity
    BY DEF TypeOK
  <2> QED
    BY <1>1, <2>1, Totals
<1>3. inventory' = inventory - qty[r] /\ keyExists' = keyExists
  BY DEF Take
<1>4. CASE r \notin taken
  <2>1. Total(taken \cup {r}) = Total(taken) + qty[r]
    BY <1>1, <1>4, Totals
  <2>2. taken' = taken \cup {r} /\ doubled' = doubled /\ surplus' = surplus
    BY <1>4 DEF Take
  <2>3. /\ Total(taken)' = Total(taken \cup {r})
        /\ Total(doubled)' = Total(doubled)
        /\ Total(surplus)' = Total(surplus)
    BY <2>2, Zenon DEF Total
  <2> QED
    BY <1>2, <1>3, <2>1, <2>3, ApiAssumption DEF Ledger
<1>5. CASE r \in taken
  <2>1. Total(doubled \cup {r}) = Total(doubled) + qty[r]
    BY <1>1, Totals
  <2>2. taken' = taken /\ doubled' = doubled \cup {r} /\ surplus' = surplus
    BY <1>5 DEF Take
  <2>3. /\ Total(taken)' = Total(taken)
        /\ Total(doubled)' = Total(doubled \cup {r})
        /\ Total(surplus)' = Total(surplus)
    BY <2>2, Zenon DEF Total
  <2> QED
    BY <1>2, <1>3, <2>1, <2>3, ApiAssumption DEF Ledger
<1> QED
  BY <1>4, <1>5

(* Increments undo a second decrement, or the first, or are in surplus. *)
LEMMA LedgerRestore ==
    ASSUME TypeOK, Ledger, keyExists, NEW R \in SUBSET Requests,
           doubled \subseteq taken, R \cap surplus = {}, Restore(R),
           inventory' = inventory + Total(R), UNCHANGED <<keyExists, qty>>
    PROVE  Ledger'
<1> DEFINE twice == R \cap doubled
           once  == R \cap (taken \ doubled)
           never == R \ taken
<1>1. /\ twice \in SUBSET Requests /\ once \in SUBSET Requests
      /\ never \in SUBSET Requests /\ twice \cup once \in SUBSET Requests
      /\ taken' \in SUBSET Requests /\ doubled' \in SUBSET Requests
      /\ taken \in SUBSET Requests /\ doubled \in SUBSET Requests
      /\ surplus \in SUBSET Requests
  BY DEF TypeOK, Restore
<1>2. /\ R = (twice \cup once) \cup never
      /\ (twice \cup once) \cap never = {} /\ twice \cap once = {}
      /\ taken = taken' \cup once /\ taken' \cap once = {}
      /\ doubled = doubled' \cup twice /\ doubled' \cap twice = {}
      /\ surplus' = surplus \cup never /\ surplus \cap never = {}
  BY DEF Restore
<1> HIDE DEF twice, once, never
<1>3. /\ Total((twice \cup once) \cup never)
            = Total(twice \cup once) + Total(never)
      /\ Total(twice \cup once) = Total(twice) + Total(once)
      /\ Total(taken' \cup once) = Total(taken') + Total(once)
      /\ Total(doubled' \cup twice) = Total(doubled') + Total(twice)
      /\ Total(surplus \cup never) = Total(surplus) + Total(never)
  BY <1>1, <1>2, TotalOfUnion
<1>4. /\ Total(R) = Total(twice \cup once) + Total(never)
      /\ Total(taken) = Total(taken') + Total(once)
      /\ Total(doubled) = Total(doubled') + Total(twice)
  BY <1>2, <1>3, Zenon
<1>5. /\ Total(taken)' = Total(taken')
      /\ Total(doubled)' = Total(doubled')
      /\ Total(surplus)' = Total(surplus \cup never)
  BY <1>2, Zenon DEF Total
<1>6. /\ Total(twice) \in Nat /\ Total(once) \in Nat /\ Total(never) \in Nat
      /\ Total(taken') \in Nat /\ Total(doubled') \in Nat
      /\ Total(surplus) \in Nat
  BY <1>1, Totals
<1> QED
  BY <1>3, <1>4, <1>5, <1>6, ApiAssumption DEF Ledger

LEMMA LedgerPutBack ==
    ASSUME TypeOK, Ledger, keyExists, NEW r \in Requests,
           doubled \subseteq taken, r \notin surplus, PutBack(r),
           UNCHANGED qty
    PROVE  Ledger'
<1>1. Total({r}) = qty[r]
  <2>1. qty[r] \in Nat
    BY DEF TypeOK
  <2> QED
    BY <2>1, UnitSumSingleton, Zenon DEF Total
<1>2. /\ {r} \in SUBSET Requests /\ {r} \cap surplus = {} /\ Restore({r})
      /\ inventory' = inventory + Total({r}) /\ UNCHANGED keyExists
  BY <1>1 DEF PutBack
<1> QED
  BY <1>2, LedgerRestore

(* A running handler runs on a seeded counter. *)
LEMMA RunningIsSeeded ==
    ASSUME TypeOK, SeededFirst, NEW r \in Requests,
           pc[r] \notin {"idle", "done", "lost"}
    PROVE  keyExists
BY DEF TypeOK, SeededFirst, Running

(* A counter that is not negative has granted no more than there is. *)
LEMMA GrantsCovered ==
    ASSUME TypeOK, Ledger, keyExists, inventory >= 0
    PROVE  GrantsFit
<1>1. /\ taken \in SUBSET Requests /\ surplus \in SUBSET Requests
      /\ Granted \in SUBSET taken
      /\ doubled \in SUBSET Requests
  BY DEF TypeOK, Granted
<1>2. Total(Granted) <= Total(taken)
  BY <1>1, Totals
<1>3. /\ Total(taken) \in Nat /\ Total(surplus) \in Nat
      /\ Total(doubled) \in Nat /\ Total(Granted) \in Nat
  BY <1>1, Totals
<1> QED
  BY <1>2, <1>3, ApiAssumption DEF GrantsFit, Ledger, TypeOK

(* Grants fit as long as none is added and no surplus is forgotten. *)
LEMMA GrantsShrink ==
    ASSUME TypeOK, GrantsFit, UNCHANGED qty, Granted' \subseteq Granted,
           surplus \subseteq surplus', surplus' \subseteq Requests
    PROVE  GrantsFit'
<1>1. /\ Granted \in SUBSET Requests /\ surplus' \in SUBSET Requests
      /\ Granted' \in SUBSET Requests /\ surplus \in SUBSET Requests
  BY DEF TypeOK, Granted
<1>2. /\ Total(Granted') <= Total(Granted)
      /\ Total(surplus) <= Total(surplus')
  BY <1>1, Totals
<1>3. /\ Total(Granted) \in Nat /\ Total(Granted') \in Nat
      /\ Total(surplus) \in Nat /\ Total(surplus') \in Nat
  BY <1>1, Totals
<1>4. /\ Total(Granted)' = Total(Granted')
      /\ Total(surplus)' = Total(surplus')
  BY Zenon DEF Total
<1> QED
  BY <1>2, <1>3, <1>4, ApiAssumption DEF GrantsFit

-----------------------------------------------------------------------------
(* The inductive invariant *)

(* What a handler does to the counter is in the books. *)
LEMMA LedgerHandler ==
    ASSUME TypeOK, SeededFirst, Custody, Ledger, NEW r \in Requests,
           HandlerStep(r) \/ ReserveResent(r) \/ PutBackResent(r)
    PROVE  Ledger'
<1> USE DEF static, counter, handlers, history
<1>1. CASE pc[r] \in {"reserve", "exec"} /\ Take(r) /\ UNCHANGED qty
  <2>1. keyExists
    BY <1>1, RunningIsSeeded
  <2>2. r \notin doubled
    BY <1>1 DEF Custody
  <2> QED
    BY <1>1, <2>1, <2>2, LedgerTake
<1>2. CASE pc[r] \in {"compensate", "rollback"} /\ PutBack(r) /\ UNCHANGED qty
  <2>1. keyExists
    BY <1>2, RunningIsSeeded
  <2>2. r \notin surplus /\ doubled \subseteq taken
    BY <1>2 DEF Custody
  <2> QED
    BY <1>2, <2>1, <2>2, LedgerPutBack
<1>3. CASE UNCHANGED <<inventory, keyExists, taken, doubled, surplus, qty>>
  BY <1>3, LedgerFrame
<1>4. ASSUME NEW valid \in BOOLEAN, CheckAdmission(r, valid) PROVE Ledger'
  BY <1>3, <1>4 DEF CheckAdmission
<1>5. Reserve(r) => Ledger'
  BY <1>1, <1>2, <1>3
     DEF Reserve, UnknownStrategy, ReserveAtomic, ReserveLua, Watch,
         ReadInventory, Exec, ExecAborted, ReserveFails, ReserveUnacked,
         Compensate, CompensateFails
<1>6. PublishOrder(r) => Ledger'
  BY <1>2, <1>3
     DEF PublishOrder, Publish, PublishFails, PublishUnacked, Rollback,
         RollbackFails
<1>7. ReserveResent(r) \/ PutBackResent(r) => Ledger'
  BY <1>1, <1>2 DEF ReserveResent, PutBackResent
<1> QED
  BY <1>4, <1>5, <1>6, <1>7 DEF HandlerStep

(* Seeding and resetting start new books. *)
LEMMA LedgerFresh ==
    ASSUME TypeOK, taken' = {}, doubled' = {}, surplus' = {},
           inventory' = InventoryCount, keyExists', UNCHANGED qty
    PROVE  Ledger'
<1>1. Total({}) = 0
  BY Totals
<1>2. /\ Total(taken)' = Total({}) /\ Total(doubled)' = Total({})
      /\ Total(surplus)' = Total({})
  BY Zenon DEF Total
<1>3. Ledger' <=> inventory' = InventoryCount - Total(taken)'
                                  - Total(doubled)' + Total(surplus)'
  BY DEF Ledger
<1> QED
  BY <1>1, <1>2, <1>3, ApiAssumption

LEMMA LedgerSeed ==
    ASSUME TypeOK, SeededFirst, Ledger, Seed, UNCHANGED <<static, history>>
    PROVE  Ledger'
<1> USE DEF static, history
<1>1. CASE keyExists
  BY <1>1, LedgerFrame DEF Seed
<1>2. CASE ~keyExists
  <2>1. /\ taken' = {} /\ doubled' = {} /\ surplus' = {}
        /\ inventory' = InventoryCount
        /\ keyExists' /\ UNCHANGED qty
    BY <1>2 DEF Seed, SeededFirst
  <2> QED
    BY <2>1, LedgerFresh
<1> QED
  BY <1>1, <1>2

LEMMA LedgerStep ==
    ASSUME TypeOK, SeededFirst, Custody, Ledger, [Next]_vars
    PROVE  Ledger'
<1> USE DEF static, counter, handlers, history
<1>1. ASSUME NEW p \in Replicas, Start(p) \/ SeedThenDie(p) PROVE Ledger'
  <2>1. Seed /\ UNCHANGED <<static, history>>
    BY <1>1 DEF Start, SeedThenDie
  <2> QED
    BY <2>1, LedgerSeed
<1>2. ASSUME NEW p \in Replicas, Crash(p) PROVE Ledger'
  <2>1. PICK back \in SUBSET Requests :
               /\ \A r \in back : pc[r] \in {"compensate", "rollback"}
               /\ inventory' = inventory + Total(back)
               /\ Restore(back)
    BY <1>2, CrashUnseen
  <2>2. keyExists /\ UNCHANGED <<keyExists, qty>>
    BY <1>2 DEF Crash, SeededFirst
  <2>3. doubled \subseteq taken /\ back \cap surplus = {}
    BY <2>1 DEF Custody
  <2> QED
    BY <2>1, <2>2, <2>3, LedgerRestore
<1>3. ASSUME NEW r \in Requests, BadRequest(r) \/ Arrive(r) \/ Cancel(r)
      PROVE  Ledger'
  BY <1>3, LedgerFrame DEF BadRequest, Arrive, Cancel
<1>4. ASSUME NEW r \in Requests,
             HandlerStep(r) \/ ReserveResent(r) \/ PutBackResent(r)
      PROVE  Ledger'
  BY <1>4, LedgerHandler
<1>5. CASE Reset
  <2>1. keyExists
    BY <1>5 DEF Reset, SeededFirst
  <2>2. /\ taken' = {} /\ doubled' = {} /\ surplus' = {}
        /\ inventory' = InventoryCount
        /\ keyExists' /\ UNCHANGED qty
    BY <1>5, <2>1 DEF Reset
  <2> QED
    BY <2>2, LedgerFresh
<1>6. CASE UNCHANGED vars
  BY <1>6, LedgerFrame DEF vars
<1> QED
  BY <1>1, <1>2, <1>3, <1>4, <1>5, <1>6 DEF Next

(* Only a decrement that leaves a counter of zero or more grants units: the *)
(* others read such a counter first, or find the result negative.           *)
LEMMA GrantsHandler ==
    ASSUME TypeOK, WatchSound, SeededFirst, Custody, GrantsFit,
           TypeOK', Ledger', NEW r \in Requests, HandlerStep(r)
    PROVE  GrantsFit'
<1> USE DEF static, counter, handlers, history
<1>1. pc[r] \notin {"idle", "done", "lost"}
  BY DEF TypeOK, HandlerStep, Reserve, PublishOrder, CheckAdmission,
         UnknownStrategy, ReserveAtomic, ReserveLua, Watch, ReadInventory,
         Exec, ExecAborted, ReserveFails, ReserveUnacked, Compensate,
         CompensateFails, Publish, PublishFails, PublishUnacked, Rollback,
         RollbackFails
<1>2. keyExists
  BY <1>1, RunningIsSeeded
<1>3. CASE keyExists' /\ inventory' >= 0
  <2>1. (TypeOK /\ Ledger /\ keyExists /\ inventory >= 0 => GrantsFit)'
    BY GrantsCovered, PTL
  <2> QED
    BY <1>3, <2>1
<1>4. CASE /\ UNCHANGED qty
           /\ Granted' \subseteq Granted
           /\ surplus \subseteq surplus'
  <2>1. surplus' \subseteq Requests
    BY DEF TypeOK
  <2> QED
    BY <1>4, <2>1, GrantsShrink
<1>5. ASSUME NEW valid \in BOOLEAN, CheckAdmission(r, valid) PROVE GrantsFit'
  BY <1>4, <1>5 DEF TypeOK, CheckAdmission, GoTo, Answer, Granted
<1>6. CASE UnknownStrategy(r)
  BY <1>4, <1>6 DEF TypeOK, UnknownStrategy, Answer, Granted
<1>7. CASE ReserveAtomic(r)
  <2>1. CASE inventory - qty[r] < 0
    <3>1. pc'[r] = "compensate" /\ r \notin sent'
      BY <1>7, <2>1 DEF TypeOK, Custody, ReserveAtomic, GoTo
    <3> QED
      BY <1>4, <1>7, <3>1 DEF TypeOK, ReserveAtomic, Take, GoTo, Granted
  <2>2. CASE inventory - qty[r] >= 0
    BY <1>2, <1>3, <1>7, <2>2 DEF ReserveAtomic, Take
  <2>3. inventory \in Int /\ qty[r] \in Int
    BY DEF TypeOK
  <2> QED
    BY <2>1, <2>2, <2>3
<1>8. CASE ReserveLua(r)
  <2>1. CASE Take(r) /\ inventory >= qty[r]
    <3>1. inventory \in Int /\ qty[r] \in Int
      BY DEF TypeOK
    <3> QED
      BY <1>2, <1>3, <2>1, <3>1 DEF Take
  <2>2. CASE Answer(r, "sold_out") /\ UNCHANGED <<counter, history>>
    BY <1>4, <1>8, <2>2 DEF TypeOK, ReserveLua, Answer, Granted
  <2> QED
    BY <1>8, <2>1, <2>2 DEF ReserveLua
<1>9. CASE Watch(r)
  BY <1>4, <1>9 DEF TypeOK, Watch, GoTo, Granted
<1>10. CASE ReadInventory(r)
  BY <1>4, <1>10 DEF TypeOK, ReadInventory, GoTo, Answer, Granted
<1>11. CASE Exec(r)
  <2>1. inventory \in Int /\ qty[r] \in Int
    BY DEF TypeOK
  <2>2. current[r] = inventory /\ qty[r] <= current[r]
    BY <1>11 DEF Exec, WatchSound
  <2> QED
    BY <1>2, <1>3, <1>11, <2>1, <2>2 DEF Exec, Take
<1>12. CASE ExecAborted(r)
  BY <1>4, <1>12 DEF TypeOK, ExecAborted, GoTo, Answer, Granted
<1>13. CASE ReserveFails(r)
  BY <1>4, <1>13 DEF TypeOK, ReserveFails, Answer, Granted
<1>14. CASE ReserveUnacked(r)
  <2>1. r \notin sent'
    BY <1>14 DEF TypeOK, Custody, ReserveUnacked
  <2> QED
    BY <1>4, <1>14, <2>1 DEF TypeOK, ReserveUnacked, Take, Answer, Granted
<1>15. CASE Compensate(r)
  BY <1>4, <1>15 DEF TypeOK, Compensate, PutBack, Restore, Answer, Granted
<1>16. CASE CompensateFails(r)
  BY <1>4, <1>16 DEF TypeOK, CompensateFails, Answer, Granted
<1>17. CASE Publish(r)
  BY <1>4, <1>17 DEF TypeOK, Publish, Answer, Granted
<1>18. CASE PublishFails(r)
  BY <1>4, <1>18 DEF TypeOK, PublishFails, GoTo, Granted
<1>19. CASE PublishUnacked(r)
  BY <1>4, <1>19 DEF TypeOK, PublishUnacked, GoTo, Granted
<1>20. CASE Rollback(r)
  BY <1>4, <1>20 DEF TypeOK, Rollback, PutBack, Restore, Answer, Granted
<1>21. CASE RollbackFails(r)
  BY <1>4, <1>21 DEF TypeOK, RollbackFails, Answer, Granted
<1> QED
  BY <1>5, <1>6, <1>7, <1>8, <1>9, <1>10, <1>11, <1>12, <1>13, <1>14, <1>15,
     <1>16, <1>17, <1>18, <1>19, <1>20, <1>21
     DEF HandlerStep, Reserve, PublishOrder

LEMMA GrantsStep ==
    ASSUME TypeOK, WatchSound, SeededFirst, Custody, GrantsFit,
           TypeOK', SeededFirst', Ledger', [Next]_vars
    PROVE  GrantsFit'
<1> USE DEF static, counter, handlers, history
<1>1. CASE /\ UNCHANGED qty
           /\ Granted' \subseteq Granted
           /\ surplus \subseteq surplus'
  <2>1. surplus' \subseteq Requests
    BY DEF TypeOK
  <2> QED
    BY <1>1, <2>1, GrantsShrink
<1>2. ASSUME NEW p \in Replicas, Start(p) \/ SeedThenDie(p) PROVE GrantsFit'
  BY <1>1, <1>2 DEF Start, SeedThenDie, Seed, Granted
<1>3. ASSUME NEW p \in Replicas, Crash(p) PROVE GrantsFit'
  <2>1. PICK back \in SUBSET Requests : Restore(back)
    BY <1>3, CrashUnseen
  <2>2. taken' \subseteq taken /\ surplus \subseteq surplus' /\ UNCHANGED qty
    BY <1>3, <2>1 DEF Crash, Restore
  <2>3. Granted' \subseteq Granted
    <3> SUFFICES ASSUME NEW r \in Granted' PROVE r \in Granted
      OBVIOUS
    <3>1. r \in Requests /\ r \in taken /\ baseline' = baseline
      BY <2>1, <2>2 DEF Granted, TypeOK, Restore
    <3>2. r \in sent' \ baseline =>
             r \in sent \ baseline \/ pc[r] \in {"publish", "rollback"}
      BY <1>3 DEF Crash
    <3>3. pc'[r] \in {"publish", "rollback"} =>
             pc[r] \in {"publish", "rollback"}
      BY <1>3, <3>1 DEF Crash
    <3> QED
      BY <3>1, <3>2, <3>3 DEF Granted
  <2> QED
    BY <1>1, <2>2, <2>3
<1>4. ASSUME NEW r \in Requests, BadRequest(r) \/ Arrive(r) \/ Cancel(r)
      PROVE  GrantsFit'
  BY <1>1, <1>4 DEF TypeOK, BadRequest, Arrive, Cancel, GoTo, Answer, Granted
<1>5. ASSUME NEW r \in Requests, HandlerStep(r) PROVE GrantsFit'
  BY <1>5, GrantsHandler
<1>6. ASSUME NEW r \in Requests, ReserveResent(r) PROVE GrantsFit'
  <2>1. r \notin sent /\ pc[r] = "reserve" /\ Take(r)
        /\ UNCHANGED <<pc, sent, qty>>
    BY <1>6 DEF Custody, ReserveResent
  <2> QED
    BY <1>1, <2>1 DEF Take, Granted
<1>7. ASSUME NEW r \in Requests, PutBackResent(r) PROVE GrantsFit'
  BY <1>1, <1>7 DEF PutBackResent, PutBack, Restore, Granted
<1>8. CASE Reset
  <2>1. keyExists' /\ inventory' >= 0
    BY <1>8, ApiAssumption DEF Reset, SeededFirst
  <2>2. (TypeOK /\ Ledger /\ keyExists /\ inventory >= 0 => GrantsFit)'
    BY GrantsCovered, PTL
  <2> QED
    BY <2>1, <2>2
<1>9. CASE UNCHANGED vars
  BY <1>1, <1>9 DEF vars, Granted
<1> QED
  BY <1>2, <1>3, <1>4, <1>5, <1>6, <1>7, <1>8, <1>9 DEF Next

LEMMA StockInit == Init => StockInv
<1> SUFFICES ASSUME Init PROVE StockInv
  OBVIOUS
<1>1. TypeOK
  BY TypeInit
<1>2. Ledger
  BY DEF Init, Ledger
<1>3. GrantsFit
  <2>1. Granted = {} /\ surplus = {}
    BY DEF Init, Granted
  <2>2. Total(Granted) = 0 /\ Total(surplus) = 0
    BY <1>1, <2>1, Totals, Zenon
  <2> QED
    BY <2>2, ApiAssumption DEF GrantsFit
<1> QED
  BY <1>1, <1>2, <1>3, WatchInit, SeededInit, CustodyInit DEF StockInv

LEMMA StockStep ==
    ASSUME StockInv, [Next]_vars
    PROVE  StockInv'
<1> USE DEF StockInv
<1>1. TypeOK'
  BY TypeStep
<1>2. WatchSound'
  BY WatchStep
<1>3. SeededFirst'
  BY SeededStep
<1>4. Custody'
  BY CustodyStep
<1>5. Ledger'
  BY LedgerStep
<1>6. GrantsFit'
  BY <1>1, <1>3, <1>5, GrantsStep
<1> QED
  BY <1>1, <1>2, <1>3, <1>4, <1>5, <1>6

(* Orders of this sale whose units are not back on the counter are grants   *)
(* of this sale or of stragglers that did not put their units back.         *)
LEMMA OrdersFit ==
    ASSUME StockInv, NEW D \in SUBSET (sent \ baseline),
           D \subseteq taken \cup stragglers, D \cap surplus = {}
    PROVE  Remaining + Total(D)
              <= InventoryCount + Total(stragglers \cup surplus)
<1> USE DEF StockInv
<1> DEFINE mine == D \cap taken
           late == stragglers \ surplus
           free == stragglers \cup surplus
<1>1. /\ D \in SUBSET Requests /\ mine \in SUBSET taken
      /\ mine \in SUBSET Requests /\ late \in SUBSET Requests
      /\ taken \in SUBSET Requests /\ surplus \in SUBSET Requests
      /\ doubled \in SUBSET Requests /\ free \in SUBSET Requests
  BY DEF TypeOK
<1>2. D \in SUBSET (mine \cup late) /\ surplus \cap late = {}
      /\ surplus \cup late = free
  OBVIOUS
<1>3. Total(D) <= Total(mine) + Total(late)
  <2>1. Total(D) <= Total(mine \cup late)
    BY <1>1, <1>2, Totals
  <2>2. Total(mine \cup late) <= Total(mine) + Total(late)
    BY <1>1, TotalOfUnion
  <2>3. (mine \cup late) \in SUBSET Requests
    BY <1>1
  <2>4. /\ Total(D) \in Nat /\ Total(mine) \in Nat /\ Total(late) \in Nat
        /\ Total(mine \cup late) \in Nat
    BY <1>1, <2>3, Totals
  <2> QED
    BY <2>1, <2>2, <2>4
<1>4. Total(free) = Total(surplus) + Total(late)
  <2>1. Total(surplus \cup late) = Total(surplus) + Total(late)
    BY <1>1, <1>2, TotalOfUnion
  <2> QED
    BY <1>2, <2>1, Zenon
<1>5. /\ Total(D) \in Nat /\ Total(mine) \in Nat /\ Total(late) \in Nat
      /\ Total(taken) \in Nat /\ Total(surplus) \in Nat
      /\ Total(doubled) \in Nat /\ Total(free) \in Nat
      /\ inventory \in Int /\ InventoryCount \in Nat
  BY <1>1, Totals, ApiAssumption DEF TypeOK
<1> HIDE DEF mine, late, free
<1>6. Remaining + Total(D) <= InventoryCount + Total(free)
  <2>1. CASE ~keyExists
    <3>1. D = {}
      BY <2>1 DEF SeededFirst
    <3>2. Total(D) = 0
      BY <3>1, Totals, Zenon
    <3>3. Remaining = 0
      BY <2>1 DEF Ledger, Remaining
    <3> QED
      BY <1>5, <3>2, <3>3
  <2>2. CASE keyExists /\ inventory < 0
    <3>1. mine \in SUBSET Granted /\ Granted \in SUBSET Requests
      BY DEF mine, Granted, TypeOK
    <3>2. Total(mine) <= Total(Granted) /\ Total(Granted) \in Nat
      BY <3>1, Totals
    <3>3. Remaining = 0
      BY <2>2 DEF Remaining
    <3> QED
      BY <1>3, <1>4, <1>5, <3>2, <3>3 DEF GrantsFit
  <2>3. CASE keyExists /\ inventory >= 0
    <3>1. Total(mine) <= Total(taken)
      BY <1>1, Totals
    <3>2. Remaining = InventoryCount - Total(taken) - Total(doubled)
                        + Total(surplus)
      BY <1>5, <2>3 DEF Remaining, Ledger
    <3> QED
      BY <1>3, <1>4, <1>5, <3>1, <3>2
  <2> QED
    BY <1>5, <2>1, <2>2, <2>3 DEF TypeOK
<1> QED
  BY <1>6 DEF free

LEMMA StockImpliesPromisesFit == StockInv => PromisesFit
<1> SUFFICES ASSUME StockInv PROVE PromisesFit
  OBVIOUS
<1> DEFINE D == sent \ (baseline \cup Disowned)
<1>1. D \in SUBSET (sent \ baseline)
  OBVIOUS
<1>2. D \subseteq taken \cup stragglers /\ D \cap surplus = {}
  BY DEF StockInv, Custody, Disowned
<1> HIDE DEF D
<1>3. Remaining + Total(D) <= InventoryCount + Total(stragglers \cup surplus)
  BY <1>1, <1>2, OrdersFit
<1> QED
  BY <1>3 DEF PromisesFit, D

LEMMA StockImpliesNoOversell ==
    ASSUME "lost_ack" \notin Faults, "resent_incr" \notin Faults, StockInv
    PROVE  NoOversell
<1>1. Disowned = {} /\ surplus \subseteq stragglers
  BY DEF StockInv, Custody, LosesAcks, ResendsIncr
<1>2. sent \ (baseline \cup Disowned) = sent \ baseline
  BY <1>1
<1>3. stragglers \cup surplus = stragglers
  BY <1>1
<1>4. PromisesFit
  BY StockImpliesPromisesFit
<1> QED
  BY <1>2, <1>3, <1>4, Zenon DEF PromisesFit, NoOversell

(* The books balance, for any number of requests, replicas and units, any   *)
(* mix of strategies, and every fault: the counter is what the requests     *)
(* took, doubled and put back make of it, and nobody holds units twice.     *)
THEOREM BooksBalance == Spec => []StockInv
<1>1. Init => StockInv
  BY StockInit
<1>2. StockInv /\ [Next]_vars => StockInv'
  BY StockStep
<1> QED
  BY <1>1, <1>2, PTL DEF Spec

(* No promise is broken, under every fault, a crash amid a rollback and a   *)
(* command that go-redis sends again included: the units displayed and      *)
(* those of the orders whose units no handler put back never exceed the     *)
(* inventory, but for the units that a resent INCRBY put back twice.        *)
THEOREM PromisesKept == Spec => []PromisesFit
  BY BooksBalance, StockImpliesPromisesFit, PTL

(* No strategy oversells, for any number of requests, replicas and units,   *)
(* any mix of strategies, any crash, disconnect, Redis failure or DECRBY    *)
(* that ran twice, and any SQS failure, with two exceptions: a message      *)
(* stored although SendMessage reported an error (the fault "lost_ack", for *)
(* which a run finds the oversell) and an INCRBY that go-redis sends again  *)
(* after it took effect ("resent_incr").                                    *)
THEOREM StockSafe ==
    ASSUME "lost_ack" \notin Faults, "resent_incr" \notin Faults
    PROVE  Spec => []NoOversell
<1>1. StockInv => NoOversell
  BY StockImpliesNoOversell
<1> QED
  BY <1>1, BooksBalance, PTL

-----------------------------------------------------------------------------
(* The strategies that compare first *)

LEMMA CompareFirstStep ==
    ASSUME "atomic_decr" \notin Strategies, TypeOK, WatchSound,
           CounterNeverNegative, [Next]_vars
    PROVE  CounterNeverNegative'
<1> USE ApiAssumption DEF static, counter, handlers, history,
                          CounterNeverNegative
<1>1. \A r \in Requests : qty[r] \in Nat /\ inventory \in Int
  BY DEF TypeOK
<1>2. CASE UNCHANGED inventory
  BY <1>2
<1>3. ASSUME NEW r \in Requests, PutBack(r) PROVE CounterNeverNegative'
  BY <1>1, <1>3 DEF PutBack
<1>4. ASSUME NEW r \in Requests, inventory >= qty[r], Take(r)
      PROVE  CounterNeverNegative'
  BY <1>1, <1>4 DEF Take
<1>5. ASSUME NEW r \in Requests PROVE Mode(r) # "atomic_decr"
  BY DEF Mode, TypeOK
<1>6. ASSUME NEW r \in Requests, pc[r] = "exec", r \in watchers
      PROVE  inventory >= qty[r]
  BY <1>6 DEF WatchSound
<1>7. ASSUME NEW r \in Requests, HandlerStep(r) PROVE CounterNeverNegative'
  <2>1. ASSUME NEW valid \in BOOLEAN, CheckAdmission(r, valid)
        PROVE  CounterNeverNegative'
    BY <1>2, <2>1 DEF CheckAdmission
  <2>2. CASE Reserve(r)
    BY <1>2, <1>3, <1>4, <1>5, <1>6, <2>2
       DEF Reserve, UnknownStrategy, ReserveAtomic, ReserveLua, Watch,
           ReadInventory, Exec, ExecAborted, ReserveFails, ReserveUnacked,
           Compensate, CompensateFails
  <2>3. CASE PublishOrder(r)
    BY <1>2, <1>3, <2>3
       DEF PublishOrder, Publish, PublishFails, PublishUnacked, Rollback,
           RollbackFails
  <2> QED
    BY <1>7, <2>1, <2>2, <2>3 DEF HandlerStep
<1>8. ASSUME NEW p \in Replicas, Start(p) \/ SeedThenDie(p) \/ Crash(p)
      PROVE  CounterNeverNegative'
  <2>1. CASE Crash(p)
    <3>1. PICK back \in SUBSET Requests :
             inventory' = inventory + Total(back) /\ Total(back) \in Nat
      BY <2>1, CrashUnseen
    <3> QED
      BY <3>1 DEF TypeOK
  <2> QED
    BY <1>8, <2>1 DEF Start, SeedThenDie, Seed
<1>9. ASSUME NEW r \in Requests, BadRequest(r) \/ Arrive(r) \/ Cancel(r)
      PROVE  CounterNeverNegative'
  BY <1>2, <1>9 DEF BadRequest, Arrive, Cancel
<1>10. ASSUME NEW r \in Requests, ReserveResent(r) \/ PutBackResent(r)
       PROVE  CounterNeverNegative'
  BY <1>3, <1>4, <1>5, <1>10 DEF ReserveResent, PutBackResent
<1>11. CASE Reset
  BY <1>11 DEF Reset
<1>12. CASE UNCHANGED vars
  BY <1>2, <1>12 DEF vars
<1> QED
  BY <1>7, <1>8, <1>9, <1>10, <1>11, <1>12 DEF Next

(* With the optimistic and the Lua strategy alone the counter is never      *)
(* negative, under every fault and every reset.                             *)
THEOREM CompareFirstSafe ==
    ASSUME "atomic_decr" \notin Strategies
    PROVE  Spec => []CounterNeverNegative
<1>1. Init => TypeOK /\ WatchSound /\ CounterNeverNegative
  BY TypeInit, WatchInit DEF Init, CounterNeverNegative
<1>2. TypeOK /\ WatchSound /\ CounterNeverNegative /\ [Next]_vars
        => (TypeOK /\ WatchSound /\ CounterNeverNegative)'
  BY TypeStep, WatchStep, CompareFirstStep
<1> QED
  BY <1>1, <1>2, PTL DEF Spec

-----------------------------------------------------------------------------
(* Only EXEC takes a handler from "exec" to "publish". *)
LEMMA ExecFreshStep ==
    ASSUME TypeOK, WatchSound, [Next]_vars, NEW r \in Requests,
           pc[r] = "exec", pc'[r] = "publish"
    PROVE  inventory' = current[r] - qty[r]
<1> USE DEF static, counter, handlers, history
<1>1. ASSUME NEW s \in Requests, HandlerStep(s) PROVE Exec(r)
  <2>1. ASSUME NEW valid \in BOOLEAN, CheckAdmission(s, valid) PROVE FALSE
    BY <2>1 DEF TypeOK, CheckAdmission, GoTo, Answer
  <2>2. CASE Reserve(s)
    BY <2>2
       DEF TypeOK, GoTo, Answer, Reserve, UnknownStrategy, ReserveAtomic,
           ReserveLua, Watch, ReadInventory, Exec, ExecAborted,
           ReserveFails, ReserveUnacked, Compensate, CompensateFails
  <2>3. CASE PublishOrder(s)
    BY <2>3
       DEF TypeOK, GoTo, Answer, PublishOrder, Publish, PublishFails,
           PublishUnacked, Rollback, RollbackFails
  <2> QED
    BY <1>1, <2>1, <2>2, <2>3 DEF HandlerStep
<1>2. ASSUME NEW s \in Requests, BadRequest(s) \/ Arrive(s) \/ Cancel(s)
      PROVE  FALSE
  BY <1>2 DEF TypeOK, BadRequest, Arrive, Cancel, GoTo, Answer
<1>3. ASSUME NEW p \in Replicas, Start(p) \/ SeedThenDie(p) \/ Crash(p)
      PROVE  FALSE
  BY <1>3 DEF TypeOK, Start, SeedThenDie, Crash
<1>4. ASSUME NEW s \in Requests PROVE ~ReserveResent(s) /\ ~PutBackResent(s)
  BY DEF ReserveResent, PutBackResent
<1>5. ~Reset /\ ~UNCHANGED vars
  BY DEF Reset, vars
<1>6. Exec(r)
  BY <1>1, <1>2, <1>3, <1>4, <1>5 DEF Next
<1> QED
  BY <1>6 DEF Exec, Take, WatchSound

(* The optimistic strategy decrements what it has read, under every fault   *)
(* and whatever the other handlers and resets write in between.             *)
THEOREM ExecFresh == Spec => ExecIsFresh
<1>1. TypeOK /\ WatchSound /\ [Next]_vars
        => [\A r \in Requests :
              (pc[r] = "exec" /\ pc'[r] = "publish")
                 => inventory' = current[r] - qty[r]]_vars
  BY ExecFreshStep
<1> QED
  BY <1>1, WatchCorrect, PTL DEF Spec, ExecIsFresh
=============================================================================
