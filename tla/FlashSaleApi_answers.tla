------------------------ MODULE FlashSaleApi_answers ------------------------
(* Theorems about what FlashSaleApi tells its clients, for every value of    *)
(* its constants.                                                            *)
EXTENDS FlashSaleApi_proofs

-----------------------------------------------------------------------------
(* Answers and the stock *)

(* A handler answers once, and it is done then. *)
AnsweredWhenDone == \A r \in Requests : pc[r] = "done" <=> response[r] # "none"

(* Whoever has an order was told so, has left, lost its task, or was failed *)
(* by a lost answer of SQS.                                                 *)
OrdersAnswered ==
    \A r \in sent :
       \/ response[r] = "accepted" \/ pc[r] = "lost" \/ cancelled[r]
       \/ LosesAcks /\ (pc[r] = "rollback" \/ response[r] = "queue_failed")

AnswersInv == AnsweredWhenDone /\ AnswersMatchStock /\ OrdersAnswered

LEMMA AnswersInit == Init => AnswersInv
BY DEF Init, AnswersInv, AnsweredWhenDone, AnswersMatchStock, OrdersAnswered,
       Running, Failed

(* A request that does not answer keeps what it has. *)
LEMMA AnswersWait ==
    ASSUME TypeOK, Custody, AnswersInv, NEW r \in Requests,
           pc[r] \notin {"done", "lost", "rollback"},
           NEW l \in Labels \ {"done", "lost", "idle"},
           GoTo(r, l), UNCHANGED cancelled,
           taken' \ resent' \subseteq (taken \ resent) \cup {r},
           \/ sent' = sent
           \/ /\ sent' = sent \cup {r}
              /\ cancelled[r] \/ (LosesAcks /\ l = "rollback")
    PROVE  AnswersInv'
<1>1. AnsweredWhenDone'
  BY DEF TypeOK, AnswersInv, AnsweredWhenDone, GoTo
<1>2. AnswersMatchStock'
  BY DEF TypeOK, AnswersInv, AnsweredWhenDone, AnswersMatchStock, GoTo,
         Running, Failed
<1>3. OrdersAnswered'
  BY DEF TypeOK, AnswersInv, OrdersAnswered, GoTo
<1> QED
  BY <1>1, <1>2, <1>3 DEF AnswersInv

(* A request that answers has what the answer says. *)
LEMMA AnswersGiven ==
    ASSUME TypeOK, Custody, AnswersInv, NEW r \in Requests,
           pc[r] \notin {"done", "lost"}, NEW a \in Answers \ {"none"},
           Answer(r, a), UNCHANGED cancelled,
           taken' \ resent' \subseteq (taken \ resent) \cup {r},
           pc[r] = "rollback" => a = "queue_failed",
           IF a = "accepted" THEN sent' = sent \cup {r} ELSE sent' = sent,
           a \in {"bad_request", "unauthorized", "sold_out", "contention",
                  "bad_strategy"} => r \notin sent \cup (taken' \ resent')
    PROVE  AnswersInv'
<1>1. AnsweredWhenDone'
  BY DEF TypeOK, AnswersInv, AnsweredWhenDone, Answer
<1>2. AnswersMatchStock'
  <2> SUFFICES ASSUME NEW s \in Requests
               PROVE  /\ response'[s] = "accepted" => s \in sent'
                      /\ response'[s] \in {"bad_request", "unauthorized",
                            "sold_out", "contention", "bad_strategy"}
                            => s \notin sent' \cup (taken' \ resent')
                      /\ s \in taken' \ (sent' \cup resent')
                            => s \in Running' \cup Failed'
    BY DEF AnswersMatchStock
  <2>1. CASE s = r
    BY <2>1 DEF TypeOK, Answer, Answers, Failed
  <2>2. CASE s # r
    BY <2>2 DEF TypeOK, AnswersInv, AnswersMatchStock, Answer, Running, Failed
  <2> QED
    BY <2>1, <2>2
<1>3. OrdersAnswered'
  BY DEF TypeOK, AnswersInv, AnsweredWhenDone, OrdersAnswered, Answer
<1> QED
  BY <1>1, <1>2, <1>3 DEF AnswersInv

LEMMA AnswersHandler ==
    ASSUME TypeOK, Custody, AnswersInv, NEW r \in Requests, HandlerStep(r)
    PROVE  AnswersInv'
<1> USE DEF static, counter, handlers, history, Labels, Answers
<1>1. ASSUME NEW valid \in BOOLEAN, CheckAdmission(r, valid) PROVE AnswersInv'
  <2>1. CASE GoTo(r, "reserve")
    BY <1>1, <2>1, AnswersWait DEF CheckAdmission
  <2>2. CASE Answer(r, "unauthorized")
    BY <1>1, <2>2, AnswersGiven DEF CheckAdmission, Custody
  <2> QED
    BY <1>1, <2>1, <2>2 DEF CheckAdmission
<1>2. CASE UnknownStrategy(r)
  BY <1>2, AnswersGiven DEF UnknownStrategy, Custody
<1>3. CASE ReserveAtomic(r)
  BY <1>3, AnswersWait DEF ReserveAtomic, Take
<1>4. CASE ReserveLua(r)
  <2>1. CASE Answer(r, "sold_out") /\ UNCHANGED <<counter, history>>
    BY <1>4, <2>1, AnswersGiven DEF ReserveLua, Custody
  <2>2. CASE Take(r) /\ GoTo(r, "publish")
    BY <1>4, <2>2, AnswersWait DEF ReserveLua, Take
  <2> QED
    BY <1>4, <2>1, <2>2 DEF ReserveLua
<1>5. CASE Watch(r)
  BY <1>5, AnswersWait DEF Watch
<1>6. CASE ReadInventory(r)
  <2>1. CASE Answer(r, "sold_out")
    BY <1>6, <2>1, AnswersGiven DEF ReadInventory, Custody
  <2>2. CASE GoTo(r, "exec")
    BY <1>6, <2>2, AnswersWait DEF ReadInventory
  <2> QED
    BY <1>6, <2>1, <2>2 DEF ReadInventory
<1>7. CASE Exec(r)
  BY <1>7, AnswersWait DEF Exec, Take
<1>8. CASE ExecAborted(r)
  <2>1. CASE GoTo(r, "reserve")
    BY <1>8, <2>1, AnswersWait DEF ExecAborted
  <2>2. CASE Answer(r, "contention")
    BY <1>8, <2>2, AnswersGiven DEF ExecAborted, Custody
  <2> QED
    BY <1>8, <2>1, <2>2 DEF ExecAborted
<1>9. CASE ReserveFails(r)
  BY <1>9, AnswersGiven DEF ReserveFails
<1>10. CASE ReserveUnacked(r)
  BY <1>10, AnswersGiven DEF ReserveUnacked, Take
<1>11. CASE Compensate(r)
  <2>1. r \notin sent \cup (taken' \ resent') /\ taken' \subseteq taken
    BY <1>11 DEF Compensate, PutBack, Restore, Custody
  <2>2. CASE Answer(r, "sold_out")
    BY <1>11, <2>1, <2>2, AnswersGiven DEF Compensate
  <2>3. CASE Answer(r, "redis_error")
    BY <1>11, <2>1, <2>3, AnswersGiven DEF Compensate
  <2> QED
    BY <1>11, <2>2, <2>3 DEF Compensate
<1>12. CASE CompensateFails(r)
  BY <1>12, AnswersGiven DEF CompensateFails
<1>13. CASE Publish(r)
  BY <1>13, AnswersGiven DEF Publish
<1>14. CASE PublishFails(r)
  BY <1>14, AnswersWait DEF PublishFails
<1>15. CASE PublishUnacked(r)
  BY <1>15, AnswersWait DEF PublishUnacked, LosesAcks
<1>16. CASE Rollback(r)
  BY <1>16, AnswersGiven DEF Rollback, PutBack, Restore
<1>17. CASE RollbackFails(r)
  BY <1>17, AnswersGiven DEF RollbackFails
<1> QED
  BY <1>1, <1>2, <1>3, <1>4, <1>5, <1>6, <1>7, <1>8, <1>9, <1>10, <1>11,
     <1>12, <1>13, <1>14, <1>15, <1>16, <1>17
     DEF HandlerStep, Reserve, PublishOrder

LEMMA AnswersStep ==
    ASSUME TypeOK, Custody, AnswersInv, [Next]_vars
    PROVE  AnswersInv'
<1> USE DEF static, counter, handlers, history
<1>1. ASSUME NEW p \in Replicas, Crash(p) PROVE AnswersInv'
  <2>0. taken' \subseteq taken /\ resent' = resent
    BY <1>1 DEF Crash, Restore
  <2>1. AnsweredWhenDone'
    BY <1>1 DEF TypeOK, AnswersInv, AnsweredWhenDone, Crash, Running
  <2>2. AnswersMatchStock'
    <3>1. \A s \in sent' \ sent : s \in Running
      BY <1>1 DEF Crash, Running
    <3> QED
      BY <1>1, <2>0, <2>1, <3>1
         DEF TypeOK, AnswersInv, AnsweredWhenDone, AnswersMatchStock, Crash,
             Running, Failed
  <2>3. OrdersAnswered'
    BY <1>1 DEF TypeOK, AnswersInv, OrdersAnswered, Crash, Running
  <2> QED
    BY <2>1, <2>2, <2>3 DEF AnswersInv
<1>2. ASSUME NEW r \in Requests, BadRequest(r) PROVE AnswersInv'
  BY <1>2, AnswersGiven DEF BadRequest, Custody, Answers
<1>3. ASSUME NEW r \in Requests, Arrive(r) PROVE AnswersInv'
  BY <1>3, AnswersWait DEF Arrive, Labels
<1>4. CASE /\ UNCHANGED <<pc, response, sent>>
           /\ taken' \ resent' \subseteq taken \ resent
           /\ \A r \in Requests : cancelled[r] => cancelled'[r]
  BY <1>4 DEF TypeOK, AnswersInv, AnsweredWhenDone, AnswersMatchStock,
              OrdersAnswered, Running, Failed
<1>5. ASSUME NEW r \in Requests, Cancel(r) PROVE AnswersInv'
  BY <1>4, <1>5 DEF TypeOK, Cancel
<1>6. ASSUME NEW r \in Requests, HandlerStep(r) PROVE AnswersInv'
  BY <1>6, AnswersHandler
<1>7. ASSUME NEW p \in Replicas, Start(p) \/ SeedThenDie(p) PROVE AnswersInv'
  BY <1>4, <1>7 DEF Start, SeedThenDie
<1>8. CASE Reset \/ UNCHANGED vars
  BY <1>4, <1>8 DEF Reset, vars
<1>9. ASSUME NEW r \in Requests, ReserveResent(r) \/ PutBackResent(r)
      PROVE  AnswersInv'
  BY <1>4, <1>9 DEF ReserveResent, Take, PutBackResent, PutBack, Restore
<1> QED
  BY <1>1, <1>2, <1>3, <1>5, <1>6, <1>7, <1>8, <1>9 DEF Next

LEMMA AnswersCorrect == Spec => [](StockInv /\ AnswersInv)
<1>1. StockInv /\ AnswersInv /\ [Next]_vars => AnswersInv'
  BY AnswersStep DEF StockInv
<1> QED
  BY <1>1, AnswersInit, BooksBalance, PTL DEF Spec

(* What clients are told agrees with counter and queue (purchase.go), under *)
(* every strategy, every fault and every reset.                             *)
THEOREM AnswersTrue == Spec => []AnswersMatchStock
<1>1. AnswersInv => AnswersMatchStock
  BY DEF AnswersInv
<1> QED
  BY <1>1, AnswersCorrect, PTL

LEMMA UnitsAccounted ==
    ASSUME StockInv, AnswersInv
    PROVE  StockAccounted
<1> SUFFICES ASSUME Quiet, keyExists, stragglers = {}
             PROVE  /\ inventory + Total(sent \ baseline)
                          <= InventoryCount + Total(Disowned) + Total(surplus)
                    /\ InventoryCount
                          <= inventory + Total(sent \ baseline)
                               + Total((taken \ sent)
                                          \cap (Failed \cup resent))
                               + Total(doubled)
  BY DEF StockAccounted
<1> DEFINE D == sent \ baseline
           L == (taken \ sent) \cap (Failed \cup resent)
<1>1. /\ TypeOK /\ D \in SUBSET Requests /\ L \in SUBSET Requests
      /\ Disowned \in SUBSET Requests /\ taken \in SUBSET Requests
      /\ doubled \in SUBSET Requests /\ surplus \in SUBSET Requests
      /\ (taken \cup Disowned) \in SUBSET Requests
      /\ (D \cup L) \in SUBSET Requests
  BY DEF StockInv, TypeOK, Disowned
<1>2. D \in SUBSET (taken \cup Disowned)
  BY DEF StockInv, Custody
<1>3. taken \in SUBSET (D \cup L)
  BY <1>1
     DEF StockInv, Custody, AnswersInv, AnswersMatchStock, Quiet
<1> HIDE DEF D, L
<1>4. /\ Total(D) <= Total(taken \cup Disowned)
      /\ Total(taken) <= Total(D \cup L)
  BY <1>1, <1>2, <1>3, Totals
<1>5. /\ Total(taken \cup Disowned) <= Total(taken) + Total(Disowned)
      /\ Total(D \cup L) <= Total(D) + Total(L)
  BY <1>1, TotalOfUnion
<1>6. /\ Total(D) \in Nat /\ Total(L) \in Nat /\ Total(taken) \in Nat
      /\ Total(Disowned) \in Nat /\ Total(doubled) \in Nat
      /\ Total(surplus) \in Nat /\ Total(taken \cup Disowned) \in Nat
      /\ Total(D \cup L) \in Nat
  BY <1>1, Totals
<1>7. inventory = InventoryCount - Total(taken) - Total(doubled)
                    + Total(surplus)
  BY DEF StockInv, Ledger
<1>8. /\ inventory + Total(D)
            <= InventoryCount + Total(Disowned) + Total(surplus)
      /\ InventoryCount <= inventory + Total(D) + Total(L) + Total(doubled)
  BY <1>4, <1>5, <1>6, <1>7, ApiAssumption
<1> QED
  BY <1>8, Zenon DEF D, L

(* When no handler runs, every unit that is missing is that of a purchase   *)
(* that failed, or of a command that was sent again, under every strategy   *)
(* and every fault, and every unit in excess is that of an order whose      *)
(* handler put its units back, or was put back twice.                       *)
THEOREM EveryUnitAccounted == Spec => []StockAccounted
  BY UnitsAccounted, AnswersCorrect, PTL

-----------------------------------------------------------------------------
(* No unit is lost *)

(* With rejected publishes as the only fault every handler finishes, and    *)
(* what it has taken is in an order or still in its hands.                  *)
NothingLost ==
    /\ \A r \in Requests : ~cancelled[r] /\ pc[r] # "lost"
    /\ taken \subseteq Holders \cup (sent \ baseline)
    /\ baseline \subseteq sent

LEMMA NothingLostStep ==
    ASSUME Faults \subseteq {"publish"}, TypeOK, Custody, NothingLost,
           [Next]_vars
    PROVE  NothingLost'
<1> USE DEF static, counter, handlers, history
<1>0. /\ "crash" \notin Faults /\ "cancel" \notin Faults
      /\ "refused" \notin Faults
      /\ "lost_reply" \notin Faults /\ "lost_ack" \notin Faults
      /\ "resent_decr" \notin Faults /\ "resent_incr" \notin Faults
      /\ resent = {} /\ doubled = {}
  BY DEF Custody, ResendsDecr, ResendsIncr
<1>1. ASSUME NEW r \in Requests, NEW l \in Labels \ {"lost"},
             pc' = [pc EXCEPT ![r] = l], UNCHANGED <<cancelled, baseline>>,
             sent' = sent \/ sent' = sent \cup {r},
             taken' \subseteq taken \cup {r},
             r \in taken' => \/ l \in {"compensate", "publish", "rollback"}
                             \/ r \in sent' \ baseline
      PROVE  NothingLost'
  BY <1>1 DEF TypeOK, NothingLost, Holders
<1>2. ASSUME NEW r \in Requests, HandlerStep(r) PROVE NothingLost'
  <2> USE DEF GoTo, Answer, Labels
  <2>1. ASSUME NEW valid \in BOOLEAN, CheckAdmission(r, valid)
        PROVE  NothingLost'
    BY <1>0, <1>1, <2>1 DEF CheckAdmission, Custody
  <2>2. CASE UnknownStrategy(r)
    BY <1>0, <1>1, <2>2 DEF UnknownStrategy, Custody
  <2>3. CASE ReserveAtomic(r)
    BY <1>1, <2>3 DEF ReserveAtomic, Take
  <2>4. CASE ReserveLua(r)
    BY <1>0, <1>1, <2>4 DEF ReserveLua, Take, Custody
  <2>5. CASE Watch(r)
    BY <1>0, <1>1, <2>5 DEF Watch, Custody
  <2>6. CASE ReadInventory(r)
    BY <1>0, <1>1, <2>6 DEF ReadInventory, Custody
  <2>7. CASE Exec(r)
    BY <1>1, <2>7 DEF Exec, Take
  <2>8. CASE ExecAborted(r)
    BY <1>0, <1>1, <2>8 DEF ExecAborted, Custody
  <2>9. ~ReserveFails(r) /\ ~ReserveUnacked(r) /\ ~CompensateFails(r)
        /\ ~PublishUnacked(r) /\ ~RollbackFails(r)
    BY <1>0 DEF ReserveFails, ReserveUnacked, CompensateFails, PublishUnacked,
                RollbackFails, RedisFails, NothingLost
  <2>10. CASE Compensate(r)
    BY <1>0, <1>1, <2>10 DEF Compensate, PutBack, Restore
  <2>11. CASE Publish(r)
    <3>1. r \notin baseline
      BY <2>11 DEF Publish, Custody, NothingLost
    <3> QED
      BY <1>1, <2>11, <3>1 DEF Publish
  <2>12. CASE PublishFails(r)
    BY <1>1, <2>12 DEF PublishFails
  <2>13. CASE Rollback(r)
    BY <1>0, <1>1, <2>13 DEF Rollback, PutBack, Restore
  <2> QED
    BY <1>2, <2>1, <2>2, <2>3, <2>4, <2>5, <2>6, <2>7, <2>8, <2>9, <2>10,
       <2>11, <2>12, <2>13 DEF HandlerStep, Reserve, PublishOrder
<1>3. ASSUME NEW r \in Requests, BadRequest(r) \/ Arrive(r) PROVE NothingLost'
  BY <1>0, <1>1, <1>3 DEF BadRequest, Arrive, Answer, GoTo, Labels, Custody
<1>4. ASSUME NEW r \in Requests, NEW p \in Replicas
      PROVE  /\ ~Cancel(r) /\ ~Crash(p) /\ ~SeedThenDie(p)
             /\ ~ReserveResent(r) /\ ~PutBackResent(r)
  BY <1>0 DEF Cancel, Crash, SeedThenDie, ReserveResent, PutBackResent
<1>5. CASE (\E p \in Replicas : Start(p)) \/ UNCHANGED vars
  BY <1>5 DEF Start, vars, NothingLost, Holders
<1>6. CASE Reset
  BY <1>6 DEF Reset, NothingLost, Holders
<1> QED
  BY <1>0, <1>2, <1>3, <1>4, <1>5, <1>6
     DEF Next, Crash, SeedThenDie, Cancel, ReserveResent, PutBackResent

(* When no handler runs every unit is on the counter or in an order, under  *)
(* every strategy and however often SQS rejects an order: the rollback of   *)
(* purchase.go undoes exactly what the order took.                          *)
THEOREM StockKept ==
    ASSUME Faults \subseteq {"publish"}
    PROVE  Spec => []NoStockLost
<1>1. /\ "lost_ack" \notin Faults /\ "resent_decr" \notin Faults
      /\ "resent_incr" \notin Faults
  OBVIOUS
<1>2. Init => NothingLost
  BY DEF Init, NothingLost, Holders
<1>3. StockInv /\ NothingLost /\ [Next]_vars => NothingLost'
  BY NothingLostStep DEF StockInv
<1>4. StockInv /\ NothingLost => NoStockLost
  <2> SUFFICES ASSUME StockInv, NothingLost, Quiet, keyExists, stragglers = {}
               PROVE  inventory + Total(sent \ baseline) = InventoryCount
    BY DEF NoStockLost
  <2>1. TypeOK /\ taken \subseteq Requests /\ sent \subseteq Requests
    BY DEF StockInv, TypeOK
  <2>2. Holders = {}
    BY DEF Quiet, Running, Holders
  <2>3. taken = sent \ baseline /\ surplus = {} /\ doubled = {}
    BY <1>1, <2>2
       DEF StockInv, Custody, NothingLost, LosesAcks, ResendsDecr, ResendsIncr
  <2>4. Total(taken) \in Nat /\ Total(surplus) = 0 /\ Total(doubled) = 0
    BY <2>1, <2>3, Totals
  <2>5. inventory = InventoryCount - Total(taken) - Total(doubled)
                      + Total(surplus)
    BY DEF StockInv, Ledger
  <2> QED
    BY <2>3, <2>4, <2>5, ApiAssumption
<1> QED
  BY <1>1, <1>2, <1>3, <1>4, BooksBalance, PTL DEF Spec

-----------------------------------------------------------------------------
(* Contention *)

Winner == taken \cup returned # {}

(* Without atomic_decr nothing is compensated, and every broken WATCH and   *)
(* every answer of contention has a winner.                                 *)
ContentionInv ==
    /\ AnsweredWhenDone
    /\ \A r \in Requests : pc[r] # "compensate"
    /\ \A r \in Requests :
          \/ pc[r] \in {"read", "exec"} /\ r \notin watchers
          \/ response[r] = "contention"
          => Winner

LEMMA ContentionHandler ==
    ASSUME "atomic_decr" \notin Strategies, TypeOK, SeededFirst, ContentionInv,
           NEW r \in Requests, HandlerStep(r)
    PROVE  ContentionInv'
<1> USE DEF static, counter, handlers, history
<1>0. /\ pc \in [Requests -> Labels] /\ response \in [Requests -> Answers]
      /\ watchers \subseteq Requests /\ Mode(r) # "atomic_decr"
  BY DEF TypeOK, Mode
<1> USE <1>0
(* Nothing is written: only r moves, and it keeps its WATCH or leaves it.   *)
<1>1. ASSUME NEW l \in Labels \ {"done", "compensate", "idle"}, GoTo(r, l),
             pc[r] \notin {"done", "lost"},
             UNCHANGED <<taken, returned>>, watchers \subseteq watchers',
             l = "read" => r \in watchers',
             l = "exec" => pc[r] = "read"
      PROVE  ContentionInv'
  <2>1. AnsweredWhenDone'
    BY <1>1 DEF ContentionInv, AnsweredWhenDone, GoTo
  <2>2. Winner' = Winner
    BY <1>1 DEF Winner
  <2>3. \A s \in Requests : pc'[s] # "compensate"
    BY <1>1 DEF ContentionInv, GoTo
  <2>4. ASSUME NEW s \in Requests,
               \/ pc'[s] \in {"read", "exec"} /\ s \notin watchers'
               \/ response'[s] = "contention"
        PROVE  Winner
    BY <1>1, <2>4 DEF ContentionInv, GoTo
  <2> QED
    BY <2>1, <2>2, <2>3, <2>4 DEF ContentionInv
<1>2. ASSUME NEW a \in Answers \ {"none"}, Answer(r, a),
             pc[r] \notin {"done", "lost"},
             UNCHANGED <<taken, returned>>, watchers \ {r} \subseteq watchers',
             a = "contention" => Winner
      PROVE  ContentionInv'
  <2>1. AnsweredWhenDone'
    BY <1>2 DEF ContentionInv, AnsweredWhenDone, Answer
  <2>2. Winner => Winner'
    BY <1>2 DEF Winner
  <2>3. \A s \in Requests : pc'[s] # "compensate"
    BY <1>2 DEF ContentionInv, Answer
  <2>4. ASSUME NEW s \in Requests,
               \/ pc'[s] \in {"read", "exec"} /\ s \notin watchers'
               \/ response'[s] = "contention"
        PROVE  Winner
    BY <1>2, <2>4 DEF ContentionInv, Answer
  <2> QED
    BY <2>1, <2>2, <2>3, <2>4 DEF ContentionInv
(* Whoever writes is the winner. *)
<1>3. ASSUME Winner', pc[r] \notin {"done", "lost"},
             \/ \E l \in Labels \ {"done", "compensate"} : GoTo(r, l)
             \/ \E a \in Answers \ {"none"} : Answer(r, a)
      PROVE  ContentionInv'
  BY <1>3 DEF ContentionInv, AnsweredWhenDone, GoTo, Answer
<1>4. ASSUME Take(r) PROVE Winner'
  BY <1>4 DEF Take, Winner
<1> USE DEF Labels, Answers
<1>5. ASSUME NEW valid \in BOOLEAN, CheckAdmission(r, valid)
      PROVE  ContentionInv'
  <2>1. CASE GoTo(r, "reserve")
    BY <1>1, <1>5, <2>1 DEF CheckAdmission
  <2>2. CASE Answer(r, "unauthorized")
    BY <1>2, <1>5, <2>2 DEF CheckAdmission
  <2> QED
    BY <1>5, <2>1, <2>2 DEF CheckAdmission
<1>6. CASE UnknownStrategy(r)
  BY <1>2, <1>6 DEF UnknownStrategy
<1>7. CASE ReserveLua(r)
  <2>1. CASE Answer(r, "sold_out") /\ UNCHANGED <<counter, history>>
    BY <1>2, <1>7, <2>1 DEF ReserveLua
  <2>2. CASE Take(r) /\ GoTo(r, "publish")
    BY <1>3, <1>4, <1>7, <2>2 DEF ReserveLua
  <2> QED
    BY <1>7, <2>1, <2>2 DEF ReserveLua
<1>8. CASE Watch(r)
  BY <1>1, <1>8 DEF Watch
<1>9. CASE ReadInventory(r)
  <2>1. CASE Answer(r, "sold_out")
    BY <1>2, <1>9, <2>1 DEF ReadInventory
  <2>2. CASE GoTo(r, "exec") /\ UNCHANGED watchers
    BY <1>1, <1>9, <2>2 DEF ReadInventory
  <2> QED
    BY <1>9, <2>1, <2>2 DEF ReadInventory
<1>10. CASE Exec(r)
  BY <1>3, <1>4, <1>10 DEF Exec
<1>11. CASE ExecAborted(r)
  <2>1. CASE GoTo(r, "reserve")
    BY <1>1, <1>11, <2>1 DEF ExecAborted
  <2>2. CASE Answer(r, "contention")
    BY <1>2, <1>11, <2>2 DEF ExecAborted, ContentionInv
  <2> QED
    BY <1>11, <2>1, <2>2 DEF ExecAborted
<1>12. CASE ReserveFails(r)
  BY <1>2, <1>12 DEF ReserveFails
<1>13. CASE ReserveUnacked(r)
  BY <1>3, <1>4, <1>13 DEF ReserveUnacked
<1>14. ~ReserveAtomic(r) /\ ~Compensate(r) /\ ~CompensateFails(r)
  BY DEF ReserveAtomic, Compensate, CompensateFails, ContentionInv
<1>15. CASE Publish(r)
  BY <1>2, <1>15 DEF Publish
<1>16. CASE PublishFails(r) \/ PublishUnacked(r)
  BY <1>1, <1>16 DEF PublishFails, PublishUnacked
<1>17. CASE Rollback(r)
  <2>1. Winner'
    BY <1>17 DEF Rollback, PutBack, Restore, Winner
  <2> QED
    BY <1>3, <1>17, <2>1 DEF Rollback
<1>18. CASE RollbackFails(r)
  BY <1>2, <1>18 DEF RollbackFails
<1> QED
  BY <1>5, <1>6, <1>7, <1>8, <1>9, <1>10, <1>11, <1>12, <1>13, <1>14, <1>15,
     <1>16, <1>17, <1>18 DEF HandlerStep, Reserve, PublishOrder

LEMMA ContentionStep ==
    ASSUME "atomic_decr" \notin Strategies, ResetMode = "never", TypeOK,
           SeededFirst, ContentionInv, [Next]_vars
    PROVE  ContentionInv'
<1> USE DEF static, counter, handlers, history
<1>1. CASE /\ UNCHANGED <<pc, response, taken, returned>>
           /\ watchers \subseteq watchers' \/ Running = {}
  BY <1>1 DEF ContentionInv, AnsweredWhenDone, Winner, Running
<1>2. ASSUME NEW p \in Replicas, Start(p) \/ SeedThenDie(p) PROVE ContentionInv'
  <2>1. keyExists \/ Running = {}
    BY DEF TypeOK, SeededFirst, Running
  <2> QED
    BY <1>1, <1>2, <2>1 DEF Start, SeedThenDie, Seed
<1>3. ASSUME NEW p \in Replicas, Crash(p) PROVE ContentionInv'
  <2>1. PICK back \in SUBSET Requests :
               /\ watchers' = {r \in watchers : back = {} /\ host[r] # p}
               /\ Restore(back)
    BY <1>3, CrashUnseen
  <2>2. Winner => Winner'
    BY <2>1 DEF Restore, Winner
  <2>3. back # {} => Winner'
    BY <2>1 DEF Restore, Winner
  <2>4. AnsweredWhenDone' /\ \A r \in Requests : pc'[r] # "compensate"
    BY <1>3 DEF TypeOK, ContentionInv, AnsweredWhenDone, Crash, Running
  <2>5. ASSUME NEW r \in Requests,
               \/ pc'[r] \in {"read", "exec"} /\ r \notin watchers'
               \/ response'[r] = "contention"
        PROVE  Winner'
    BY <1>3, <2>1, <2>2, <2>3, <2>5 DEF ContentionInv, Crash, Running
  <2> QED
    BY <2>4, <2>5 DEF ContentionInv
<1>4. ASSUME NEW r \in Requests, BadRequest(r) \/ Arrive(r) PROVE ContentionInv'
  BY <1>4 DEF TypeOK, ContentionInv, AnsweredWhenDone, Winner, BadRequest,
              Arrive, GoTo, Answer
<1>5. ASSUME NEW r \in Requests, Cancel(r) PROVE ContentionInv'
  BY <1>1, <1>5 DEF Cancel
<1>6. ASSUME NEW r \in Requests, HandlerStep(r) PROVE ContentionInv'
  BY <1>6, ContentionHandler
<1>7. CASE UNCHANGED vars
  BY <1>1, <1>7 DEF vars
<1>8. ~Reset
  BY DEF Reset
<1>9. ASSUME NEW r \in Requests, ReserveResent(r) \/ PutBackResent(r)
      PROVE  ContentionInv'
  <2>1. Winner'
    BY <1>9 DEF ReserveResent, Take, PutBackResent, PutBack, Restore, Winner
  <2> QED
    BY <1>9, <2>1 DEF ContentionInv, AnsweredWhenDone, ReserveResent,
                      PutBackResent
<1> QED
  BY <1>2, <1>3, <1>4, <1>5, <1>6, <1>7, <1>8, <1>9 DEF Next

(* The optimistic strategy gives up only where another request succeeded,   *)
(* for any number of requests and any retry limit, under every fault.       *)
THEOREM ContentionWon ==
    ASSUME "atomic_decr" \notin Strategies, ResetMode = "never"
    PROVE  Spec => []ContentionHasWinner
<1> DEFINE Inv == TypeOK /\ SeededFirst /\ ContentionInv
<1>1. Init => Inv
  BY TypeInit, SeededInit DEF Init, ContentionInv, AnsweredWhenDone
<1>2. Inv /\ [Next]_vars => Inv'
  BY TypeStep, SeededStep, ContentionStep
<1>3. Inv => ContentionHasWinner
  BY DEF ContentionInv, ContentionHasWinner, Winner
<1> QED
  BY <1>1, <1>2, <1>3, PTL DEF Spec
=============================================================================
