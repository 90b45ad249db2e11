---------------------------- MODULE FlashSaleApi ----------------------------
(***************************************************************************)
(* The flash-sale-api service (src/services/flash-sale-api): replicas of   *)
(* an HTTP server that reserve units of one item on a Redis counter with   *)
(* one of three strategies and then publish the order to SQS.              *)
(*                                                                         *)
(* One action is one round trip of a handler: a Redis command (or script,  *)
(* or EXEC) together with the handler code that runs on its reply up to    *)
(* the next round trip.  Commands of different requests interleave; Redis  *)
(* executes each of them atomically.                                       *)
(***************************************************************************)
EXTENDS Units

CONSTANTS
    Requests,         \* purchase requests that clients may send
    Replicas,         \* API tasks behind the load balancer
    MaxQuantity,      \* largest quantity a request asks for
    InventoryCount,   \* INVENTORY_COUNT
    Strategies,       \* values INVENTORY_STRATEGY takes among the replicas
    RetryLimit,       \* OPTIMISTIC_RETRY_LIMIT
    RequireAdmission, \* REQUIRE_ADMISSION_TOKEN
    Faults,           \* which faults of FaultKinds the environment injects
    ResetMode         \* when POST /reset is called: "never", "quiet", "any"

KnownStrategies == {"atomic_decr", "optimistic", "lua_script"}

(* crash: a task dies.  cancel: a client disconnects.  refused: Redis fails *)
(* a command that had no effect.  lost_reply: a Redis command took effect   *)
(* and its reply is lost.  publish: SQS rejects a message.  lost_ack: SQS   *)
(* stores a message and its answer is lost.  resent_decr, resent_incr: a    *)
(* command that takes units or puts them back takes effect, its reply is    *)
(* lost and the Redis client sends it again.                                *)
FaultKinds ==
    {"crash", "cancel", "refused", "lost_reply", "publish", "lost_ack",
     "resent_decr", "resent_incr"}

ASSUME ApiAssumption ==
    /\ IsFiniteSet(Requests)
    /\ MaxQuantity \in Nat \ {0}
    /\ InventoryCount \in Nat
    /\ RetryLimit \in Nat \ {0}
    /\ RequireAdmission \in BOOLEAN
    /\ Faults \subseteq FaultKinds
    /\ ResetMode \in {"never", "quiet", "any"}

VARIABLES
    inventory,  \* the Redis key inventory:flash-sale-item (0 when missing)
    keyExists,  \* whether that key exists
    watchers,   \* open WATCH transactions whose key was not written since
    up,         \* replicas that serve requests
    strategy,   \* inventoryMode of each replica
    host,       \* the replica a request is routed to
    qty,        \* quantity of each request
    pc,         \* next round trip of each handler
    current,    \* the value read under WATCH
    attempts,   \* the loop counter of the optimistic strategy
    cancelled,  \* the request's context is cancelled
    response,   \* what the handler answered
    sent,       \* orders stored by SQS (order id = request)
    \* history variables
    taken,      \* requests whose decrement the counter carries
    doubled,    \* requests whose decrement the counter carries twice
    surplus,    \* requests that put back units they had not taken, or had not
                \* taken since the reset
    returned,   \* requests that put units back since the reset
    resent,     \* requests one of whose commands took effect more than once
    stragglers, \* requests that held units when the counter was reset
    baseline    \* orders stored by SQS when the counter was reset

static   == <<strategy, host, qty>>
counter  == <<inventory, keyExists, watchers>>
handlers == <<pc, current, attempts, cancelled, response>>
history  ==
    <<taken, doubled, surplus, returned, resent, stragglers, baseline>>
vars     == <<static, counter, up, handlers, sent, history>>

Labels == {"idle", "gate", "reserve", "read", "exec", "compensate",
           "publish", "rollback", "done", "lost"}
Answers == {"none", "bad_request", "unauthorized", "sold_out", "contention",
            "bad_strategy", "redis_error", "queue_failed", "accepted"}

TypeOK ==
    /\ inventory \in Int
    /\ keyExists \in BOOLEAN
    /\ watchers \subseteq Requests
    /\ up \in [Replicas -> BOOLEAN]
    /\ strategy \in [Replicas -> Strategies]
    /\ host \in [Requests -> Replicas]
    /\ qty \in [Requests -> 1..MaxQuantity]
    /\ pc \in [Requests -> Labels]
    /\ current \in [Requests -> Int]
    /\ attempts \in [Requests -> 0..(RetryLimit - 1)]
    /\ cancelled \in [Requests -> BOOLEAN]
    /\ response \in [Requests -> Answers]
    /\ sent \subseteq Requests
    /\ taken \subseteq Requests
    /\ doubled \subseteq Requests
    /\ surplus \subseteq Requests
    /\ returned \subseteq Requests
    /\ resent \subseteq Requests
    /\ stragglers \subseteq Requests
    /\ baseline \subseteq Requests

(* The load balancer's routing, the quantities and the deployed strategies  *)
(* are arbitrary and fixed; the key does not exist until a replica seeds it. *)
Init ==
    /\ inventory = 0
    /\ keyExists = FALSE
    /\ watchers = {}
    /\ up = [p \in Replicas |-> FALSE]
    /\ strategy \in [Replicas -> Strategies]
    /\ host \in [Requests -> Replicas]
    /\ qty \in [Requests -> 1..MaxQuantity]
    /\ pc = [r \in Requests |-> "idle"]
    /\ current = [r \in Requests |-> 0]
    /\ attempts = [r \in Requests |-> 0]
    /\ cancelled = [r \in Requests |-> FALSE]
    /\ response = [r \in Requests |-> "none"]
    /\ sent = {}
    /\ taken = {}
    /\ doubled = {}
    /\ surplus = {}
    /\ returned = {}
    /\ resent = {}
    /\ stragglers = {}
    /\ baseline = {}

-----------------------------------------------------------------------------
Total(S) == UnitSum(qty, S)

Running == {r \in Requests : pc[r] \notin {"idle", "done", "lost"}}
Holders == {r \in Requests : pc[r] \in {"compensate", "publish", "rollback"}}
Quiet   == Running = {}

Mode(r) == strategy[host[r]]

(* What GET /inventory and /health show. *)
Remaining == IF inventory < 0 THEN 0 ELSE inventory

-----------------------------------------------------------------------------
(* Handler bookkeeping *)

GoTo(r, label) ==
    /\ pc' = [pc EXCEPT ![r] = label]
    /\ UNCHANGED response

Answer(r, a) ==
    /\ pc' = [pc EXCEPT ![r] = "done"]
    /\ response' = [response EXCEPT ![r] = a]

(* A command issued with a cancelled context fails before it is sent. *)
RedisFails(r) == cancelled[r] \/ "refused" \in Faults

(* DECRBY by the request's quantity; every write aborts the open WATCHes. *)
Take(r) ==
    /\ inventory' = inventory - qty[r]
    /\ watchers' = {}
    /\ taken' = taken \cup {r}
    /\ doubled' = doubled \cup (taken \cap {r})
    /\ UNCHANGED <<keyExists, surplus, returned, stragglers, baseline>>

(* What the requests R put back was taken twice, once, or not by them.      *)
Restore(R) ==
    /\ doubled' = doubled \ R
    /\ taken' = taken \ (R \ doubled)
    /\ surplus' = surplus \cup (R \ taken)
    /\ returned' = returned \cup R
    /\ UNCHANGED <<stragglers, baseline>>

(* Mutant: puts one unit back (IncrInventory) whatever was taken. *)
PutBackOne(r) ==
    /\ inventory' = inventory + 1
    /\ watchers' = {}
    /\ Restore({r})
    /\ UNCHANGED keyExists

(* INCRBY by the request's quantity. *)
PutBack(r) ==
    /\ inventory' = inventory + qty[r]
    /\ watchers' = {}
    /\ Restore({r})
    /\ UNCHANGED keyExists

-----------------------------------------------------------------------------
(* Replicas *)

(* Mutant: SET instead of SETNX. *)
SeedOverwriting ==
    /\ inventory' = InventoryCount
    /\ keyExists' = TRUE
    /\ watchers' = {}

(* SETNX at startup: the counter is written only if it does not exist. *)
Seed ==
    /\ inventory' = IF keyExists THEN inventory ELSE InventoryCount
    /\ keyExists' = TRUE
    /\ watchers' = IF keyExists THEN watchers ELSE {}

Start(p) ==
    /\ ~up[p]
    /\ Seed
    /\ up' = [up EXCEPT ![p] = TRUE]
    /\ UNCHANGED <<static, handlers, sent, history>>

(* main seeds the counter and then dies: log.Fatalf on a lost reply or on a *)
(* failed AWS configuration.                                                *)
SeedThenDie(p) ==
    /\ "crash" \in Faults
    /\ ~up[p]
    /\ Seed
    /\ UNCHANGED <<static, up, handlers, sent, history>>

(* A task dies with its handlers.  What they had sent may still take effect *)
(* unseen: messages are stored (out) and units put back (back).             *)
Crash(p) ==
    /\ "crash" \in Faults
    /\ up[p]
    /\ up' = [up EXCEPT ![p] = FALSE]
    /\ pc' = [r \in Requests |->
                IF host[r] = p /\ r \in Running THEN "lost" ELSE pc[r]]
    /\ \E out \in SUBSET {r \in Requests : host[r] = p /\ pc[r] = "publish"} :
          sent' = sent \cup out
    /\ \E back \in SUBSET {r \in Requests :
             /\ host[r] = p
             /\ pc[r] \in {"compensate", "rollback"}
             /\ ~cancelled[r]} :
          /\ inventory' = inventory + Total(back)
          /\ watchers' = {r \in watchers : back = {} /\ host[r] # p}
          /\ Restore(back)
    /\ UNCHANGED <<static, keyExists, current, attempts, cancelled, response,
                   resent>>

-----------------------------------------------------------------------------
(* POST /purchase *)

BadRequest(r) ==
    /\ pc[r] = "idle"
    /\ up[host[r]]
    /\ Answer(r, "bad_request")
    /\ UNCHANGED <<static, counter, up, current, attempts, cancelled, sent,
                   history>>

Arrive(r) ==
    /\ pc[r] = "idle"
    /\ up[host[r]]
    /\ GoTo(r, IF RequireAdmission THEN "gate" ELSE "reserve")
    /\ UNCHANGED <<static, counter, up, current, attempts, cancelled, sent,
                   history>>

(* The client disconnects: net/http cancels the request's context. *)
Cancel(r) ==
    /\ "cancel" \in Faults
    /\ r \in Running
    /\ ~cancelled[r]
    /\ cancelled' = [cancelled EXCEPT ![r] = TRUE]
    /\ UNCHANGED <<static, counter, up, pc, current, attempts, response, sent,
                   history>>

(* valid: a token was presented and equals the one stored in Redis. *)
CheckAdmission(r, valid) ==
    /\ pc[r] = "gate"
    /\ \/ valid /\ ~cancelled[r] /\ GoTo(r, "reserve")
       \/ (~valid \/ RedisFails(r)) /\ Answer(r, "unauthorized")
    /\ UNCHANGED <<static, counter, up, current, attempts, cancelled, sent,
                   history>>

UnknownStrategy(r) ==
    /\ pc[r] = "reserve"
    /\ Mode(r) \notin KnownStrategies
    /\ Answer(r, "bad_strategy")
    /\ UNCHANGED <<static, counter, up, current, attempts, cancelled, sent,
                   history>>

(* Mutant: looks at the counter as it was before the DECRBY. *)
ReserveAtomicLate(r) ==
    /\ pc[r] = "reserve"
    /\ Mode(r) = "atomic_decr"
    /\ ~cancelled[r]
    /\ Take(r)
    /\ GoTo(r, IF inventory <= 0 THEN "compensate" ELSE "publish")
    /\ UNCHANGED <<static, up, current, attempts, cancelled, sent, resent>>

(* DECRBY first, look afterwards: a negative result must be compensated. *)
ReserveAtomic(r) ==
    /\ pc[r] = "reserve"
    /\ Mode(r) = "atomic_decr"
    /\ ~cancelled[r]
    /\ Take(r)
    /\ GoTo(r, IF inventory - qty[r] < 0 THEN "compensate" ELSE "publish")
    /\ UNCHANGED <<static, up, current, attempts, cancelled, sent, resent>>

(* Mutant: the script compares with zero. *)
ReserveLuaAny(r) ==
    /\ pc[r] = "reserve"
    /\ Mode(r) = "lua_script"
    /\ ~cancelled[r]
    /\ \/ /\ inventory <= 0
          /\ Answer(r, "sold_out")
          /\ UNCHANGED <<counter, history>>
       \/ inventory > 0 /\ Take(r) /\ GoTo(r, "publish")
    /\ UNCHANGED <<static, up, current, attempts, cancelled, sent, resent>>

(* The script compares and decrements in one step. *)
ReserveLua(r) ==
    /\ pc[r] = "reserve"
    /\ Mode(r) = "lua_script"
    /\ ~cancelled[r]
    /\ \/ /\ inventory < qty[r]
          /\ Answer(r, "sold_out")
          /\ UNCHANGED <<counter, history>>
       \/ /\ inventory >= qty[r]
          /\ Take(r)
          /\ GoTo(r, "publish")
    /\ UNCHANGED <<static, up, current, attempts, cancelled, sent, resent>>

Watch(r) ==
    /\ pc[r] = "reserve"
    /\ Mode(r) = "optimistic"
    /\ ~cancelled[r]
    /\ watchers' = watchers \cup {r}
    /\ GoTo(r, "read")
    /\ UNCHANGED <<static, inventory, keyExists, up, current, attempts,
                   cancelled, sent, history>>

(* Mutant: refuses only an empty counter, whatever the quantity. *)
ReadInventoryAny(r) ==
    /\ pc[r] = "read"
    /\ \/ /\ inventory < 1
          /\ Answer(r, "sold_out")
          /\ watchers' = watchers \ {r}
          /\ UNCHANGED current
       \/ /\ inventory >= 1
          /\ GoTo(r, "exec")
          /\ current' = [current EXCEPT ![r] = inventory]
          /\ UNCHANGED watchers
    /\ UNCHANGED <<static, inventory, keyExists, up, attempts, cancelled, sent,
                   history>>

(* GET on the watching connection, which no longer looks at the context. *)
ReadInventory(r) ==
    /\ pc[r] = "read"
    /\ \/ /\ inventory < qty[r]
          /\ Answer(r, "sold_out")
          /\ watchers' = watchers \ {r}
          /\ UNCHANGED current
       \/ /\ inventory >= qty[r]
          /\ GoTo(r, "exec")
          /\ current' = [current EXCEPT ![r] = inventory]
          /\ UNCHANGED watchers
    /\ UNCHANGED <<static, inventory, keyExists, up, attempts, cancelled, sent,
                   history>>

(* Mutant: the transaction runs without WATCH. *)
ExecUnwatched(r) ==
    /\ pc[r] = "exec"
    /\ Take(r)
    /\ GoTo(r, "publish")
    /\ UNCHANGED <<static, up, current, attempts, cancelled, sent, resent>>

(* MULTI, DECRBY, EXEC: Redis executes it only for a clean WATCH. *)
Exec(r) ==
    /\ pc[r] = "exec"
    /\ r \in watchers
    /\ Take(r)
    /\ GoTo(r, "publish")
    /\ UNCHANGED <<static, up, current, attempts, cancelled, sent, resent>>

(* Mutants: one attempt too many; the loop variable is not advanced. *)
ExecAbortedOnceMore(r) ==
    /\ pc[r] = "exec"
    /\ r \notin watchers
    /\ \/ /\ attempts[r] < RetryLimit
          /\ attempts' = [attempts EXCEPT ![r] = @ + 1]
          /\ GoTo(r, "reserve")
       \/ /\ attempts[r] >= RetryLimit
          /\ Answer(r, "contention")
          /\ UNCHANGED attempts
    /\ UNCHANGED <<static, counter, up, current, cancelled, sent, history>>

ExecAbortedForever(r) ==
    /\ pc[r] = "exec"
    /\ r \notin watchers
    /\ GoTo(r, "reserve")
    /\ UNCHANGED <<static, counter, up, current, attempts, cancelled, sent,
                   history>>

ExecAborted(r) ==
    /\ pc[r] = "exec"
    /\ r \notin watchers
    /\ \/ /\ attempts[r] + 1 < RetryLimit
          /\ attempts' = [attempts EXCEPT ![r] = @ + 1]
          /\ GoTo(r, "reserve")
       \/ /\ attempts[r] + 1 >= RetryLimit
          /\ Answer(r, "contention")
          /\ UNCHANGED attempts
    /\ UNCHANGED <<static, counter, up, current, cancelled, sent, history>>

(* The reservation fails without an effect. *)
ReserveFails(r) ==
    /\ pc[r] \in {"reserve", "read", "exec"}
    /\ Mode(r) \in KnownStrategies
    /\ RedisFails(r)
    /\ Answer(r, "redis_error")
    /\ watchers' = watchers \ {r}
    /\ UNCHANGED <<static, inventory, keyExists, up, current, attempts,
                   cancelled, sent, history>>

(* The reservation takes effect and its reply is lost. *)
ReserveUnacked(r) ==
    /\ "lost_reply" \in Faults
    /\ \/ pc[r] = "reserve" /\ Mode(r) = "atomic_decr" /\ ~cancelled[r]
       \/ /\ pc[r] = "reserve" /\ Mode(r) = "lua_script" /\ ~cancelled[r]
          /\ inventory >= qty[r]
       \/ pc[r] = "exec" /\ r \in watchers
    /\ Take(r)
    /\ Answer(r, "redis_error")
    /\ UNCHANGED <<static, up, current, attempts, cancelled, sent, resent>>

(* The reservation takes effect, its reply is lost, and go-redis is about to *)
(* send the command again (bound: it repeats one effect).  EXEC is bound to *)
(* its connection and is not sent again.                                    *)
ReserveResent(r) ==
    /\ "resent_decr" \in Faults
    /\ pc[r] = "reserve"
    /\ \/ Mode(r) = "atomic_decr"
       \/ Mode(r) = "lua_script" /\ inventory >= qty[r]
    /\ ~cancelled[r]
    /\ r \notin taken
    /\ Take(r)
    /\ resent' = resent \cup {r}
    /\ UNCHANGED <<static, up, handlers, sent>>

(* Mutant: refuses without the correction. *)
CompensateForgotten(r) ==
    /\ pc[r] = "compensate"
    /\ ~cancelled[r]
    /\ Answer(r, "sold_out")
    /\ UNCHANGED <<static, counter, up, current, attempts, cancelled, sent,
                   history>>

(* The correction of a negative result, on the same context. *)
Compensate(r) ==
    /\ pc[r] = "compensate"
    /\ ~cancelled[r]
    /\ PutBack(r)
    /\ \/ Answer(r, "sold_out")
       \/ "lost_reply" \in Faults /\ Answer(r, "redis_error")
    /\ UNCHANGED <<static, up, current, attempts, cancelled, sent, resent>>

CompensateFails(r) ==
    /\ pc[r] = "compensate"
    /\ RedisFails(r)
    /\ Answer(r, "redis_error")
    /\ UNCHANGED <<static, counter, up, current, attempts, cancelled, sent,
                   history>>

Publish(r) ==
    /\ pc[r] = "publish"
    /\ ~cancelled[r]
    /\ sent' = sent \cup {r}
    /\ Answer(r, "accepted")
    /\ UNCHANGED <<static, counter, up, current, attempts, cancelled, history>>

(* Mutant: answers the error without the rollback. *)
PublishFailsEarly(r) ==
    /\ pc[r] = "publish"
    /\ cancelled[r] \/ "publish" \in Faults
    /\ Answer(r, "queue_failed")
    /\ UNCHANGED <<static, counter, up, current, attempts, cancelled, sent,
                   history>>

(* SendMessage returns an error and the message was not stored. *)
PublishFails(r) ==
    /\ pc[r] = "publish"
    /\ cancelled[r] \/ "publish" \in Faults
    /\ GoTo(r, "rollback")
    /\ UNCHANGED <<static, counter, up, current, attempts, cancelled, sent,
                   history>>

(* SendMessage returns an error and the message was stored. *)
PublishUnacked(r) ==
    /\ pc[r] = "publish"
    /\ cancelled[r] \/ "lost_ack" \in Faults
    /\ sent' = sent \cup {r}
    /\ GoTo(r, "rollback")
    /\ UNCHANGED <<static, counter, up, current, attempts, cancelled, history>>

(* The answer is the same whether or not the INCRBY reported an error. *)
Rollback(r) ==
    /\ pc[r] = "rollback"
    /\ ~cancelled[r]
    /\ PutBack(r)
    /\ Answer(r, "queue_failed")
    /\ UNCHANGED <<static, up, current, attempts, cancelled, sent, resent>>

RollbackFails(r) ==
    /\ pc[r] = "rollback"
    /\ RedisFails(r)
    /\ Answer(r, "queue_failed")
    /\ UNCHANGED <<static, counter, up, current, attempts, cancelled, sent,
                   history>>

(* The INCRBY of a correction or a rollback takes effect, its reply is lost, *)
(* and go-redis is about to send it again (bound: as long as the counter    *)
(* carries a decrement of the request).                                     *)
PutBackResent(r) ==
    /\ "resent_incr" \in Faults
    /\ pc[r] \in {"compensate", "rollback"}
    /\ ~cancelled[r]
    /\ r \in taken
    /\ PutBack(r)
    /\ resent' = resent \cup {r}
    /\ UNCHANGED <<static, up, handlers, sent>>

-----------------------------------------------------------------------------
(* POST /reset: SET of the counter, whatever is in flight. *)

Reset ==
    /\ ResetMode # "never"
    /\ ResetMode = "quiet" => Quiet
    /\ \E p \in Replicas : up[p]
    /\ inventory' = InventoryCount
    /\ watchers' = {}
    /\ taken' = {}
    /\ doubled' = {}
    /\ surplus' = {}
    /\ returned' = {}
    /\ resent' = {}
    /\ stragglers' = Holders
    /\ baseline' = sent
    /\ UNCHANGED <<static, keyExists, up, handlers, sent>>

-----------------------------------------------------------------------------

Reserve(r) ==
    \/ UnknownStrategy(r) \/ ReserveAtomic(r) \/ ReserveLua(r)
    \/ Watch(r) \/ ReadInventory(r) \/ Exec(r) \/ ExecAborted(r)
    \/ ReserveFails(r) \/ ReserveUnacked(r)
    \/ Compensate(r) \/ CompensateFails(r)

PublishOrder(r) ==
    \/ Publish(r) \/ PublishFails(r) \/ PublishUnacked(r)
    \/ Rollback(r) \/ RollbackFails(r)

HandlerStep(r) ==
    \/ \E valid \in BOOLEAN : CheckAdmission(r, valid)
    \/ Reserve(r)
    \/ PublishOrder(r)

Next ==
    \/ \E p \in Replicas : Start(p) \/ SeedThenDie(p) \/ Crash(p)
    \/ \E r \in Requests :
          \/ BadRequest(r) \/ Arrive(r) \/ Cancel(r)
          \/ ReserveResent(r) \/ PutBackResent(r)
          \/ HandlerStep(r)
    \/ Reset

Spec == Init /\ [][Next]_vars

(* A handler is a goroutine: it is scheduled, and its round trips end (with *)
(* a reply, an error or a timeout).  Nothing is assumed of clients, resets  *)
(* or crashes.                                                              *)
Fairness == \A r \in Requests : WF_vars(HandlerStep(r))
FairSpec == Spec /\ Fairness

-----------------------------------------------------------------------------
(* Properties *)

Doomed == {r \in Requests : pc[r] = "compensate"}

(* Units that nobody has been granted: what the counter would show if every *)
(* pending correction of a negative DECRBY were already made.               *)
Unsold == inventory + Total(Doomed)

(* No verdict "OVERSELL" of scripts/consistency_check.py, at any moment:    *)
(* the displayed units plus the units ordered since the last reset never    *)
(* exceed the inventory.  Requests that held units when a reset hit them    *)
(* are the only excuse, so a reset between experiments leaves none.         *)
NoOversell ==
    Remaining + Total(sent \ baseline) <= InventoryCount + Total(stragglers)

(* Under every fault: what clients were promised fits the inventory.  SQS   *)
(* may store an order and report an error, and a task may die before it     *)
(* tells anyone; if the units of such an order were put back, they are for  *)
(* sale again although the order has them.  These orders, and units that a  *)
(* resent INCRBY put back twice, are all that can be sold in excess.        *)
Disowned == sent \cap returned

PromisesFit ==
    Remaining + Total(sent \ (baseline \cup Disowned))
       <= InventoryCount + Total(stragglers \cup surplus)

(* Under every fault: when no handler runs, no unit is missing but those of *)
(* purchases that failed (a 500, a dead task) after taking them, and those  *)
(* of a DECRBY that ran twice; none is in excess but those of the orders    *)
(* above.  A rejected or a refused purchase never costs a unit.             *)
Failed ==
    {r \in Requests :
        pc[r] = "lost" \/ response[r] \in {"redis_error", "queue_failed"}}

StockAccounted ==
    Quiet /\ keyExists /\ stragglers = {} =>
       /\ inventory + Total(sent \ baseline)
             <= InventoryCount + Total(Disowned) + Total(surplus)
       /\ InventoryCount
             <= inventory + Total(sent \ baseline)
                  + Total((taken \ sent) \cap (Failed \cup resent))
                  + Total(doubled)

(* No verdict "DATA LOSS": when no handler runs, every unit is either on    *)
(* the counter or in an order, unless a reset hit a request that held some. *)
(* The rollback of purchase.go must undo exactly what the failed order      *)
(* took, under every strategy.                                              *)
NoStockLost ==
    Quiet /\ keyExists /\ stragglers = {}
       => inventory + Total(sent \ baseline) = InventoryCount

(* What the client is told agrees with the stock: 201 is an order, a 4xx    *)
(* left neither an order nor a decrement behind (but for a DECRBY that the  *)
(* Redis client had sent before), and units that belong to no order are     *)
(* those of a running request, of a dead task, of a 500 or of such a DECRBY. *)
AnswersMatchStock ==
    \A r \in Requests :
       /\ response[r] = "accepted" => r \in sent
       /\ response[r] \in {"bad_request", "unauthorized", "sold_out",
                           "contention", "bad_strategy"}
             => r \notin sent \cup (taken \ resent)
       /\ r \in taken \ (sent \cup resent)
             => r \in Running \cup Failed

(* Compare-then-decrement strategies never drive the counter below zero,    *)
(* whatever the other replicas, a reset or a rollback write in between.     *)
CounterNeverNegative == inventory >= 0

(* The EXEC of the optimistic strategy decrements the value it has read:    *)
(* no write of any other handler slips between GET and EXEC, so the         *)
(* remaining units reported to the client are those of the counter.         *)
ExecIsFresh ==
    [][\A r \in Requests :
          (pc[r] = "exec" /\ pc'[r] = "publish")
             => inventory' = current[r] - qty[r]]_vars

(* A purchase is refused as sold out only if fewer units than it asks for   *)
(* are unsold at that moment (redis/client.go: "ErrSoldOut when             *)
(* insufficient").                                                          *)
RefusedOnlyWhenShort ==
    [][\A r \in Requests :
          /\ pc[r] \in {"reserve", "read"}
          /\ pc'[r] = "compensate" \/ response'[r] = "sold_out"
          => Unsold < qty[r]]_vars

(* The optimistic strategy loses a request to contention only because       *)
(* another request won the units: when one is told to retry, some other     *)
(* has taken stock, or had until its failed publish put the units back.     *)
ContentionHasWinner ==
    (\E r \in Requests : response[r] = "contention")
       => taken \cup returned # {}

(* "The handler always rolls inventory back if SQS publish fails,           *)
(* independent of strategy" (services/flash-sale-api/README.md).            *)
FailedPublishReturnsUnits ==
    \A r \in Requests : response[r] = "queue_failed" => r \notin taken

(* Under every strategy and fault the replicas implement a stock that is    *)
(* never negative and creates no unit: a DECRBY below zero is no grant, and *)
(* a request that was granted units settles them once.  Its orders are      *)
(* those whose units are off the counter for good; an order whose handler   *)
(* put them back is none.                                                   *)
StockPromise == INSTANCE Stock WITH
    available <- IF keyExists /\ Unsold >= 0 THEN Unsold ELSE 0,
    granted   <- {r \in taken : pc[r] \in {"publish", "rollback"}},
    orders    <- {r \in (taken \cap sent) \ returned :
                     pc[r] \in {"done", "lost"}}

ImplementsStock == StockPromise!Spec

(* A counter that a DECRBY drove below zero is corrected.                   *)
NegativeIsBrief == inventory < 0 ~> inventory >= 0

(* Units taken off the counter end up in an order or back on the counter.   *)
UnitsSettle ==
    \A r \in Requests : r \in taken ~> (r \in sent \/ r \notin taken)

(* Every purchase that arrives is answered: the optimistic loop gives up    *)
(* after RetryLimit attempts even if the counter is written forever.        *)
EveryPurchaseAnswered ==
    \A r \in Requests : r \in Running ~> response[r] # "none"
-----------------------------------------------------------------------------
(* Why PromisesFit and NoOversell hold: parts of an inductive invariant.    *)

(* A clean WATCH means that the value read under it is still the counter.   *)
WatchSound ==
    \A r \in watchers :
       /\ pc[r] \in {"read", "exec"}
       /\ pc[r] = "exec" => current[r] = inventory /\ qty[r] <= current[r]

(* The counter is seeded before any replica serves a request. *)
SeededFirst ==
    /\ \A r \in Running : up[host[r]]
    /\ \A p \in Replicas : up[p] => keyExists
    /\ ~keyExists => /\ sent = {} /\ taken = {} /\ doubled = {}
                     /\ surplus = {} /\ stragglers = {}

(* What the counter shows. *)
Ledger ==
    IF keyExists
    THEN inventory =
            InventoryCount - Total(taken) - Total(doubled) + Total(surplus)
    ELSE inventory = 0

(* Who holds units: a request takes them once and settles them once, unless *)
(* a command is sent again.  Only an order whose answer SQS lost, or whose  *)
(* client left, is put back.                                                *)
LosesAcks   == "lost_ack" \in Faults
ResendsDecr == "resent_decr" \in Faults
ResendsIncr == "resent_incr" \in Faults

Custody ==
    /\ taken \cap stragglers = {}
    /\ baseline \subseteq sent /\ baseline \cap taken = {}
    /\ doubled \subseteq taken \cap resent
    /\ surplus \subseteq returned \cap (stragglers \cup resent)
    /\ Holders \subseteq taken \cup stragglers \cup (returned \cap resent)
    /\ \A r \in taken \cup stragglers :
          \/ pc[r] \in {"compensate", "publish", "rollback", "done", "lost"}
          \/ /\ pc[r] = "reserve" /\ Mode(r) # "optimistic"
             /\ r \in (taken \cap resent) \ doubled
    /\ \A r \in returned :
          \/ pc[r] \in {"done", "lost"}
          \/ pc[r] \in {"compensate", "rollback"} /\ r \in resent /\ ResendsIncr
    /\ \A r \in surplus : pc[r] \in {"done", "lost"}
    /\ \A r \in sent :
          \/ pc[r] \in {"done", "lost"}
          \/ pc[r] = "rollback" /\ (cancelled[r] \/ LosesAcks)
    /\ sent \ (baseline \cup Disowned) \subseteq taken \cup stragglers
    /\ ~ResendsIncr => surplus \subseteq stragglers
    /\ ~ResendsDecr /\ ~ResendsIncr => resent = {}
    /\ ~LosesAcks => Disowned = {}

(* Requests of this sale that were granted units; a doomed DECRBY is none. *)
Granted ==
    {r \in taken : r \in sent \ baseline \/ pc[r] \in {"publish", "rollback"}}

GrantsFit == Total(Granted) <= InventoryCount + Total(surplus)

StockInv ==
    /\ TypeOK
    /\ WatchSound
    /\ SeededFirst
    /\ Ledger
    /\ Custody
    /\ GrantsFit
=============================================================================
