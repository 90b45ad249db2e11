# A verification project for the distributed flash-sale system

TLA+ models of the services under `src/services`, the TLC runs that check them
on small instances, and TLAPS proofs of what must hold for every value of the
constants. Paths below are relative to the repository; `client.go:87` means
line 87 of the named file.

    tlc -workers 2 -config MCFlashSaleApi_faults.cfg MCFlashSaleApi.tla
    tlc -workers 2 -config MCWaitingRoom_line.cfg MCWaitingRoom.tla
    tlapm FlashSaleApi_proofs.tla

## 1. Inventory of the system

One item is sold. A client may join a queue (waiting-room), polls until it is
admitted and gets a token, buys with `POST /purchase` (flash-sale-api), which
reserves units on a Redis counter and sends the order to SQS; tasks of the
order-worker move orders to DynamoDB; a script compares the counter with
DynamoDB after each experiment.

| Component | State | Operations | Talks to |
|---|---|---|---|
| flash-sale-api | nothing between requests but `inventoryMode`; per request: quantity, value read under WATCH, loop counter, request context | `POST /purchase`, `POST /reset`, `GET /inventory`, `GET /health`, seeding at startup | Redis, SQS |
| Redis counter | `inventory:flash-sale-item`, open WATCHes | SETNX, SET, DECRBY, INCRBY, GET, EVAL, WATCH/EXEC | - |
| order-worker | jobs channel, per delivery: attempt, `Inserted`; metrics | poll, runWorker, handleMessage, SaveOrder, retry.Do, shutdown | SQS, DynamoDB |
| waiting-room | none; in Redis: queue (sorted set), admitted counter, sequence, tokens | join, position, reset, admission ticker | Redis |
| consistency check, experiment scripts | baselines of a run | compare counter and confirmed orders | Redis/API, DynamoDB |
| infrastructure (Terraform) | task counts, visibility timeout, `maxReceiveCount` 3, one Redis node | - | - |
| load generators, tests | - | drive the system | HTTP |

### What is hard, and what makes each part correct

**flash-sale-api.** A purchase is up to four round trips, and other requests,
other replicas (even with another strategy) and resets run between them.
`atomic_decr` lowers the counter before it knows whether it may; the optimistic
strategy reads in one round trip and decrements in another; every strategy
needs the handler to put back exactly what it took if SQS rejects the order.
All of this runs on the request's context, which a disconnecting client
cancels; replies may be lost, and the Redis client then sends the command again;
tasks die. Correct means: no unit is sold twice,
no unit is lost unless a failure lost it, the answers agree with the stock,
every purchase is answered.

**order-worker.** SQS delivers at least once, in no order, and again whenever a
visibility timeout ends; a message may wait in the channel meanwhile. An order
is two writes that can fail apart. Correct means: a message disappears only
after both writes; redelivery never duplicates an order; the audit counter
drifts only in ways one can name; no message is held forever.

**waiting-room.** Joins, polls and token creation are several Redis commands
each, and commands of other requests, ticks and resets run between them. One
admission ticker per replica raises one counter. The `timestamp` strategy may
insert a user before others who already hold a rank, by a tie or by a late
arrival; `timestamp_incr` takes a sequence number instead. Errors of some
lookups are taken for "not there". A reset forgets the queue but not the tokens.
Correct means: under `timestamp_incr` a position that was told to a user is
that user's alone until a reset; under both strategies nobody is overtaken once
no lower timestamp can still arrive; no more users are admitted than were
released; all requests of a user are told one token, the stored one; whoever
keeps asking gets in.

**Consistency check.** `remaining + confirmed_orders = INVENTORY_COUNT`,
reported as `OVERSELL` if larger and `DATA LOSS` if smaller. The two numbers
live in Redis and DynamoDB and are moved by steps of different services; correct
means that either verdict names its cause.

PROJECT.json lists every hazard at its line, with the properties that watch it.

## 2. Modules

| Module | Role |
|---|---|
| `Units` | sums of quantities over sets of requests (`UnitSum`) |
| `Stock` | abstract: a stock of units that are granted while they last and become an order or return |
| `FlashSaleApi` | flash-sale-api and the Redis counter; states that it implements `Stock` |
| `OrderWorker` | order-worker, SQS and the two DynamoDB tables as the worker uses them; states that it implements `Fulfilment` |
| `Fulfilment` | abstract: an order is received, recorded, counted and only then done with, or buried |
| `FlashSaleSystem` | `FlashSaleApi` and an instance of `OrderWorker` joined by the queue, and the consistency check |
| `Lobby` | abstract: a line in which settled places are never overtaken, and a counter of admissions |
| `WaitingRoom` | waiting-room and its Redis keys; states that it implements `Lobby` |
| `MCFlashSaleApi`, `MCOrderWorker`, `MCFlashSaleSystem`, `MCWaitingRoom` | fault sets, strategy sets, customers and symmetry for the .cfg files |
| `Units_proofs`, `Stock_proofs`, `FlashSaleApi_proofs`, `FlashSaleApi_answers`, `FlashSaleApi_stock`, `OrderWorker_proofs`, `FlashSaleSystem_proofs`, `WaitingRoom_proofs` | theorems |

Operators whose comment begins with "Mutant" are variants of the definition
below them with a plausible bug. No specification uses them; PROJECT.json says
which property each one breaks.

### FlashSaleApi and the code

One action is one round trip together with the handler code that runs on its
reply. `pc[r]` says which round trip is next:

| `pc` | next round trip | actions |
|---|---|---|
| `idle` | the request has not arrived | `Arrive`, `BadRequest` |
| `gate` | token lookup (purchase.go:43-54) | `CheckAdmission` |
| `reserve` | DECRBY, script, WATCH or none | `ReserveAtomic`, `ReserveLua`, `Watch`, `UnknownStrategy` |
| `read`, `exec` | GET and EXEC of the optimistic strategy | `ReadInventory`, `Exec`, `ExecAborted` |
| `compensate` | INCRBY after a negative DECRBY (client.go:87) | `Compensate`, `CompensateFails` |
| `publish` | SendMessage (publisher.go:50) | `Publish`, `PublishFails`, `PublishUnacked` |
| `rollback` | INCRBY after a failed publish (purchase.go:89) | `Rollback`, `RollbackFails` |
| `done`, `lost` | answered; or its task died | - |

`ReserveFails` and `ReserveUnacked` are a reservation command that failed
without and with an effect. `ReserveResent` and `PutBackResent` are a command
that took effect, whose reply was lost and which go-redis is about to send again
(client.go:19-25 leaves its `MaxRetries` at the default): the handler stays
where it is, and the resent command is its ordinary next step. `Crash` ends a
task in any round trip. What it had sent may still take effect: messages are
stored and units put back in the same step (a DECRBY in flight is a DECRBY
followed by the crash). `Start` is `main`: SETNX, then serve; `SeedThenDie` is a
task that exits in between. A request is its own order identifier (a fresh UUID
in the code).

Two kinds of state have no variable in the code. `watchers` is Redis's own
record of clean WATCHes. The history variables say what the numbers mean:
`taken` are the requests whose decrement the counter still carries, `doubled`
those whose decrement it carries twice, `returned` those that put units back
since the reset, `surplus` those of them that had nothing on the counter to put
back (a straggler of a reset, or an INCRBY that ran twice), `resent` those one
of whose commands ran twice, `stragglers` those that held units when a reset
overwrote the counter, `baseline` the orders that existed at the reset (what
`BASELINE_CONFIRMED` is to the script). No guard of the code's own actions reads
them; `ReserveResent` and `PutBackResent` use `taken` for their bound, that a
resent command repeats one effect.

`Faults` chooses what the environment does: `crash` (a task dies in any round
trip), `cancel` (the client disconnects, commands issued later on its context
fail), `refused` (Redis fails a command without effect), `lost_reply` (with
effect), `publish` (SQS rejects), `lost_ack` (SQS stores and reports an error),
`resent_decr` and `resent_incr` (a command that takes units, or puts them back,
runs and is sent again).
`ResetMode` says when `POST /reset` may come: never, only when no handler runs
(between experiments), or at any moment.

With `lost_ack`, or when a client leaves, the handler puts back the units of an
order that SQS has. `Disowned` are the orders whose units were put back. Their
client was told that the queue failed, or, if the task died while the INCRBY was
under way, nothing. They are what the code cannot promise anything about, so
`PromisesFit` and the rest speak of the other orders and name the units of
`surplus` as the one other excess. `NoOversell`, which counts the disowned
orders too, is what `lost_ack` and `resent_incr` break.

### OrderWorker and the code

A delivery `<<o, n>>` is the n-th receipt of the message of order `o`; its
`stage` is where it is in its task: received but not yet in the channel
(`batch`), in the channel (`jobs`), at PutItem (`put`), at UpdateItem
(`update`), at DeleteMessage (`delete`), `over`, or `failed` (handleMessage
returned an error). `Poll`, `Enqueue`, `TakeJob`
and `Stop` are `poll`, its send on the channel, `runWorker` and the cancelled
context; `Retry` is `retry.Do` for both loops: a failed save starts again at
PutItem, a failed delete is repeated. The channel is a set, since SQS promises
no order anyway, with the capacity of service.go:49 (`Capacity`).

`lastOrder` and `counted` are the inventory item of DynamoDB: the guard and, per
order, how often it was added to `confirmed_orders`. `unacked`, a history
variable, has the orders that an update counted without its answer arriving.
`Body` gives what each message says, as far as the worker tells it apart: each
text is given, blank or empty, the quantity is positive or not, the timestamp is
given, zero or unparsable. `Decodes`, `UserID` and `Validates` are
`UnmarshalJSON` and `Validate` of order.go, `Malformed` the orders that fail
them. Faults: `server_error`, `client_error` (permanent for SaveOrder, retried
for DeleteMessage), `lost_reply`, `expiry` (a visibility timeout ends while a
task still works on the message), `stop` (SIGTERM or death at any point).
`Send` stands for the API: it publishes one or more orders at once, since an
API task that dies may have several requests in SendMessage.

`FulfilmentPromise` maps this to `Fulfilment`: `recorded` is the orders table,
`latest` and `counted` the inventory item, `done` and `buried` the messages
deleted or in the dead-letter queue. The abstract module knows nothing of
deliveries, workers, retries or timeouts.

### FlashSaleSystem and the code

The services share the queue and nothing else. `ApiStep` is a step of
`FlashSaleApi`, and every order it adds to `sent` becomes a visible message in
the same step (`Deliver`). `WorkerStep` is any step of `OrderWorker` but `Send`,
which in that module stands for the API. `Published(r)` is the body that
`PublishOrder` marshals: the API fills in everything, except that it accepts a
`customer_id` of blanks (`Customer`), which `Validate` of the worker trims and
rejects: such an order ends in the dead-letter queue. `ConfirmedOrders` is the
counter of the inventory table in units, `Sum` what consistency_check.py:168
compares with `INVENTORY_COUNT`, and `Drained` the state run_exp2_matrix.sh
waits for before it runs the check. The script goes on after a timeout (lines
165-168), so `VerdictExplained` does not assume it: it asks only that no
purchase runs, and counts the orders still on their way. The composition holds
between resets of the counter (`SystemAssumption`); what a reset does to the
API's own books is in `FlashSaleApi`.

### WaitingRoom and the code

One action is one Redis command, or script, with the handler code that runs on
its reply. A client asks for one user (`Caller`), and two clients of one user
are two of its requests at the same time. `pc[c]`:

| `pc` | next round trip | actions |
|---|---|---|
| `idle`, `waiting`, `absent`, `error` | none; the client has not asked, or asks again | `Arrive`, `AskAgain` |
| `lookup` | ZRANK of `Store.Join` (store.go:58) | `Lookup` |
| `insert` | one of the join scripts (store.go:32-49) | `Insert` |
| `rank` | ZRANK of `GetPosition` (store.go:86) | `QueryRank` |
| `count` | GET of the admitted counter | `QueryAdmitted` |
| `token`, `issue`, `confirm` | GET, SETNX and GET of `admissionToken` (handler.go:26-44) | `GetToken`, `IssueToken`, `ConfirmToken` |
| `admitted` | the answer has the token | - |

A poll starts at `rank`, a join at `lookup`; a join keeps the position that
`Store.Join` returned (`Joined`). `score`, `seq`, `admitted` and `token` are the
Redis keys; `Ahead` is the order of a sorted set, score before member.
`CallFails` and `ReplyLost` are a command that fails without and with an effect;
where the code takes an error for a missing key (store.go:58, handler.go:28 and
:40), the action for the missing key also happens on a refused command. A lost
reply may also be followed by the same command again, since the Redis client
resends. `Tick` is one INCRBY of a replica's ticker; `StopTicker` is the signal
that stops the ticker while the HTTP server goes on (main.go:53).

Time is a clock in milliseconds that only the `timestamp` strategy reads; a
replica may be up to `MaxSkew` ahead. A tick may come at any moment, so the
rate per second is not modelled. `Mishaps` are a refused command, a lost reply,
a stopped ticker, an expired token and a reset; `MaxMishaps` bounds how many
there are. The history variables: `old` are the requests that began before the
last reset (what they were told is of a former line), `issued` the tokens that
were ever stored, `lapsed` the users with a token that reached its TTL.

## 3. Runs

TLC finds no error in the passing runs and the expected counterexample in the
others. Deadlock is not checked: a sale ends when every request was answered
and every message has left the queue.

| Run | Instance | Checks |
|---|---|---|
| `api_faults` | 2 requests of 1-2 units, 2 replicas, every strategy mix (one unknown), 2 units, 2 attempts, gate, all faults but `resent_incr`, resets between sales | `TypeOK`, `AnswersMatchStock`, `StockAccounted`, `ImplementsStock` |
| `api_compare_first` | 3 requests, 2 replicas, 3 units, optimistic and Lua only, 1 attempt, crashes, SQS rejections and lost answers, commands sent twice, no reset | `CounterNeverNegative`, `PromisesFit`, `StockAccounted`, `ContentionHasWinner`, `ExecIsFresh` |
| `api_settles` | 3 requests, every strategy, 2 units, publish failures, resets any time, fair | `StockInv`, `NoOversell`, `NoStockLost`, `NegativeIsBrief`, `UnitsSettle`, `EveryPurchaseAnswered` |
| `worker_faults` | 2 orders, 1 task of 2 workers, 2 attempts, 2 receipts, all faults | `TypeOK`, `DeletedIsRecorded`, `OvercountExplained`, `ConfirmedOnce`, `WorkerInv`, `ImplementsFulfilment` |
| `worker_settles` | 2 orders, one malformed, 1 worker, failing calls and early timeouts, fair | `EveryMessageSettles`, `EveryOrderCounted` |
| `system_books` | 2 purchases of 1-2 units, 2 units, `atomic_decr`, crashes of the API, SQS rejections and lost answers, a DECRBY sent twice, failing worker calls, 2 receipts, fair | `StoredWithinInventory`, `VerdictExplained`, `StoredIsAccepted`, `AcceptedIsKept`, `AcceptedPurchaseSettles` |
| `room_line` | 2 users, one with a client that joins and one that only polls, both strategies, 1 ticker, 2 admissions, one mishap of any kind at any moment, fair | `TypeOK`, `PlacesAreFixed`, `AdmittedWithinCounter`, `TokenAgreement`, `ImplementsLobby`, `ClientsGetIn`, `RoomInv` |

**Bounds.** Two requests and two units let every pair of round trips interleave,
with a request that fits, one that does not and one that takes the last units;
the third request of `api_compare_first` and `api_settles` is what overlapping
doomed decrements, an aborted winner and a quantity-2 request hiding units from
a quantity-1 one need. `RetryLimit` 2 lets an aborted transaction succeed on its
second try; 1 makes losing easy. Replicas of `api_settles` differ in nothing but
their strategy, so one of them with each strategy in turn stands for all; mixes
are in `api_faults`. Resets in the middle of a sale are in `api_settles` only:
they break what `ImplementsStock` and `ContentionHasWinner` say. `api_faults`
leaves out `resent_incr` because it breaks `ImplementsStock`; it is in
`api_compare_first`, together with crashes and lost answers. The theorems do not
depend on any of this.

For the worker, two orders are what it takes to displace `last_order_id`, two
attempts what it takes to retry, two receipts what it takes to redeliver and
then to dead-letter. With one worker and batches of one, three deliveries fill
worker, channel and poller, so that a hanging worker would be seen
(`worker_settles`). Two workers of one task meet in DynamoDB exactly as two
tasks do; only their shutdown is common.
The bounds are the constants themselves; no counter is cut off by a guard
(`MaxReceives` and `RetryAttempts` are limits of the system).
Symmetry is used only in runs without liveness.

In `system_books`, two purchases of up to two units are what it takes for a
refused purchase, one that SQS rejects or stores without saying so, and an
accepted one that is redelivered to meet; the second receipt lets the guard of
the audit counter be displaced. Crashes and lost answers of SQS are on together,
so that a task may die while it puts back the units of an order that SQS has.
One strategy is enough here: what the strategies do to each other is in the
API's own runs, and `atomic_decr` is the one whose counter the check may see
below zero. Malformed messages, which end in the dead-letter queue, are in
`worker_settles`, and in the composition for every `Customer` in the theorems.

In `room_line`, two users are what a tie, a late arrival and an overtaking need,
the second client of one user what the SETNX race needs, and two admissions let
both users in. One mishap of any kind may strike at any round trip of any
request; two would multiply the states beyond what can be explored. For the
safety properties and the refinement, more users, clients, replicas and mishaps,
and skewed clocks, are covered by the theorems of `WaitingRoom_proofs`, which
bound none of them; `ClientsGetIn` is checked for one mishap only.
`MaxAdmitted` and `MaxClock` end counters that the code does not bound.

**Fairness.** `FlashSaleApi`: weak fairness of each handler's next step. A
handler is a goroutine that the runtime schedules, and its round trips end
because every client has a timeout. Nothing is assumed of clients, resets,
crashes or new replicas. `OrderWorker`: weak fairness of each poller, of each
delivery's next step, of the end of visibility timeouts, of SQS's redrive and
of the replacement of a stopped task. No failed call is assumed ever to
succeed: `EveryMessageSettles` holds because attempts and receipts are limited.
The run excludes `stop`, since a task stopped before every receive makes no
progress. `FlashSaleSystem` assumes both. `WaitingRoom`: weak fairness of each
handler's next step and of each ticker (a timer), of the replacement of a task
whose ticker stopped, and of a client's next request until it is admitted, which
is what the clients of tests/exp3-admission/main.go do. Nobody has to join, and
`ClientsGetIn` allows for a reset that takes the user out of the line.

### Disagreements with the documentation

Each is one violation run whose property states what the documentation says.

* `api_cancel_rollback`: "The handler always rolls inventory back if SQS
  publish fails" (flash-sale-api/README.md:100). The rollback at purchase.go:89
  uses the request's context. A client that disconnects cancels it, which also
  makes SendMessage fail: the INCRBY is never sent and the units stay off the
  counter. The correction of a negative DECRBY (client.go:88) fails in the same
  way and leaves the counter negative.
* `api_lost_ack`: "roll back reservation so inventory stays consistent"
  (purchase.go:87). A
  SendMessage that stored the message may report an error (timeout, lost
  answer); the rollback then frees units that an order has. The passing
  runs bound the damage: `PromisesFit` says that the other orders always fit,
  and `VerdictExplained` that an `OVERSELL` verdict never exceeds such orders
  and what was counted or put back twice.
* `api_spurious`: "Returns remaining inventory on success or ErrSoldOut when
  insufficient" (client.go:79). A DECRBY of two units on a counter of one hides
  that unit until it is undone; a request for one unit is refused meanwhile.
* `worker_recount`: "will correctly update the counter without
  double-counting" (dynamodb.go:58). The guard remembers one order. If an
  update's answer is lost and another order is counted before the retry, the
  first order is counted again.

* `system_audit`: "DynamoDB order records should match confirmed_orders counter"
  (consistency_check.py:196). The counter grows by the quantity of an order
  (dynamodb.go:106), the records by one; they agree only if every purchase is of
  one unit, as in the experiments.

What was noticed on the way and has no run of its own:

* "Idempotent: if userID is already present, returns their existing position
  unchanged" (store.go:52; tests/waiting-room/smoke_test.go:127). Under
  `timestamp` a later join of another user may be put in front, so the position
  of a repeated join can be larger. `PlacesAreFixed` therefore speaks of
  `timestamp_incr`, and `ImplementsLobby` says what `timestamp` does keep. Two
  users can be told one position in the same way, and both are then admitted
  for it.
* "Any deviation means a timestamp collision" (join.go:50). A repeated join, or
  another join between ZCARD and the script, is counted as well.
* "Either way, the stored value is a valid token" (handler.go:39). If the last
  GET fails, the handler answers the token it made itself, stored or not.
  `TokenAgreement` excuses exactly this: it speaks of tokens that were stored.
* "start from a clean slate" (store.go:129). Tokens outlive the reset, so a user
  of the former line may still buy.
* Every replica runs a ticker on the one counter (ticker.go:26), so the rate of
  admission is the configured one times the number of replicas.
* A reply that is lost makes go-redis send the command again (client.go:19). An
  INCRBY of a rollback that runs twice puts units up for sale that are sold: the
  exception `resent_incr` of `StockSafe` and `StockImplemented`. A DECRBY that
  runs twice loses its units, even if the answer is `SOLD_OUT`.
* publisher.go:42 labels every order with `atomic_decr`, whatever the strategy.

The repository's own measurements (docs/report/experiments_report.md:131-140)
report both verdicts under overload: 5200 of 5000 and 4823 of 5000. The runs
show ways to get there; they do not show that these were the ways.

## 4. Proofs

Every theorem is for arbitrary sets of requests, replicas, orders and tasks and
arbitrary limits, under the assumptions `ApiAssumption`, `WorkerAssumption`,
`RoomAssumption` and `SystemAssumption` (natural limits, finitely many requests
and users, an empty identifier is no order; the composition between resets).
Every invariant and action property of the passing runs has a theorem.

**`FlashSaleApi_proofs`**

* `TypeCorrect`: `TypeOK`.
* `BooksBalance`: the inductive invariant `StockInv`, under every fault and
  resets at any moment; from it `PromisesKept` (`PromisesFit`), under the same,
  and `StockSafe` (`NoOversell`), for every fault but `lost_ack` (with it,
  `api_lost_ack` violates it) and `resent_incr`.
* `CompareFirstSafe`: without `atomic_decr` the counter is never negative,
  under every fault.
* `ExecFresh`: an EXEC that goes through decrements the value that was read.

`PromisesFit` and `NoOversell` bound what is displayed plus what was ordered,
but say nothing of the requests in between, so they are not inductive.
`StockInv` adds: `Ledger`, the counter is the inventory minus `taken` and
`doubled` plus `surplus`; `Custody`, a request takes once and settles once
unless a command of it was resent, whoever is about to publish or to put back
holds units or has put them back by such a command, and an order without units
is a disowned one; `GrantsFit`, the requests that were granted units, leaving
out the doomed decrements, fit the inventory; `WatchSound`, a clean WATCH means
that the value read is still the counter (this is where optimistic EXEC gets its
right to decrement); `SeededFirst`, no handler runs before the counter exists.
`GrantsFit` is kept by a grant because `Ledger` turns the comparison the
strategy made into room for one more request: for `atomic_decr` this needs that
pending doomed decrements only lower the counter. `Units_proofs` has the facts
on sums that the argument uses.

**`FlashSaleApi_answers`**

* `AnswersTrue`: `AnswersMatchStock`, under every fault; a refused request may
  hold a unit only if its DECRBY was resent. Adds to `StockInv` that a request
  is answered exactly when it is done, and that an order is that of an accepted,
  cancelled or dead request, or of one that SQS failed without an answer.
* `EveryUnitAccounted`: `StockAccounted`, under every fault and reset. When no
  handler runs, `AnswersMatchStock` says who can hold units without an order (a
  500, a dead task, a resent DECRBY), `Custody` which orders can be without
  units, and `Ledger` turns both into the two bounds.
* `StockKept`: `NoStockLost`, with SQS rejections as the only fault (each of the
  others can lose units). Adds that whoever carries a decrement is running or
  has an order.
* `ContentionWon`: `ContentionHasWinner`, without `atomic_decr` and resets. Adds
  that a transaction whose WATCH was broken has a winner: whoever wrote.

**`FlashSaleApi_stock`**

* `StockImplemented`: `ImplementsStock`, for any mix of strategies, every fault
  but `resent_incr`, and resets between sales. Initial states map to initial
  states, and each handler step to a step of `Stock` or a stutter
  (`StockHandler`): a decrement that leaves the counter at zero or above is a
  `Grant`; one that does not is none, because the doomed request adds to
  `Unsold` what it took from the counter; what ends a grant, a publish, a
  rollback, a failure or a crash with its handlers, is a `Settle` that turns
  some grants into orders and puts others back. The orders of the stock are
  those whose units stayed off the counter. That the value EXEC decrements
  suffices is `WatchSound`, that only a granted request settles is `Custody`.
* `StockAlwaysFits`, for the same faults: what can be sold, what requests hold
  and what was ordered fit the inventory together. This is `StockConserves` of
  `Stock_proofs`, an invariant of the abstract stock alone, carried over by the
  refinement.

**`OrderWorker_proofs`**

* `WorkerTypeCorrect`: `TypeOK`.
* `WorkerSafe`: `WorkerInv`, and from it `DeletedRecorded`
  (`DeletedIsRecorded`) and `Confirmed` (`ConfirmedOnce`), under every fault.
* `Overcounts`: `OvercountExplained`, under every fault. An attempt is one
  UpdateItem that reaches DynamoDB; see section 5 for the SDK's resends.

`DeletedIsRecorded` needs `WritesInOrder`: a delivery at `update` has a stored
order, one at `delete` a recorded one, and the order that the guard names is
recorded (otherwise an update that finds the guard set would go on to delete an
uncounted message). `ConfirmedOnce` needs `ClaimedOnce`: of all deliveries of an
order, at most one has inserted it and may yet confirm it, or has confirmed it,
and the order is in the table.
`OvercountExplained` needs an account: `PaidFor` says that the count of an
order, plus the receipts that may yet count it (`Owed`), fits the receipts SQS
made, unless an update went unanswered; and that the count plus the attempts
those receipts have left (`Chances`) fits the receipts times the attempts. A
receipt enters both accounts when it is polled and pays when it is counted.

* `FulfilmentImplemented`: `ImplementsFulfilment`, under every fault.
  `FulfilmentStep` maps each step: the first PutItem of an order is a `Record`,
  an update that passes its guard a `Count`, a delete a `Close`, the redrive a
  `Bury`; everything else, with all redeliveries and retries, stutters. What an
  action checks locally must give the abstract guards: that only received and
  valid orders are recorded is `WorkIsReceived`, that only recorded ones are
  counted and only counted ones closed is `WritesInOrder`.

**`FlashSaleSystem_proofs`**

* `SystemHasWorker`: every behaviour of the composition is one of the worker,
  whose `Send` is the API's publishing. It needs `SystemInv`: what the API sends
  is a set of orders that were not sent before, several if a task dies. (That it
  is one of the API, the lemma `SystemHasApi`, holds by the shape of the
  composition.) The theorems of both parts then hold in the composition:
  `SystemImplementsStock` (`ImplementsStock`, but for `resent_incr`) and
  `WorkerPromises`, which takes `DeletedIsRecorded`, `ConfirmedOnce` and
  `OvercountExplained` from an instance of `OrderWorker_proofs`.
* `AcceptedKept` (`AcceptedIsKept`): an accepted purchase is in the queue, in
  the dead-letter queue, or stored and counted. It joins `AnswersMatchStock` on
  one side (accepted means sent), `Supplied` in the middle (sent means that
  there is a message) and `DeletedIsRecorded` on the other, under every fault.
* `TableWithinInventory` (`StoredWithinInventory`), `StoredAccepted`
  (`StoredIsAccepted`) and `VerdictsMean` (`VerdictExplained`), under every
  fault of API and worker.

`SystemInv` joins the API's invariants with `Supplied`: messages, deliveries,
stored and counted orders are all of requests in `sent`. The sums of
`VerdictExplained` follow from the ledger: `confirmed_orders` is at most the
units of `sent` plus what was counted again (`UnitSumSplit` of `Units_proofs`),
and at least the units of `sent` that are counted; `OrdersFit` bounds the units
of `sent` from above and `UnitsAccounted`, the lemma behind
`EveryUnitAccounted`, bounds them from below.

**`WaitingRoom_proofs`**

* `RoomSafe`: the inductive invariant `RoomInv`; from it `RoomTypeCorrect`
  (`TypeOK`), `TokensAgree` (`TokenAgreement`), `PlacesFixed` (`PlacesAreFixed`)
  and `AdmissionSafe` (`AdmittedWithinCounter`), under every mishap.
* `LobbyImplemented`: `ImplementsLobby`, under both strategies.

`PlacesAreFixed` compares what two requests were told at different moments; it
is inductive only with `LineInOrder`: scores are at most `seq` and distinct, so
a newcomer goes to the end and a position that was told stays the user's rank.
`AdmittedWithinCounter` needs `PassedCounter` as well, that a request past the
comparison has a position within the counter, and then counts: welcomed users
have distinct positions in `1..admitted`. `TokenAgreement` needs `TokensMade`
and `OneOwner` (a token is of one user, wherever it is, before and after SETNX).
For `Lobby`, the lemma `NewcomerShifts` says how one insertion moves every rank,
and a settled place stays settled because clocks and timestamps under way only
come after its score.

**Only model-checked:** liveness (`NegativeIsBrief`, `UnitsSettle`,
`EveryPurchaseAnswered`, `EveryMessageSettles`, `EveryOrderCounted`,
`AcceptedPurchaseSettles`, `ClientsGetIn`), which is out of the prover's reach.
No module has a recursive operator; sums are cardinalities (`Units`), because
induction over data could not be proved.

## 5. What is not modelled

* More than one doubled effect of a command that go-redis resends. Its default
  is three retries; in the models a reservation takes effect at most twice and a
  put-back once more than the request had taken. A resent SETNX or SET repeats a
  value. EXEC is bound to its connection and is not resent.
* What the AWS SDK resends inside one call: a SendMessage that stores two
  messages of one order, or an UpdateItem that counts an order twice in one
  attempt because another order was counted in between. The first is a
  redelivery to the worker; the second weakens the last line of
  `OvercountExplained`, where an attempt means one UpdateItem that reaches
  DynamoDB.
* Quantities near 2^63, or beyond 2^53 in the script.
* Loss of the Redis node or of a key. There is one node and no persistence
  that the services rely on.
* SQS delivering a message again after its deletion was acknowledged, which AWS
  documents as rare; redelivery before that is modelled.
* Metrics of the three services, ZCARD in Join (which feeds one), and the
  strategy label of an order: nothing reads them. A confirmation that the
  worker's metric misses after a lost answer of PutItem is of this kind;
  `ConfirmedOnce` says that it counts none twice.
* Time: delays, backoff, timeouts, ticker intervals and token TTLs may end at
  any moment; rates are not modelled.
* More than one item. The services are configured with one.
* The admission gate is modelled from the API's side (a token is valid or not)
  and token creation from the waiting room's; that the token a purchase
  presents is the one the waiting room stored is equality of one Redis key and
  not composed.
* Terraform, Docker, load generators, tests and plotting scripts: configuration
  and drivers, read for what they promise.

## 6. Plan

Done: all services that keep state, their composition on the path of a
purchase, theorems for every invariant and every refinement, and the transfer of
the parts' theorems to the composition.

1. The waiting room composed with the gate of the API, over a token's TTL and a
   reset between admission and purchase.
2. `Lobby` for the clients: that positions told by polls never grow under
   `timestamp_incr` between resets, as an action property.
