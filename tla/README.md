# Verification of the cashback ledger

TLA+ models of the ShopBack-style cashback ledger in this repository (a NestJS
API, a worker, PostgreSQL, Kafka and Redis), checked with TLC and, where a
property matters for every size of the system, proved with TLAPS.

What the program promises is short: an order is confirmed once, its cashback is
credited once, nothing that was committed is lost. What makes it hard is that
four loops in every worker process, any number of API pods and an operator's
command line work on the same three tables without locks, and that every call
to the database, the broker or the cache can fail between any two of them.

## The system

```
 client --> API pods --tx--> Order, OutboxEvent          (OrderApi)
                 \----------> IdempotencyKey
 OutboxEvent --> publishOnce --> topic order.events       (OutboxPublisher)
 order.events --> eachMessage --> InboxEvent              (InboxProcessor)
 InboxEvent --> retryInboxLoop --> order.events.dlq
 eachMessage, retryInboxLoop --> processOrderConfirmed --> LedgerEntry
 replay.ts --> OutboxEvent, InboxEvent
 processOrderConfirmed --> Redis --> CashbackRule <-- POST /merchants/:id/cashback-rule
LedgerEntry --> GET /users/:id/cashback-balance          (UserBalance)
every request: router, guard, interceptors, filter       (RequestMetrics)
```

`CashbackPipeline` joins the first five lines into one system.

| Part | Source | State | Operations | Hard because | Correct when |
|---|---|---|---|---|---|
| Order API | `apps/api/src/orders/orders.controller.ts`, `common/idempotency` | Order, OutboxEvent, IdempotencyKey | create, confirm | lookup, work and save are separate transactions; concurrent requests share keys and orders; any call may fail | CONFIRMED and the event appear together; what was answered is never done again; what is answered is true |
| Outbox publisher | `apps/worker/src/index.ts` | OutboxEvent, the topic | publishOnce | several workers poll one table; the send and the SENT mark cannot be atomic | SENT means published, duplicates are bounded, every row settles |
| Consumer | `apps/worker/src/consumer.ts` | InboxEvent, offset | eachMessage | redelivery, rebalance, swallowed exceptions | no committed message without a row |
| Retry loop | `apps/worker/src/inbox-retry.ts` | InboxEvent, DLQ | poll, attempt, give up, back off | stale batches, crash between updates | every row settles; FAILED means exhausted; FAILED reaches the DLQ |
| Handler | `apps/worker/src/handlers/process-order-confirmed.ts` (and its copy in `packages/domain`) | LedgerEntry | processOrderConfirmed | duplicates collide in a transaction | one credit per confirmed order |
| Replay CLI | `apps/worker/src/replay.ts` | both event tables | inbox, outbox | writes a snapshot back while the workers run | no effect on the ledger's promise |
| Rule cache | `apps/worker/src/cache`, `apps/api/src/merchants` | Redis, CashbackRule | fill, invalidate, upsert | fill races invalidation; the lock expires | a stale entry has a reason and does not last; the lock admits one call |
| Confirmation to credit | all of the above | all of the above | | a process runs four loops and dies as a whole; each half assumes what the other does | no confirmation is lost between the API and the ledger; each is credited |
| Amount | the handler, `merchants/dto`, `orders/dto` | none | rate, cap, rounding, rounding of the columns | boundaries | the nearest cent, never above the cap nor the order |
| Balance | `apps/api/src/users` | none | sum per currency | order of a groupBy; rules change while orders wait | the balances add up to the credits; none shrinks |
| Request pipeline | `apps/api/src/metrics`, `common/throttle`, `common/filters`, `common/middleware` | counters, the throttler's storage | guard, interceptor, filter | who sees the status when | every request counted once, throttled on its own account, and answered |
| Worker metrics, migrations, config, health, infra, scripts | `apps/worker/src/metrics*.ts`, `db/run-migrations.ts`, `config`, `infra` | none that behaviour reads | | | |

## The modules

| Module | Models |
|---|---|
| `EventTable` | rows of OutboxEvent and InboxEvent and the polling query both loops share |
| `CashbackLedger` | the abstract specification: confirm once, credit once, never before the confirmation |
| `InboxProcessor` | consumer, retry loop, handler, ledger, dead letter topic, replay of the inbox, consumer group |
| `OutboxPublisher` | publishOnce for several workers, replay of the outbox |
| `OrderApi` | create and confirm with idempotency keys |
| `OrderService` | the abstract specification of it: what clients are promised |
| `CashbackPipeline` | the API's confirmation, `OutboxPublisher`, the topic and `InboxProcessor` as one system |
| `CashbackRuleCache` | the read-through cache of a merchant's rule: fill, lock, expiry, upsert and invalidation |
| `CashbackAmount` | rate, cap and rounding as operators on integers, and what the decimal columns keep |
| `UserBalance` | orders, changing rules, the credit of each order, the balance that is answered |
| `RequestMetrics` | a request through router, throttler guard, metrics interceptor and exception filter |
| `MCInboxProcessor`, `MCOrderApi`, `MCCashbackPipeline`, `MCRequestMetrics` | the functions and symmetries of the instances TLC checks (`OutboxPublisher`, `CashbackRuleCache` and `UserBalance` need none and are checked as they stand) |
| `InboxProcessorProofs`, `OutboxPublisherProofs`, `CashbackPipelineProofs`, `OrderApiProofs`, `CashbackRuleCacheProofs`, `UserBalanceProofs`, `RequestMetricsProofs` | theorems for every value of the constants |
| `SumTheorems` | what the sums of the community modules compute, for the theorems about counters and balances |

`CashbackPipeline` does not model either half again: it instantiates
`OutboxPublisherProofs` and `InboxProcessorProofs`, so that it has their actions
and their theorems.

Conventions. Every awaited call is one action, so what JavaScript runs between
two awaits is atomic and nothing else is. A thread of control is a record
`[pc, ev]`; `pc` is the call it will make next. `availableAt <= now` is the
Boolean `due` of a row, set again by the action `Elapse`; `createdAt` is the
number `seq`. A fault (a call that throws, a killed process, a rebalance) may
happen wherever its budget `MaxFaults` allows and is never forced. Definitions
marked in a comment as a loop that forgets, a comparison off by one and so on
are deliberately wrong variants: each is put in the place of the definition
that follows it, to see that a property notices.

### InboxProcessor

`at[<<"consumer", w>>]` walks `idle -> upsert -> read -> credit -> mark`, the
calls of `eachMessage`; `at[<<"retry", w>>]` walks `idle -> read -> credit ->
mark`, or through `failed` to `giveup`, `dlq` or to `backoff`, the catch block
of the loop. `HandlerRead` and `HandlerCredit` are the transaction of
`processOrderConfirmed`: PostgreSQL runs it at READ COMMITTED, the read is
visible on its own, and the insert takes effect with the commit (a concurrent
insert of the same key waits for it, then fails), so insert and commit are one
action. After a unique violation PostgreSQL refuses every further statement of
the transaction (25P02); the code's `catch` queries the ledger through that
transaction. `TxSurvivesConflict = FALSE` is this database, `TRUE` what the
catch block and its unit test assume. `inbox_replay` runs on the latter, every other
run on PostgreSQL, and the theorems hold for both.

`Raise` is what an exception does: the consumer swallows it and the offset is
resolved, the retry loop counts it. A throw inside the retry loop's catch block
leaves the loop, `main` exits the process, and Kubernetes restarts it: that is
`Crash`. A call may throw without effect (`CallThrows`) or although it was
committed (`AnswerLost`: the connection is gone before the reply); the code cannot
tell which. `abandoned` is history: the rows whose worker died between the FAILED
update and the send to the dead letter topic. `Assign`, `Revoke` and `CommitOffset` are kafkajs: one partition, an
owner at a time, offsets committed at any time up to what the owner resolved,
a revoked owner whose handler is still running. The topic is appended to freely
(`Produce`): duplicates, events of unconfirmed orders, events without an order
and messages of other types are all delivered.

### OutboxPublisher

`at[w]` walks `idle -> send -> sent -> idle`, or over `error` to `fail` or
`retry`. `Claim` is the conditional `updateMany`; it counts the attempt and
leaves the row PENDING. `SendThrows` may or may not have stored the message, and
`MarkThrows` may or may not have committed SENT, which the catch block then
overwrites.
A throw in the catch block abandons the batch exactly as a crash does, so
`Crash` stands for both.

### OrderApi

A request walks `lookup -> insert -> save` or `lookup -> read -> confirm ->
save`, without the first and the last step if it has no key. Orders are named
by the request that created them, events by the request that wrote them.
`prior[r]` remembers who had been answered when `r` arrived; it is history, no
action reads it. `Lookup` ignores `expiresAt`, as the code does. Nothing in the
code writes CANCELLED, so only seeded orders have it. `CallFails` is a 500, a
dead pod or a client that gave up; what was committed before stays. A write may
also commit and fail to the client all the same: `Insert`, `Confirm` and `Save` go
on or throw after their effect (`Committed`).

`OrderService` says what this is to a client, without the cache and without the
calls: a request takes effect in one step between its arrival and its answer, or
not at all (`Serve`); one that repeats what was answered 2xx before it arrived
takes none (`Repeated`); an event is recorded together with the confirmation, a
second one only next to a confirmation still in flight (`Confirm`); and an answer
is true when it is given (`Truthful`): a created order exists and has the body
that was sent, a confirmed order is CONFIRMED and the event named is its own,
and a 409 has its reason in another body sent under the key or in the status of
the order. A 500 promises nothing. `OrderApi` implements it (`ServiceSpec`) with
`asked` and `answer` read off the records of the requests. Answers carry the ids
they name; the `status: CREATED` that a saved response of a create repeats is a
copy made at the time, and no promise is stated of it.

### CashbackRuleCache

A call of `getCashbackRule` walks `get -> lock -> query -> set -> release`, or
without the lock `get -> lock -> reget -> query -> set`; merchants do not
interfere, so one is enough. Rules are versions: what matters of a cached rule
is whether it is the current one. Redis stores `'1'` in the lock; the model
stores who set it, to be able to say that `Release` deletes it whoever that was.
TTLs have no clock: `Expire` and `LockExpires` may happen at any time, the latter
also under an owner at work (a query may well take longer than 300 ms), and
`overruns` counts those. `overtaken` is history: the versions a reader had in its
hands when they were replaced. A Redis call that fails may have taken effect,
and the code treats a failed read as a miss and a failed lock as one not got.

### CashbackPipeline

`Confirm` is the transaction of `confirmAndOutbox` as both halves see it: the
order is CONFIRMED and the event has its outbox row. `Publish` lets the
publishing half take a step and appends to the topic what that step sends;
`published` is not a variable here but the number of copies in the topic.
`Consume` is a step of the consuming half. `Crash` takes both halves of one
worker, since `main` runs all loops in one process and exits when one throws. An
order may have several events, because confirmations may overlap (see below).

### CashbackAmount and UserBalance

The code computes with `Decimal`, the columns are `DECIMAL(18,2)` and
`DECIMAL(6,4)`: amounts are integers of cents, rates of ten-thousandths, and
products integers of ten-thousandths of a cent. `Capped` and `ToCents` are
`process-order-confirmed.ts:29-31`; a cap of 0 is an object there and therefore
a cap. `ToColumn` is what PostgreSQL does to a number from a DTO with more places
than its column (the DTOs do not restrict places). `offered[m]` is the set of all
rules of a merchant so far: the handler may be given an older one, by the cache
or because the rule changed after its read, and `Credit` takes any of them.
`Balances(u)` is the set of rows the unordered `groupBy` may return first, and
`told` keeps the last balance each user was told in each currency. The answer is
`Number` of a decimal (`ToNumber`). A double separates all cents below 2^46 dollars,
which is `ExactCents`; of what happens above it the model keeps that cents may be
lost and that a larger sum never becomes a smaller number.

### RequestMetrics

The order is that of NestJS: the router (an unknown path is a 404 that neither
guard nor interceptor sees), `UserThrottlerGuard`, the interceptors, the handler,
`finalize` of `MetricsInterceptor`, and last the exception filter. The framework
presets 201 for POST and 200 for the others before the interceptors run, and the
filter sets the status of an error after `finalize` has counted. The storage of
the throttler is the framework's and marked external: hits of a key in a moving
window, a key that exceeds the limit is blocked. `WindowMoves` is time. The guard
returns the header `X-User-Id` or else the address as the key, without a prefix,
and nothing keeps a user from being named like an address; the constants do not
either. `UnderNameOf(r)` are the requests that the guard charges to the user of `r`:
his own, and those without a header from an address that reads like his name.

## Runs

| Run | Instance | Shows |
|---|---|---|
| `inbox_workers` | 2 workers, 2 events of 1 order, 2 messages, 1 fault, batches of 1 | types; one credit per order; PROCESSED implies credited; no committed message without a row; attempts stay within `MaxAttempts + workers - 1 + faults`; FAILED only when exhausted |
| `inbox_replay` | 1 worker, 2 events, 1 replay, 1 fault at any call, the upsert too, transactions survive a conflict | the abstract ledger is implemented |
| `inbox_liveness` | 2 workers, 1 event, 1 message, 2 faults, 2 attempts | events settle, orders are credited, FAILED reaches the DLQ unless its worker died just before the send |
| `outbox_workers` | 2 workers, 2 events, 1 fault, 1 replay, 2 attempts | types; SENT implies published; duplicates are accounted for; FAILED only when exhausted; every event is published and every row settles |
| `pipeline` | 1 worker, 1 event, 1 fault of each half, 1 replay of either, a topic of 3 messages, PostgreSQL | nothing is in the topic before its order is CONFIRMED; nothing confirmed is lost; a claim that goes well costs nothing; the abstract ledger is implemented; every confirmed order is credited |
| `api_requests` | 3 requests, 1 key or none, 2 bodies, 1 seeded order, 1 failure before or after a commit | CONFIRMED iff event; an answered request is never repeated; double confirmations overlapped; answers match bodies; the abstract service is implemented |
| `rule_cache` | 3 readers, 2 writers, 2 upserts, 1 fault, 1 lock that expires under its owner | a stale entry was written across the upsert or is about to be deleted; one call under the lock and one more per overrun; the cache ends up fresh for ever |
| `balance` | 2 orders, 2 users, 1 merchant, 2 currencies, 2 upserts; amounts, rates and caps at the edges of rounding | every credit is the nearest cent of a rule the merchant offered, within cap and order; balances add up; none is told to have shrunk in a currency, whatever was told in between |
| `request_metrics` | 5 requests to 2 handlers and a path nobody serves, two users and an anonymous client behind one address, one user named like the address, a limit of 1 | each request is counted once, throttled ones too; a user is throttled for requests under his name only; every request is answered |

Three runs show that the program does not do what a document or a comment of the
repository says (see `findings` in `PROJECT.json` for the quotations):

| Run | What happens |
|---|---|
| `inbox_duplicate` | a second event of a credited order fails until it is FAILED and dead-lettered |
| `inbox_lost` | one failure of the inbox upsert loses the event for good |
| `request_errors` | a request answered with 500 is counted as 200 or 201, so the 5xx alert cannot fire |

Three more behaviours surprise, and are within what the passing properties
allow, each of which says exactly how far it goes:

* two workers publish one row without any fault, because the claim leaves it
  PENDING (`index.ts:55`, under a comment that means to prevent just this):
  `DuplicatesAreExplained` allows one copy per worker,
  and one more for each fault and replay, and no more;
* two concurrent confirms write two events for one order, since both read
  CREATED (`orders.controller.ts:122`): `DoubleConfirmOverlaps` says that it takes
  an overlap. With `inbox_duplicate` this means that a double click on confirm
  yields one credit and one dead letter;
* two concurrent creates with one key and body create two orders, although
  `docs/system-design-and-operations-story.md:68` says "No duplicate create for same
  idempotency key + same body": `AnsweredIsNotRepeated` covers every request that arrives after an answer.

**Bounds.** Two workers are what a rolling update of the one-replica deployment
runs; two is also what a race needs. Two events of one order make every
collision in the ledger. `MaxAttempts = 2` has a retry and a give-up. Batches hold both rows, but for
`inbox_workers`, where more rows are due than a batch takes; a row that was read and
not yet taken is as stale in a batch of one. The
liveness runs allow as many faults as the code survives: `MaxAttempts` in the
inbox, where the consumer's own attempt comes on top, one less in the outbox,
and these are the bounds of the pipeline too. An upsert that throws loses its event,
which `inbox_lost` shows; the other runs but `inbox_replay` leave that fault out
(`ThrowAt`), because what they check is what holds otherwise. The pipeline has one worker and
one event because its question is what happens between the halves; races within
a half are the matter of the runs above, and its theorems carry them over. Its
topic has room for three messages: the event, its copy after a fault, and its
copy after a replay.
`MaxTopic`, `MaxFaults`, `MaxReplays`, `MaxFailures` and `MaxUpserts` bound the
exploration and guard only the environment's actions; no proof depends on them.
Three requests are the least in which a third can repeat the first while a second
is in flight; three readers are the least in which a late release lets a third
call in. The amounts of `balance`, which like rates and caps have one more place
than the columns, are one cent, ten cents, and one that is rounded up to an odd
number of cents, of which a rate of 0.5 (itself rounded up) takes exactly half a
cent; caps are none, zero and one that is rounded and cuts off a cashback.
`ExactCents` is 500 there, so that one credit is exact and two may not be. Five requests
with a limit of 1: a user named like his address and a client without a header
share a key and exceed its limit, next to another user behind the address whose
limit they must not touch, on two paths of one template. Workers and requests are symmetric where
no liveness is checked.

**Fairness.** `FairSpec` lets every worker's loops take their next step
eventually (they are endless loops of awaited calls with timeouts), lets the
group give the partition to somebody when nobody owns it, and lets time pass. It
does not oblige offset commits, producers, clients or the operator, and faults
are bounded, never fair. The pipeline assumes what its halves assume, and never
that an order is confirmed. In `RequestMetrics` the event loop goes on with a
request it has received; that one is sent is not promised. In `OrderApi` clients
may stop, so it has no liveness and its run does not check for deadlock, nor do
those of `RequestMetrics`, which end when all requests are answered. In
`CashbackRuleCache` calls in progress go on and entries expire; upserts and new
calls are not promised.

## Proofs

All theorems are over `Spec`, for any finite sets of events, workers and requests,
any set of orders, and any value of the bounds; where something is summed over
them, orders and handlers are finite too. They assume only the named
`ASSUME` of each module: the tables are finite, null values are no members,
parameters are positive.

`InboxProcessorProofs`:

* `TypeCorrect`. `TypeOK` is split into `ControlOK`, `TableOK` and `RestOK`;
  lemmas say what a move of a thread and an update of a row preserve, and
  `TypeStep` has one step per action.
* `CreditedOnce`, `ProcessedMeansCredited`. Neither is inductive. `CreditInv`
  adds what a thread knows between its awaits: at `credit` its order is
  CONFIRMED, at `mark` its order is credited. Both facts are stable, because
  nothing unconfirms an order or deletes a credit, so they survive any
  interleaving. `QuietStep` covers the many actions that earn nothing.
* `ImplementsLedger`: `Spec => CashbackLedger!Spec` under `credits <- ledger`.
  `HandlerCredit` is the abstract `Credit`, `ConfirmOrder` is `Confirm`, the rest
  stutters. `TxSurvivesConflict` is irrelevant to it: the unique index alone
  protects the ledger, and the conflict only decides what happens to the row.
* `ConsumedIsDurable`: if the upsert never throws, `ConsumedHasRow`. `OffsetInv`
  ties the resolved position of each worker, owner or not, to the message in its
  hands; `RowsStay` says that no step removes a row. The premise is needed:
  `inbox_lost` is what happens without it.
* `GivesUpOnlyWhenExhausted`: `GiveUpInv` adds that a loop at `giveup` still holds
  an exhausted row. Others may count further meanwhile, nobody counts down.
* `AttemptsAreBounded`: a row is tried at most `MaxAttempts` times, once more for
  each other worker and for each fault. A batch is read once and worked off
  later, so a row may be counted after it was given up. `Room` is the account:
  while a row is PENDING, every count from the limit on has a worker at `giveup`
  to show for it, or the fault that took it away; once it is settled only those
  can count who still have it in a batch (`MayCount`), and whoever gives it up is
  not one of them (`Dropped`). The proof counts these sets of workers.
* `GivenUpIsTold`: the safety half of `FailedReachesDlq`. A FAILED row has its dead
  letter, or a loop is about to send it, or its worker died at that point
  (`abandoned`). No other fault is an excuse.

`OutboxPublisherProofs`:

* `TypeCorrect`, from `IInv`: `TypeOK` and that a worker only handles rows that
  exist (`Held`), which an update of a row needs to keep its type.
* `SentMeansPublished`: `SentInv` adds that a worker at the update to SENT has
  its event in the topic. `SentFrame` disposes of every step that neither
  publishes nor marks.
* `GivesUpOnlyWhenExhausted`: `FailedInv` adds that a worker which has decided
  to give up still reads an exhausted row when it writes FAILED. That is stable
  because, without a replay, nobody lowers `attempts`; with one it is not, which
  is why the property is stated for `replays = 0`.
* `ClaimsAreNotWasted`: with one worker and no replay, every claim of a row but
  the one in hand ended in a fault or in SENT (`Thrifty`).
* `CopiesAreBounded`: `Accounted` keeps a ledger of copies. Each fault and each
  replay pays for one copy from every worker (`Fund`); a worker in its catch block
  and a row the operator has read and not written yet still have the right to
  open the row again, and what they would spend is set aside (`Debt`). While a row
  is open every copy belongs to a worker that sent it and has not come back, or
  has been paid for. When it is closed only those can send who had claimed it
  before (`AccountCloses`), and opening it again spends what was set aside
  (`AccountOpens`).

`CashbackPipelineProofs`:

* `ImplementsOutbox`, `ImplementsInbox`: every step of the pipeline is a step or a
  stutter of either half, so the theorems of both hold in it. `ImplementsLedger`
  and `ClaimsAreNotWasted` follow at once.
* `TopicIsConfirmed`: rows exist only for confirmed orders, and what is sent has a
  row (`OnlyRecordCreates` of the publisher).
* `ConfirmationIsDurable`: a confirmed order has an event with a row (`HasEvent`);
  if the row is SENT, the topic has its message (`SentMeansPublished`); if the
  message is behind the committed offset, the inbox has its row
  (`ConsumedIsDurable`); if that is PROCESSED, the order is credited
  (`ProcessedMeansCredited`). The premise is that of `ConsumedIsDurable`.

`OrderApiProofs`:

* `TypeCorrect`: `Shape` says what the record of a request may look like at each
  `pc`, `OneRequest` that a step changes one record only.
* `TransactionIsAtomic`, `DoubleConfirmNeedsOverlap`, from `ConfirmInv`: a
  request at `confirm` read CREATED (the order may be CONFIRMED by now, never
  absent), a request that is not past `confirm` has written no event
  (`EffectOK`), and whoever is about to confirm an order overlaps everybody who
  has (`OverlapOK`): it read CREATED, which by `ConfirmedIffEvent` means no event
  was there yet.
* `AnswersAreTrue`, from `TruthInv`: every saved answer names an order created
  from the hashed body, and so does every answer on its way. Orders are never
  deleted (`Monotone`), so a true answer stays true.
* `RepetitionHasNoEffect`, from `CacheInv` and `ConfirmInv`: a keyed 2xx answer
  leaves a saved response behind, under a slot that is overwritten but never
  emptied; so a later request with the same slot is stopped at `lookup`.
* `ImplementsService`: `Spec => OrderService!Spec`. `Insert` and `Confirm` are the
  abstract effects, the other steps answer or are invisible (`ServiceFrame`), and
  the four invariants above give the guards: `EffectOK` that nothing is done
  twice, `OverlapOK` that a second event has its excuse, `CacheInv` that a request
  past the cache repeats nothing (`ServedIsNew`). A write that commits and then throws
  is the same effect, answered 500 in the same step. What was missing for truthful
  answers is `NoticeInv`: a saved response is a 2xx of somebody who asked under
  its slot with its hash, and what it says of a confirm still holds, since nobody
  takes a confirmation or an event back (`NoticeStays`). A 409 of the cache then
  has the other body to show for it.

`CashbackRuleCacheProofs`:

* `TypeCorrect`, with `LockPlaces`: whoever releases the lock once got it.
* `StalenessIsARace`: `StaleInv` says it of the rules in readers' hands too, and
  names the upsert whose invalidation is outstanding, that of the next version.
* `LockExcludes`: `LockInv` is sharper by one when the lock's owner is not at
  work. A late `DEL` frees the next owner's lock, but its own caller leaves, so
  the cascade of late releases never adds to what the expiry let in.

`UserBalanceProofs`:

* `CashbackIsCorrect`, `CashbackIsMonotone`: for every amount and rule the cashback
  is the exact one to the nearest cent, at most the order and at most the cap, and
  a dearer order never earns less under one rule. Cap and rounding are separate
  lemmas.
* `TypeCorrect`, `CreditsAreFair`: a rate within the limits of the DTO is still at
  most 1 after the column has rounded it; orders do not change and rules are only
  added, so a fair credit stays fair.
* `BalancesAreComplete`: a user's credits, grouped by currency, are summed group by
  group to the sum of all of them (`SumByGroup`), and the answers are the groups, as
  long as each is below `ExactCents`.
* `BalancesGrow`, from `Told`: the last balance a user was told in each currency,
  whatever he was told since in others, is at most the number for what the ledger
  holds in it by now. A step adds at most one credit to a sum and changes none
  (`SumsGrow`), and a larger sum is no smaller number (`NumberGrows`).

`RequestMetricsProofs`:

* `TypeCorrect`: a key over the limit is blocked and not counted further, so hits
  stay within `Limit + 1`.
* `ThrottledOnOwnAccountCorrect`: `AccountInv` says that hits are requests past the
  guard, that a blocked key once had `Limit` of them, and that whoever was
  throttled found `Limit` others. A key of a user holds requests under his name
  only (`UnderNameOf`); that no address reads like it is not assumed.

* `EveryRequestIsCounted`, `ThrottlingIsVisible`, from `CountInv`: besides the two
  sums it holds what a request brings to the place where it is counted. Nothing
  has been thrown before the handler, which does not throttle, and up to the
  filter the status is that of a success: so `finalize` counts under a status that
  is not 429 and the guard under 429 only, and the two sums never share a series.

`SumTheorems` is what these and the balances rest on. `MapThenSumSet` folds over a
finite set and takes the next element by `CHOOSE`. An induction theorem with an
operator parameter cannot be used here, so `SetInduction` is stated with a set in
the place of the predicate, and follows from the well-foundedness of the strict
subset ordering. From it: the function the fold chooses exists and is unique
(`SumExists`, `SumUnique`), a sum does not depend on the element that is taken
first (`SumRemove`), one term more or one term changed changes it by that much
(`SumAdd`, `SumChange`), and it can be taken group by group (`SumByGroup`).

Every safety property of the passing runs, invariants, action properties and
refinements, has its theorem. Only model-checked is liveness, which needs
fairness and `ENABLED`. The three violations are counterexamples and need no proof.

## Plan

1. `InboxProcessor`, `OutboxPublisher`, `OrderApi`, their runs and their proofs
   (done).
2. `CashbackRuleCache`, its run and its proofs (done).
3. `CashbackAmount` and `UserBalance`: the reference definition, the balance, and
   theorems for all amounts (done).
4. `CashbackPipeline`: the composition, its refinement of `CashbackLedger` and the
   theorem that nothing is lost (done).
5. `RequestMetrics`: the order in which a request is seen and counted (done).
6. The bounds on attempts and copies for any number of workers (done).
7. Sums over finite sets, and with them the counters and the balances (done).
8. `OrderService`: what the API promises its clients, and that it keeps it (done).

## Not modelled

* Worker metrics. No behaviour of the program reads them. `metrics-refresh.ts`
  starts a poll every two seconds whether or not the last has ended, so a slow
  poll can set the gauges back to older counts until the next one; and the
  counters start from zero with each process.
* The guard labels a 429 with the path as it was sent, so throttled traffic to
  many orders makes as many series. `RequestMetrics` has it so (`Throttle`), but
  no property bounds the number of series, as there is no bound.
* Several API pods: each has its own throttler storage and its own counters, so
  `RequestMetrics` is one pod; `OrderApi` does not care in which pod a request is.
  The migration runner (prisma's own locking), configuration, health, load tests
  and manifests are stateless, or not this project's code.
* Three divergences from the documentation that no run of their own shows: a
  crash between the FAILED update and the send loses the dead letter (README.md:83
  has both or neither; `FailedReachesDlq` excepts this crash and nothing else); an
  outbox row is not retried until SENT (README.md:77) but given up as FAILED
  after `MAX_ATTEMPTS`, which `EveryRowSettles` states; and `saveResponse` is an
  upsert, so of two concurrent requests with one key the last overwrites the
  response the other saved.
* Replays in the bounds on attempts. A replay sets the attempts of a row to zero or
  back to what it read before the workers counted further, so the bounds are stated up
  to the first one; what holds across replays is the ledger's promise and that rows
  settle.
* Payload contents beyond the order they name, error texts and logging.
* More than one partition: the deployment creates one. `createdAt` ties: rows
  are totally ordered.
