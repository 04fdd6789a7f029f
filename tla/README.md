# Order Service: TLA+ models and proofs

Order Service takes orders over HTTP, asks the Payments service for money,
hears the outcome in a callback, tells Shipping through Kafka (`order.paid`),
hears from Shipping through another topic, and notifies the customer of every
status. It keeps three PostgreSQL tables (`orders`, `outbox`, `inbox`) and no
other state that survives a restart. Paths below are relative to the
repository.

## Inventory

| Component | State | Operations | Interacts with |
|---|---|---|---|
| `domain/entities.py`, `application/services/order_notifications.py` | none | statuses, outbox rows | used by all use cases |
| `CreateOrder` | `orders`, `outbox` | lookup, catalog check, insert, payment request, compensation | Catalog and Payments over HTTP |
| `ProcessPaymentCallback` | `orders`, `outbox` | read, decide, write, enqueue | called by Payments |
| `ProcessShipmentEvent` | `orders`, `outbox`, `inbox` | inbox insert, read, decide, write, enqueue | called by the shipment consumer |
| `ProcessOutboxEvents`, `outbox_worker_loop` | `outbox`; row locks | fetch batch, send, mark, commit | Kafka, Notifications; several instances |
| `shipment_consumer_loop` | Kafka position and committed offset | getmany, handle, commit | Kafka, `ProcessShipmentEvent` |
| `AIOKafkaEventPublisher`, connect task | `_producer` | start, stop, publish | outbox worker |
| lifespan (`app.py`), `bin/outbox_worker.py`, `bin/shipment_consumer.py` | worker tasks, stop event | start, cancel, await the workers | both worker loops |
| unit of work, repositories, models | the database session | the statements behind all of the above | PostgreSQL |
| HTTP clients | none | `get_item`, `create_payment`, `send` | Capashino services |
| routes, schemas, handlers, settings | none | wiring | |

What makes it hard: every use case is read-decide-write over a database at
READ COMMITTED without `SELECT ... FOR UPDATE`, so calls overlap freely and
decide on stale statuses; a payment may be taken on although the request for
it timed out; a crash may fall between two commits; outbox rows are sent
before they are marked and marked long before that is committed; two outbox
workers and two consumers may run at once (the API process starts its own next
to the containers). `PROJECT.json` lists each hazard with its line.

What makes it correct, component by component: one order and one payment per
idempotency key; every status announced, in the transaction that sets it;
`order.paid` only for money received, and always before SHIPPED; a shipment
event applied once; no payment error without compensation; every call ends;
outbox rows sent at least once, by one worker at a time, retried exactly as
often as configured, and settled in the end; shipment messages taken up in
order, offsets that only grow, duplicates that are duplicates; workers that
survive outages and end, leaving nothing open, whenever they are told to.

## Modules

**`OrderDomain`** has the vocabulary and the pure rules: `PaymentTarget` is the
branching of `ProcessPaymentCallback`, `ShipmentTarget` is
`_apply_shipment_status`, `EventsFor` the outbox rows that go with a status.

**`OrderTransactions`** is the core: the three use cases that write orders, as
concurrent transactions. Each member of `Requests`, `Callbacks` and `Handlers`
is one call, so repeats and redeliveries are further calls; an order is named
by the request that creates it. A variable holds what is committed, `pc` says
which statement a call is about to execute, and the locks it holds follow from
`pc`: the unique index entry of a new order (`commit_new`), the inbox row
(`HoldsInbox`), the order's row (`HoldsRow`).

| Action | Code |
|---|---|
| `Post`, `Lookup`, `Catalog`, `Recheck`, `Insert`, `CommitNew` | `create_order.py` 39-77, `orders.add`, the unique index on `idempotency_key` |
| `SendPayment`, `PaymentAnswer`, `LoadToCancel` | `create_order.py` 79-112, `payments.py` |
| `Callback`, `LoadForPayment` | `process_payment_callback.py` |
| `Deliver`, `InboxAdd`, `LoadForShipment` | `process_shipment_event.py`, `inbox.add` |
| `Reread`, `Flush`, `Commit` | `OrderRepository.update` and the rest of each of the three transactions |
| `Fail` | any exception, cancellation or crash: `UnitOfWork.__aexit__`, or the server, rolls back |
| `AcceptPayment`, `SettlePayment`, `CallbacksFor`, `PublishShipment` | external: Payments and Shipping as the code uses them |

`update` selects the row again: `get_by_id` returns a copy and drops the ORM
object, which SQLAlchemy's identity map holds only weakly. So `Reread` is a
step of its own. SQLAlchemy then writes the status column only if it differs
from that second read, which `Commit` models; `updated_at` always differs, so
the UPDATE is always sent and always takes the row lock (`Flush`).

Payments is assumed to report `succeeded` only for a payment that succeeded,
and Shipping to publish events only for orders it heard of through
`order.paid` (or for another service's orders). An outbox row is the model's
`order.paid` as soon as it is committed; that it really gets to Kafka is the
subject of `OutboxRelay` and `OrderSystem`.

**`TransactionalOutbox`** is the abstract specification of the core: status and
announcements change in one step, a sender announces one change at most, and
nothing is SHIPPED before its `order.paid`.

**`OutboxRelay`** is `ProcessOutboxEvents` in the loop of several workers.

| Action | Code |
|---|---|
| `Add` | `outbox.add` by a use case, once committed |
| `Fetch` (`Unlocked`, `Oldest`) | `get_pending_for_update`: PENDING, ORDER BY, LIMIT, SKIP LOCKED |
| `SendOk`, `SendError` (`Attempts`) | the body of the batch loop: `_publish_kafka`, `_publish_notification` with its attempts, `mark_as_sent`, and the except branch |
| `Commit` (`GivesUp`) | `uow.commit`; what `mark_as_sent` and `mark_as_failed` wrote becomes visible |
| `Rollback` | crash, cancelled task, database error: the whole batch is undone |

A send that raises may have arrived all the same (`SendError`), since timeouts
and unreadable answers raise too. The poll interval changes no state.

**`AtLeastOnce`** is the abstract specification of the relay.

**`ShipmentConsumer`** is `shipment_consumer_loop` in the consumers of one
group (the task in the API process and the container share a `group_id`). A
message is a partition and an offset; `batch` holds what a consumer has fetched
and not finished, `hand` the message between its handling and its `commit()`,
`fate` records what became of each message (a history variable: no action
reads it). `ProcessShipmentEvent` is one step, since `OrderTransactions` has
its transaction and shows that overlapping calls for an event take effect one
after the other.

| Action | Code |
|---|---|
| `Join` | the connect loop, once `start()` succeeds: a new member that owns nothing yet |
| `GetMany` | `getmany`, up to `max_records`; moves the position |
| `Handle` (`build_shipment_event_id`), `HandleError` | `_handle_shipment_message` up to `commit()`, and its `except` |
| `Commit`, `CommitError` | `consumer.commit()`, and its failure |
| `Stop`, `Crash` | stop event, cancellation or an error of `getmany`, with `finally`; death of the process |
| `Publish`, `Reassign`, `Rebalance` | external: Shipping and the group coordinator |

What is taken from aiokafka and Kafka: `commit()` without arguments commits the
current positions of the partitions the consumer owns at that moment; a
rebalance puts positions back to the committed offsets and leaves fetched
batches in the consumer's hands; a consumer that lost a partition commits
nothing for it.

**`WorkerLifecycle`** is one process from start to exit: the API with both
workers as tasks (or none), or one of the two programs in `bin/`. A `pc` names
the `await` a task is at, because asyncio switches and delivers cancellations
only there. `connect` and `producer` are the connect task and the publisher's
`_producer`; `shipment` and `consumer` the consumer loop and its
`AIOKafkaConsumer`. `Shutdown` and `LifespanEnd` are the second half of the
lifespan, `RequestStop` and `RunEnd` the signal handler and the end of `run()`.
`Hang` is a `publish` that does not return. On a producer that was created and
not started aiokafka waits for metadata that nobody fetches; on a started one,
with `enable_idempotence=True`, it repeats a batch for as long as the broker is
away, until `PublishReturns`. (If `publish` raises instead, that is
`OutboxRound`.) `producer.stop()` and `consumer.stop()` are assumed to return.

**`OrderSystem`** composes `OrderTransactions` with the relay and Shipping. The
relay is `AtLeastOnce`, which `OutboxRelay` is proved to implement; it runs on
the `order.paid` rows. Shipping hears of an order from what was delivered.

**`MCOrderTransactions`**, **`MCOrderSystem`**, **`MCShipmentConsumer`** give
constants values that a `.cfg` cannot (the other two modules need none).
**`OrderTransactions_proofs`**, **`OutboxRelay_proofs`**, **`OrderSystem_proofs`**,
**`ShipmentConsumer_proofs`** and **`WorkerLifecycle_proofs`** hold the proofs.
Definitions whose names have a suffix such as `Insert_NoUniqueIndex` are wrong
variants of the definition after them; each breaks a property, which shows
that the property depends on that piece of code.

## Runs

| Run | Instance | Checks |
|---|---|---|
| `system` | `OrderSystem`: 1 request, 2 callbacks, 1 delivery, 1 event, a foreign order, fair relay; 425,200 states | `TypeOK`, `StatusAnnounced`, `PaidIsPublished`, `PaidIsBacked`, `PaymentErrorCompensated`, `AnsweredCallbackRecorded`, `SeenOrderExists`, `HandOverIsBacked`, `NeverBackToNew`, `PaidIsHandedOver`, and `ImplementsOutbox` (refinement) |
| `progress` | `OrderTransactions`: 2 requests with one key, 1 callback, 2 deliveries of 1 event, fair; 71,505 states | `UniqueKey`, `OnePaymentPerKey`, `AppliedOnce`, `StrandedByCrashOnly`, `EveryCallEnds` |
| `relay` | `OutboxRelay`: 2 workers, 3 rows, batches of 2, 2 retries, 2 attempts, 1 rollback, fair; 411,019 states | `TypeOK`, `OneWorkerPerRow`, `SentWasDelivered`, `FailedSpentBudget`, `DuplicatesExplained`, `NoCopyAfterSuccess`, `EveryRowSettles`, and `ImplementsDelivery` (refinement) |
| `consumer` | `ShipmentConsumer`: 2 consumers, 2 partitions, 3 events, batches of 2, 2 disruptions; 1,656,093 states | `TypeOK`, `Accounted`, `OffsetsNeverGoBack` |
| `consumer_progress` | 2 consumers, 2 partitions, 2 messages of 7 kinds, batches of 2, 1 disruption, fair; 449,646 states | `DuplicateWasApplied`, `LossExplained`, `EveryMessageTakenUp` |
| `workers` | `WorkerLifecycle`: the three roles, fair; 558 states | `TypeOK`, `OutboxLeavesNothing`, `OutageEndsNobody`, `ShutdownEnds` |
| `duplicate_callback` | 1 request, 2 callbacks | `OneOrderPaid`, violated |
| `stale_writer` | 1 request, 1 callback | `TerminalIsFinal`, violated |
| `concurrent_repeat` | 2 requests with one key | `RepeatGetsOrder`, violated |
| `lost_event` | 2 consumers, 2 partitions, 2 messages | `NoEventLost`, violated |
| `consumer_left_open` | the API process | `ConsumerClosed`, violated |
| `false_connected` | the three roles | `ConnectedMeansStarted`, violated |

The last six are disagreements between the code and what its tests, docs or
log messages say; `PROJECT.json` quotes the lines. In short: overlapping
callbacks enqueue `order.paid` twice; a transaction that read NEW overwrites a
CANCELLED or PAID that was committed meanwhile; the loser of two overlapping
POSTs gets an IntegrityError instead of the order; the offset commit after one
message covers the whole batch, so an event that failed, or that a crash found
unhandled, is not read again; a shutdown during `consumer.start()` leaves the
consumer open; and after one failed connect the publisher reports a connection
it does not have.

What does hold of the consumer is `Accounted` (nothing at or before a committed
offset was passed over without having been in the hands of a consumer) and
`LossExplained`: an event that the group has committed is in the inbox, or in
hand, or its handler raised, or its consumer ended with it in hand. So what can
be lost is what failed and what a stop or crash found in hand, and no more; a
rebalance, the error of another message or a failed `commit()` loses nothing.

An order whose creator died before it asked for the payment stays NEW, and its
key is spent: a repeated POST is answered 201 with that order. `StrandedByCrashOnly`
says that this is the only way to an order without a payment request, and that
no repeated POST asks in the creator's place or is told of a payment. Copies of
an outbox row are limited twice: `DuplicatesExplained` bounds their number by
the attempts of the rounds there were, and `NoCopyAfterSuccess` says that none
follows a send that succeeded, unless its round was rolled back.

`ShutdownEnds` has one exception, which is part of its statement:
`bin/outbox_worker.py` cancels nothing, so a worker that hangs in `publish` for
ever does not see the stop event.

That a SHIPPED order was paid (in `PaidIsPublished`, `HandOverIsBacked` and
`ImplementsOutbox`) rests on the assumption about Shipping above, and not on a
check in the code: `_apply_shipment_status` would ship a NEW order too.

*Bounds.* Races in this code are between two transactions on one row, key or
event. `system` has the creator, two callbacks and a delivery at one order next
to a foreign one; `progress` has twins at a key, two deliveries at an event, and
up to four calls at an order. Calls never start over, so the state space is
finite without further bounds. In the relay, three rows exceed a batch of two,
two retries and two attempts tell "first", "again" and "last" apart, and
`MaxRollbacks` bounds the rounds that are undone. In the consumer, three
messages on two partitions and batches of two give full and partial batches,
within a partition and across, so that a commit covers messages that are not
handled yet; `MaxDisruptions` bounds stops,
crashes and spontaneous rebalances, and two of them let a partition go away and
come back while its messages are in hand. Joining is not bounded.
`WorkerLifecycle` is finite as it stands. The safety statements of these runs
are proved for every value of the bounds (below). Symmetry
is used in `consumer` only, which checks no liveness. Deadlock is not checked: a
behaviour in which all calls have ended, all rows are settled, all messages are
read, or the process has exited, has ended.

*Fairness.* `progress`: each call that can take a step eventually does. The
event loop starves no task, HTTP clients have a timeout, and lock holders
commit or roll back; nothing is assumed of arrivals, of the services, or of
`Fail`. `relay`: each worker eventually takes its next step, for the
same reasons and because the poll interval elapses; only finitely many rounds
are rolled back, since a database that always fails lets nothing settle; and
`publish` is assumed to return, which takes a producer that got started (see
`false_connected`) and a broker that comes back. `system`: the relay settles every pending row, which is
what `EveryRowSettles` shows; nothing is assumed of the use cases.
`consumer_progress`: a consumer that can take a step takes one, and the
coordinator hands orphaned partitions to a member if there is one. That a
consumer is up is not assumed but a premise of the property: nothing in the
code or in `docker-compose.yml` restarts one. `workers`: the event loop runs
every task, and every call to Kafka or the database returns or raises, except
`publish` in `Hang`; a shutdown, a connect that succeeds or a broker that comes
back (`PublishReturns`) is not assumed.

## Proofs

Every invariant and every action property that a passing run checks, and both
refinements, are theorems: they hold for every value of the constants that
meets the assumptions named in the modules. These are: the kinds of calls are
disjoint, every request has a key, `None` is none of the values; settings are
positive; rows are numbered by their creation; there are finitely many
partitions (`PartitionsAssumption`: the number of published messages is a sum
over them); two events under one `event_id` agree on order and type; the roles
are the three programs. Most of the safety properties are not inductive. What
each needs besides itself is in the `Inv` of its module.

**`OrderTransactions_proofs`.** The properties hold because of what a
transaction in flight still knows although others have committed since it read.
`KeyLock` and `InboxLock` say that whoever passed a unique index is alone behind
it; `Decisions` that a decided PAID has a succeeded payment and a decided
SHIPPED an `order.paid`, stale or not; `Rereads` that what `update` read back
was announced and, if it was not NEW, that the order is not NEW now;
`Announcers` that rows about changes come from calls that ended; `Stages`,
`Inputs`, `Backing` tie requests, payments and events together. Lemmas first
show what no step undoes (orders stay committed and never return to NEW, outbox
rows stay, succeeded payments stay), then each part is shown to survive every
action. From `Inv` follow `TypeCorrect`, `Idempotence`, `ChargedOnce` (a payment
is asked for only by the request whose order is committed), `PaidIsReal`,
`PaidIsHeardOf`, `NotifiedAlways`, `ExactlyOnceEffect`, `UnknownStaysOpen`,
`ErrorIsCompensated`, `AnswersHold` and the action property `NewIsLeftForGood`.
`OnlyCrashesStrand` adds `Asked` (whoever is past the payment request, or is
called back, has a payment that was asked for): a transaction that could move
an order away from NEW is therefore never about an order nobody was asked to
pay for (`StrandedIsNew`, the inductive part). That repeated POSTs do nothing
about it follows from `UniqueKey` and `Stages`: they have no order of their own.
In `Refinement`, `CommitNew` is `Create`, a `Commit` with a decision is
`Change`, and all else stutters.

**`OutboxRelay_proofs`.** `Inv` says that locks are exclusive and on pending rows
and that marked rows were delivered; it gives `TypeCorrect`, `RowsAreExclusive`,
`SentIsDelivered`, `FailedIsEarned`, `SuccessIsQuiet` (a row in hand is marked by nobody,
`MarkedIsDone`) and `Refinement`, where `Commit` is `Settle`. `DuplicatesAreCounted` bounds the copies of a row by a
count that rises only when a round ends. Between two such moments it holds
because of `CopiesBounded`: the copies are at most those of the rounds that are
over plus the attempts already made in the open one (`Used`), for which
`AttemptInRange` says that the attempt counter is that of the row in hand.

**`OrderSystem_proofs`.** `Composition` shows that the system takes only steps of
the use cases, so all theorems above hold of it. `SystemInv` adds that the relay
knows an `order.paid` row exactly if it is committed (`RowsInOutbox`), that only
callbacks write such rows (`PaidByCallback`), and that whatever says SHIPPED, be
it an event, a decision in flight or the table, came after Shipping was told
(`ToldFirst`). From these: `HandOverIsEarned`; `PaidIsWithTheRelay`, the safety
half of `PaidIsHandedOver`, that no `order.paid` falls between outbox and relay;
and `RelayRefinement`, that the order.paid rows behave as `AtLeastOnce` although
transactions feed them, because one step commits one of them at most.

**`ShipmentConsumer_proofs`.** `Positions` (committed <= position <= length of the
log) gives `OffsetsOnlyGrow`. `NothingIsSkipped` is about committed offsets, but
those follow the position, which runs ahead; so `NoGaps` states it for
everything up to the position and up to any message that was ever in hand,
which also covers a partition that is read by two consumers. `InboxWasApplied`
and `FateIsTrue` say that the inbox and the recorded fates agree in both
directions; with the lemma that an id is never that of two different events
(`SameIdSameEvent`: a derived id holds type, order and detail) they give `DuplicatesAreReal`, and with `NoGaps`
`LossHasACause`.

**`WorkerLifecycle_proofs`.** `MadeByLoop` and `QuietBeforeStop` say who creates
the producer and the connect task and that nothing is cancelled before the
shutdown; with `GatherReturns` (the `finally` of `outbox_worker_loop` waits for a
connect task that has ended or was cancelled) and `CancelledIsAlive` they give
`OutboxCleansUp`, `OutageIsSurvived` and `GatherIsAnswered`.

Only model-checked: liveness (`EveryCallEnds`, `EveryRowSettles`,
`PaidIsHandedOver`, `EveryMessageTakenUp`, `ShutdownEnds`), which needs fairness
and ENABLED and is out of the prover's reach.

## Next

1. What holds where a run shows a violation, as it is done for `NoEventLost`
   with `LossExplained`: how a terminal status can be left (`TerminalIsFinal`),
   how many `order.paid` an order can get (`OneOrderPaid`), when a consumer stays
   open (`ConsumerClosed`); each checked first and then proved.
2. That the atomic `Handle` of `ShipmentConsumer` is what the overlapping calls
   of `ProcessShipmentEvent` in `OrderTransactions` amount to, as a refinement.

## Not modelled

Reading settings, HTTP status codes and validation, `GET` endpoints, message
texts, serialisation, table creation at startup, `scripts/entrypoint.sh` and
deployment. They keep no state of their own or change none that another part
reads. Amounts and quantities are left out, because no decision after the stock
check depends on them; that `quantize` may raise is a `Fail` at that point.
