# Verification of fault-tolerant-api

The repository is a Go service that accepts orders over HTTP, stores them in
PostgreSQL, publishes an event for each change to Kafka through a transactional
outbox, parks what cannot be published in a dead letter queue, asks a warehouse
for shipments, and protects itself with a circuit breaker and rate limiters. It
has no Go tests; `scripts/` holds manual experiments. This directory holds TLA+
models of its core, the TLC configurations that check them on small instances,
and TLAPS proofs of what holds for every instance.

- `tlc -config outbox_disrupted.cfg MCOutboxProcessor` checks one run; every
  `.cfg` names its run, the table under "Runs" its module.
- `tlapm OutboxProcessorProofs.tla` checks the proofs of a module; there are also
  `DeadLetterProcessorProofs`, `PipelineProofs`, `OrderServiceProofs`,
  `ShipmentServiceProofs`, `ConsumerProofs`, `RateLimiterProofs` and
  `CircuitBreakerProofs`.
- `PROJECT.json` maps every definition to the lines it translates, and lists
  the runs, a mutant of the code for each checked property, the hazards, the
  findings and the theorems.

## 1. Inventory

### Components, their state and their operations

| Component | State | Operations | Modelled in |
|---|---|---|---|
| Outbox processor (`internal/outbox/processor.go`) | the rows of `outbox_messages`; the batch in memory, the message in hand, the attempt; a context and a WaitGroup | `Start`, `Stop`, tick, `processBatch`, `processMessage`, the discard function | `OutboxProcessor` |
| Kafka handler and producer (`internal/outbox/kafka_handler.go`, `pkg/kafka/producer.go`) | none of its own; the topic | `HandleMessage`, `SendMessage` | `KafkaHandler` (by outcome) |
| Retry (`pkg/retry`) | the attempt | `Retry`, `RetryWithDiscard`, backoff | the loop, inside both processors |
| Dead letter processor (`internal/outbox/dead_letter_processor.go`) | the rows of `dead_letter_messages`; batch, row, attempt | as the outbox processor | `DeadLetterProcessor` |
| Admin requests (`internal/api/dlq_handlers.go`) | the same rows | retry (check, then update), discard | `DeadLetterProcessor` |
| Repositories, models, migrations | the tables | one SQL statement per method | `Repository`, and the statements in each component |
| Server (`internal/api/server.go`, `cmd/api/main.go`) | the processors, the pool, the producer, the consumer | construction, `Shutdown` | `Pipeline` |
| Circuit breaker and graceful degradation (`pkg/circuitbreaker`, `pkg/middleware/graceful_degradation.go`) | `state`, `failureCount`, `halfOpenCalls` (atomics), `lastStateChange` (mutex) | `Allow`, `Success`, `Failure`, `Reset`, the middleware | `CircuitBreaker` |
| Order service, repository and handlers (`internal/service/order_service.go`, `internal/repository/order_repository.go`, `internal/api/handlers.go`) | `orders`, and the outbox rows of its transactions; the copy and the event each request carries | create, update, change status, delete | `OrderService` |
| Shipment service, repository and warehouse client (`internal/service/shipment_service.go`, `internal/repository/shipment_repository.go`, `internal/clients/warehouse_client.go`) | `shipments`, `orders`, the outbox rows of its transactions; the shipments in the warehouse; the copy each request carries | create (POST with retries, record, mark the order as shipped), sync (ask, save, mark the order as delivered) | `ShipmentService` |
| Kafka consumer (`pkg/kafka/consumer.go`, `internal/handlers/order_events_handler.go`) | a session; the position and the marks of each claimed partition; the committed offsets at the broker | `Start`'s loop, `ConsumeClaim`, mark, `Stop` | `Consumer` |
| Rate limiters (`pkg/ratelimit`, `pkg/middleware/ratelimit.go`, `endpoint_ratelimit.go`) | token buckets, the adaptive rate, the maps of limiters per endpoint and per IP | `Allow`, `getLimiter`, `SetLimit`, `adapt` | `RateLimiter` |
| Configuration, logging, errors, health, scripts | - | parsing, formatting, plain reads | no |

### How they interact

- The order service writes an order and its outbox row in one transaction. The
  row becomes visible when the transaction commits, which need not be in the
  order of `created_at`.
- The outbox processor polls `outbox_messages`, publishes through the Kafka
  handler inside `RetryWithDiscard`, and writes the outcome to the row. When it
  gives up it inserts a row into `dead_letter_messages`.
- The dead letter processor polls that table, and admin requests write to the
  same rows, each from a goroutine of the HTTP server.
- `Server.Shutdown` stops the outbox processor, waits, stops the dead letter
  processor, waits, stops the rate limiters and the consumer, closes the producer
  and the database, and only then ends the HTTP server: requests that are in
  flight meet a closed database. `docker-compose.yml` restarts a
  process that ends (`restart: always`), and runs one instance of the api; one
  instance is what the models assume.
- Every request passes logging, graceful degradation (the breaker), the global
  and IP rate limiters, and the endpoint limiters, in this order.
- The shipment service reads an order, talks to the warehouse, and writes the
  order back in a transaction of its own, beside the requests of the order service;
  the two share `orders`, the outbox, and the row locks.
- The consumer reads the topic that the Kafka handler writes. Its handler only
  logs, so nothing flows back.

### What is hard here

1. Both processors read a batch, then work through it while others write to the
   rows; no UPDATE of the repositories looks at the status it overwrites.
2. One context covers a whole batch: its timeout, or `Stop`, may end between
   any two statements, and an error does not say whether the statement took
   effect.
3. A crash leaves only what the tables say.
4. An acknowledgement of Kafka may be lost after the broker wrote the message.
5. The two processors hand a message over through a table, and are stopped one
   after the other.
6. The breaker is four variables changed by separate atomic operations.
7. A request reads an order in one statement and writes all of it back in a
   transaction, with an event that was built in between.

8. A shipment is created by a request that is not idempotent and is retried; the
   warehouse, the record, and the order are three places written one after the
   other.
9. The consumer marks messages one by one, and the broker understands a mark as
   "everything up to here"; sessions end while messages are being handled.
10. A token bucket is found under one lock, made under another, used under a third,
    and its rate is written beside all of them.

What makes each component correct is stated by the properties in section 4;
`PROJECT.json` lists each hazard at its line, with the properties about it.

## 2. Modules

| Module | What it is |
|---|---|
| `Repository` | statuses, the dead letter row, the width of `failure_reason`, "the oldest pending rows, at most limit", the outcomes of one statement |
| `KafkaHandler` | the outcomes of one `HandleMessage` |
| `MessageLifecycle` | the abstract specification: what may happen to one message |
| `OutboxProcessor` | the outbox processor; refines `MessageLifecycle` |
| `OutboxProcessorProofs` | its theorems |
| `DeadLetterProcessor` | the dead letter processor and the admin requests |
| `DeadLetterProcessorProofs` | its theorems |
| `Pipeline` | both processors in one server, and its shutdown: instances of the two modules over the same tables and topic |
| `PipelineProofs` | its theorems, from those of the two processors |
| `CircuitBreaker` | the breaker and the middleware, one action per atomic operation or critical section |
| `CircuitBreakerProofs` | its theorems |
| `OrderLog` | the abstract specification: what the events of the orders promise to whoever reads them |
| `OrderService` | orders, their events, and the requests that race for them, one action per statement; refines `OrderLog` |
| `OrderServiceProofs` | its theorems |
| `ShipmentService` | extends `OrderService` with the requests that create and sync shipments |
| `ShipmentServiceProofs` | its theorems, with the lemmas of `OrderServiceProofs` |
| `Consumer` | the consumer group member, one goroutine per partition |
| `ConsumerProofs` | its theorems |
| `RateLimiter` | the limiters a request passes, one action per section under a mutex |
| `RateLimiterProofs` | its theorems |
| `MC...` | instances for TLC |

### How the models correspond to the code

**A statement.** `Outcomes(live, disruptions)` is what `ExecContext` may do:
`ok`, `lost` (an error, nothing changed) or `unacked` (an error, and the change
was made). A context that is over refuses a statement before it is sent. What a
statement means is taken from its SQL as intended; whether PostgreSQL can infer
the types of the parameters inside `CONCAT` is not modelled.

**A message** is the rank of its `created_at`, so that `ORDER BY created_at
LIMIT n` is `Oldest`. A row that is not committed is `absent`. A dead letter is
its index in the table.

**A copy** in the topic is a call of `SendMessage` whose message was written.
The retries inside Sarama may multiply it; they are external.

**The loop.** `pc` follows `processMessage`: `claim` (`MarkAsProcessing`, or
`MarkAsRetrying` in the queue), `attempt` and `backoff` (`Retry`), then
`markFailed` and `deadLetter` (the discard function and the branch without a
handler, which issue the same two statements), or `markCompleted`. `Take` is the
head of the loop over the batch. A tick whose query fails or finds nothing
leaves no trace and is no step; neither is a tick taken after the processor's
context was cancelled, whose query fails. A statement and what the loop does next
without another one are one step: the INSERT of a dead letter becomes visible as the
processor lets go of its message, which it does not use any more. `OneHolder` counts
from there.

**The process.** `life` is `running`, `stopping` (from `cancel()` until the
WaitGroup is done) or `down`; `Start` is the next process, because the code never
starts a stopped processor again. A crash clears what was in memory.

**A reason** in the queue is its length. The reason after the last attempt has 88
characters at least (44 of the format, 44 of the shortest error of `Retry`).

**The breaker.** Sections under the mutex are one step, together with the atomic
stores inside them. The time since `lastStateChange` is `elapsed`, which
saturates at `ResetTimeout`; `halfOpenCalls` saturates one above its limit, as
only the comparison with the limit matters. `probes` is history: no action reads
it. A client error (4xx) is reported neither as a success nor
as a failure, as in the middleware; the rate limiters behind it answer 429.

**An order request** is a goroutine, used once. `pc` follows `CreateOrder`,
`UpdateOrder` and `UpdateOrderStatus`: the copy is made (`new`), the event is
built (`build`), the order is written inside the transaction (`write`), then the
event (`insert`), then the commit. `orders` and `outbox` hold what is committed, as
everybody else sees it (READ COMMITTED). The row lock is not stored: it belongs to
the request that is between its UPDATE and its commit. `created_at` is the rank
of the event among all events built; two events of the same instant are ignored,
and so are equal IDs (eight hexadecimal digits of a UUID). The columns other than
the status are one value. A commit whose acknowledgement is lost is a `Commit`, one
that fails is a `Fail`; a crash is a `Fail` of every request. A request that finds
no order, or the status it asks for, changes nothing and is no step. In
`OutboxProcessor` the same transactions are the action `CreateInTx`, by their
outcome.

**A shipment request** is a goroutine of the same `Requests` as those to the order
endpoints. `task` says what it carries: a copy of the order (`create`) or the
status it found (`sync`), and how far it is (`post`, `record`; `ask`, `save`, `read`;
`order`). From `order` on it is a request of `OrderService` (`pc`, `job`), with the
difference the code makes: the event is built inside the transaction, after the
UPDATE (`NewEventInTx`). The warehouse is the sequence of the shipments it has
created. A POST has two independent outcomes, whether the warehouse has created a
shipment and what the client takes the answer for: success, an error that is
retried, or one that is not (`Answers`). A GET changes nothing, so that its
attempts count as one; an answer without news ends the request as an error does.
`untold` is history: the shipments whose request failed after it had saved
`delivered`, or may have.

**The consumer.** `life` is the loop of `Start` (`joining`, `session`, `ending`,
`stopping`, `down`), `pc` the goroutine of each partition. `position` counts the
messages received, `marked` those passed by a mark of this session, `committed`
those the broker has; `times` is history. What `HandleMessage` returns depends on the
message alone (`Contents`). Sarama is external: what it does with marks
(`AutoCommit`, `LastCommit`, which may fail per partition) and when it ends a session
(`EndSession`) is taken from its documented defaults, which `NewConsumer` keeps.

**The rate limiters.** Time, tokens and rates are whole numbers; in the code they
are floating point. A request goes through `global`, `ip`, `lookup`, `create` and
`allow`. `buckets` are all the buckets ever made, because a request may hold one that
the map (`limiter`) no longer contains; `born`, `by` and `served` are history. `adapt`
writes `refillRate` beside the bucket's mutex: a data race, whose outcome on the
64-bit platforms the image is built for is the old rate or the new. In `NewRate`
the division is rounded down: the rate of the model is within one unit of the
code's, on the same side of every bound, as the bounds are whole.

**Shutdown.** The outbox processor goes `stopping`, `down`; the dead letter
processor `stopping`, `stopped`; then `closed` collects what has been closed, while
admin requests go on and a closed database refuses their statements. For the
requests of the order and shipment services a closed database is one more reason to
`Fail` or `Abandon`.

`Disruptions` selects what the environment may do: `db` (a statement fails or
its acknowledgement is lost), `ctx` (the batch's timeout ends), `stop`, `crash`.
A failing Kafka is no disruption: `PublishOutcomes` is always open, as the
handler fails one call in five on purpose.

## 3. Fairness

- A goroutine that can run does (`WF` of `ProcessMessage`); a stopped processor
  ends (`WF` of `Exit`: the WaitGroup); the supervisor restarts (`WF` of
  `Start`: `restart: always`).
- Under disruptions nothing holds of a system that is stopped before every tick
  or whose database refuses every claim. `SF` of `ProcessBatch`, and of a claim
  that takes effect, says that a tick and a claim that are tried again and again
  succeed again and again. Nothing is assumed of Kafka, of later statements or
  of admins, except that a retry request that was read is carried on.
- Without disruptions (`pipeline_quiet`) weak fairness is enough: ticks recur.
- In the consumer, goroutines run, and joining, committing and restarting succeed
  in the end (weak fairness of each). Sessions end, and stops and crashes come, at
  most `MaxDisturbances` times: a group that rebalances before every message makes
  no progress, and the code does nothing about that.
- In the breaker, time passes, goroutines run, handlers return, and every client
  goroutine keeps making requests (`WF` of `Request`). The last one is an
  assumption on the traffic: nothing but a request moves an open circuit on.

## 4. Runs

Passing runs:

| Run | Instance | What it shows |
|---|---|---|
| `outbox_disrupted` | 3 messages (1 without a handler), batches of 2, 2 attempts, every disruption; 28,371 states | safety of the outbox, refinement of `MessageLifecycle`, every committed row is claimed |
| `dlq_disrupted` | 2 rows (1 without a handler), batch of 2, 2 attempts, an admin with a short and a long reason, every disruption; 42,835 states | safety of the queue, every row is taken up |
| `pipeline_disrupted` | 2 messages, 1 attempt in each processor, an admin, every disruption; 1,327,330 states | the hand-over and the shutdown: one holder, nothing closed that is in use, a bound on copies end to end |
| `pipeline_quiet` | 3 messages (1 without a handler), batches of 2, 2 attempts, only Kafka fails; 20,912 states | nothing is lost, every message is settled and accounted for |
| `order_race` | 5 requests for an order and its shipments, 4 statuses, 2 attempts of the POST, failing statements, any answer of the warehouse, up to symmetry; 833,087 states | the requests implement `OrderLog`: what the events of an order say of it; how the warehouse, the records and the order agree, while requests overwrite each other and fail |
| `consumer_restart` | 2 partitions (1 of a topic without a handler), 2 messages each, 2 ends of a session, stops or crashes; 47,104 states | the offsets never pass what was not tried; everything is tried, and the lag ends |
| `limiter_race` | 2 requests of a client for an endpoint, a limit set, 4 loads around the threshold, 2 units of time; 720,545 states | tokens are conserved, a limit set by an admin stands against all but the endpoint's first requests, the rate follows the load |
| `breaker_race` | 2 goroutines, threshold, timeout and limit 2, resets; 68,335 states | no missed trip, a bound on probes, the state diagram, an open circuit is tried again |

The properties, by what they are about:

- *Stale batches*: `ClaimedOnce` (no row is claimed twice, across batches and
  restarts), `SettledIsFinal` (no late UPDATE changes a settled row),
  `BoundedRepublish`.
- *Partial failure*: `CompletedIsPublished`, `ResolvedIsPublished` (a status that
  says "done" is never ahead of Kafka), `PublishedIsCounted` (a claim that may
  not have been applied publishes nothing), `DeadLetteredOnce`.
- *Duplicates*: `BoundedDuplicates` (at most `MaxRetries` copies),
  `TotalDuplicates` (at most the sum over the two processors).
- *Hand-over and shutdown*: `OneHolder`, `ClosedIsUnused`.
- *Progress*: `EventuallyClaimed`, and, without disruptions, `NothingLost` (both
  statements of a discard are issued; how they fail one without the other is left to
  `DeadLetteredOnce` and `DiscardSettles`) and `Accounted`. A message need not be settled under
  disruptions: a message whose process dies while it is claimed stays
  `processing`, because no query selects that status again. The abstract
  specification says so: nothing is promised about a claimed message.
- *Orders and events*: `StatusTold` (the last event of an order tells its status),
  `CreatedComesFirst` (whoever goes by `created_at` meets the creation first),
  `LogSpec` (the requests implement `OrderLog`: a change of an order and its event
  happen at once, to an order that exists, and a late request does not bring a
  deleted order back). `NothingAfterDelete` is a consequence of it, proved only.
- *Shipments*: `BoundedShipments` (a request leaves as many shipments in the warehouse
  as it may try, at most), `RecordsMatch` (a record is of a shipment that the
  warehouse has for this order, and of no other record), `ShippedIsRecorded` (an
  order is marked as shipped by a request that has recorded the shipment),
  `DeliveredIsTold` (a delivery is in the outbox, or somebody is about to put it
  there, or the request that knew of it failed).
- *Consumer*: `PassedWereTried`, `PassedBySuccess` (what is committed ends with a
  message that was handled), `BoundedRedelivery`, `CaughtUp`.
- *Rate limiters*: `Conserved`, `LimitStands` (once no request is on its way to store a
  limiter for an endpoint that has one, only an admin replaces it), `RateFollowsLoad`.
  `OneEach` (a goroutine makes one limiter of an endpoint at most) is proved only.
- *Breaker*: `NoMissedTrip`, `ProbesBounded`, `StateMoves`, `OpenIsLeft`.

Violation runs, each a disagreement of the code with what it says of itself:

| Run | Says | Does |
|---|---|---|
| `outbox_discard` | "Mark as failed in outbox", "Send to DLQ if enabled" (`processor.go:220,229`) | both statements use the context whose end made `Retry` give up; they are refused and the row stays `processing` |
| `dlq_exhausted` | "applies the discard policy if all retries fail" (`retry.go:97`) | the reason does not fit into `VARCHAR(100)`: 20 + 14 + 88 characters; the UPDATE is refused and the row stays `retrying` |
| `dlq_marked` | "Dead letter message marked for retry" (`dlq_handlers.go:98`) | the row leaves `pending`, the only status the processor selects: it is never claimed again, though nobody resolves or discards it |
| `breaker_stuck` | "temporarily unavailable. Please try again later." (`graceful_degradation.go:46`) | probes answered with 4xx report nothing: the circuit stays half-open and refuses everything until a reset |

Further observations, without runs of their own (the first two were found by
runs over the same modules):

- "MarkAsDiscarded marks a message as permanently discarded"
  (`dead_letter_repository.go:157`), but `MarkAsRetrying` and `MarkAsResolved` do not
  look at the status they overwrite: a discarded row that a batch has read becomes
  `retrying`, even `resolved`.
- "Update fields if provided" (`order_service.go:172`), but every column of a copy
  read before the transaction is written back: a field that was not provided loses
  what another request has put there meanwhile. `CreateShipmentForOrder` does the
  same with a copy that is older by up to three calls of the warehouse.
- A failed message is not marked, "so it will be redelivered" (`consumer.go:152`).
  It is only if no later message of its partition is handled before the session
  ends: a mark passes everything before it (`PassedBySuccess`).
- A sync that has saved `delivered` and then fails to write the order is never
  repaired: the next sync finds the status unchanged (`shipment_service.go:171`).
  This is `untold` in `DeliveredIsTold`. A failed lookup of the order is even
  answered as a success (line 186).
- Shipments that the warehouse created before its answer was lost have no record:
  `BoundedShipments` says how many there may be, nothing looks for them.
- Two syncs of one shipment may save their answers in either order, so that a record
  goes back from `delivered` to an older status.
- `CreateShipment` posts to `/api/v1/shipments`, `GetShipmentStatus` asks
  `/api/shipments/{id}` (`warehouse_client.go:173,261`).
- The rate falls with the load up to the threshold, where it is at its minimum, and
  jumps to its maximum just above it (`adaptive.go:86-98`), though the
  configuration says "Start adapting at 70% load" (`server.go:146`):
  `RateFollowsLoad` is therefore about loads on one side of the threshold.
- `getLimiter` does not look again under the write lock: concurrent first requests
  get a bucket each (`OneEach` bounds them), and a limit that an admin sets in
  between is replaced by the default though the answer says "Rate limit updated
  successfully" (`ratelimit_handlers.go:54`). `LimitStands` says that only these first
  requests can do so.
- The limit of `POST:/api/v1/orders/*/shipments` (`server.go:160`) is never used:
  the key of a request is its path, not a pattern.
- The cleanup loop of the IP limiters removes nothing (`ip_limiter.go:58-61`); with
  `TrustForwardedFor` the map grows with the header.
- The ten seconds of `main.go:47` bound only the last step of `Shutdown`; the
  processors and the consumer are waited for without a limit.

- The breaker swaps `state` before it stores `lastStateChange` and clears
  `halfOpenCalls` (`breaker.go:63-67,109-112`). A second goroutine that arrives
  in between measures the time since the previous change, and probes without the
  wait of "Wait 30 seconds before trying again" (`graceful_degradation.go:22`);
  or it is counted before the counter is cleared, and one request more than
  "Allow 5 requests in half-open state" (line 23) gets through. `ProbesBounded`
  says how many more there can be.
- The branch "Reset failure count if in closed state" (`breaker.go:92-95`) sits
  inside the branch of the half-open state and is never reached: `SuccessLoad`
  does nothing when the circuit is closed, so failures far apart add up.
- The outbox processor reads events by `created_at`, which is not the order of
  their commits: of two changes of status of one order, the event published last
  may tell the older status. Only the creation is safe (`CreatedComesFirst`).
- An `order_status_changed` event tells the status, but not the stale columns
  that were written with it.
- The retry request allows "only pending messages" (`dlq_handlers.go:82`) but
  checks a copy of the row, and the UPDATE at line 89 does not repeat the
  condition: `CheckRetry` and `MarkRetry` are separate actions, and every
  property of `dlq_disrupted` holds in spite of it.

### Bounds, and why they are enough

Two attempts are a first and a last one with a backoff between them. Two
rows in a batch are one in hand and one read ahead; a third is committed while
the batch is worked on, or found by the next one. One admin can check and update
around any step of the processor; with two the same properties hold (491,781
states). In `pipeline_disrupted` one attempt is enough, because the retry loops
are checked in the runs of each processor; batches of one make the outbox
processor poll between the hand-overs. Two goroutines give every pair of
interleaved operations of the breaker; the proofs cover any number. Five requests
are one that creates an order, two that create or sync its shipments, and two that
race with them; the columns besides the status need one value there, because no
property of the run looks at them; two attempts of the POST are a first and a last
one; the warehouse answers with a status the client knows and with one it does not.
Two messages of a partition are one that is marked and one that it passes, or one
that fails behind it; with three messages the safety and the liveness of the
consumer hold too (825,199 states). Two units of time refill a bucket twice, and the
second time at another rate. `MaxMessages`, `MaxDisturbances`, `MaxTime` and
`MaxSettings` are the bounds of the guards.
Nothing else is bounded, except that `failureCount` stays finite by itself: in
the closed state it stops at the threshold plus the failures already in flight.

`CHECK_DEADLOCK FALSE` is set only where the system really may stop: in the runs
without disruptions, or with a timeout only, once everything is settled; and in
the runs of the order service, once every request has been answered.

## 5. Proofs

All theorems hold for any finite set of messages, any batch size, number of
retries and set of disruptions; any sets of orders, requests and statuses, any
answers of the warehouse and number of attempts; any partitions and number of
messages in them; any sets of clients, endpoints and limits; any set of goroutines
and any configuration of the breaker. The only assumptions are the named ones of
the modules, `ConstantsAssumption` and `ShipmentAssumption`: numbers are positive
where every configuration of `server.go` and `graceful_degradation.go` has them
positive, minima are below maxima, names of different kinds of things differ, and
the statuses the code writes are statuses. `MaxMessages`, `MaxDisturbances`,
`MaxTime` and `MaxSettings` may be any numbers. The breaker's count of probes needs
`ThreadsAssumption` as well: at any time there are finitely many goroutines, though
any number of them.

**Outbox** (`OutboxProcessorProofs`). `TypeCorrect`, `CompletedIsPublishedHolds`,
`ClaimedOnceHolds`, `BoundedDuplicatesHolds`, `DeadLetteredOnceHolds` and
`SettledIsFinalHolds` follow from one inductive invariant, `IInv`. The
properties are not inductive alone, because nothing in them says what the
processor holds:

- `Position`: where `pc` is, and that the message in hand is not in the batch;
- `Fresh`: the rows read ahead are still pending. This is why stale batches are
  harmless: only this goroutine moves a pending row, and only the one in hand;
- `Held`: the row in hand has the status the last step gave it, and no dead
  letter;
- `Counted`: an attempt adds at most one copy, and a row that was never claimed
  has none;
- `BoundedAhead`: `BoundedDuplicates` for the messages that are not parked. The
  processor publishes no others, so that this part is true beside the dead letter
  processor, too; `DuplicatesStep` gets `BoundedDuplicates` back where it is alone.

There is one lemma per action; `TakeEffect` and `AppendParks` carry what they
share. `NothingLostHolds` assumes `Disruptions = {}` and adds the invariant
`Calm` (the context of a batch stays alive). `Refinement` shows with `IInv` that
every step is a step of `MessageLifecycle` for the row in hand, or a stutter.

**Dead letters** (`DeadLetterProcessorProofs`). `Fresh` is false here: an admin may
write to a row that a batch has read. What the invariant says of such a row is not its
status but what cannot be undone: no statement makes a row `pending` again
(`Kept`), so a row is read at most once as pending, and it has not been published when
it is (`Unpublished`). `Counted` then follows the attempts, and `OneRow` keeps two
rows from being about one message. Everything is relative to `before`, the copies a
message may have when its row is created: 0 for the processor alone, which is what
`TypeCorrect`, `ResolvedIsPublishedHolds`, `BoundedRepublishHolds` and
`PublishedIsCountedHolds` are about. `RowsMoveOn` states what `Kept` says as an action
property of every step: no row goes back, and none becomes `resolved` unpublished.

**Pipeline** (`PipelineProofs`). Neither processor is reasoned about again. Its
invariant is that of the outbox processor, that of the dead letter processor with
`before` the `MaxRetries` of the first, and `Waited`: a processor that was waited for
is idle, the second one is stopped after the first, and everything is closed after
both. `BesideIInv` in the proofs of each processor says what the other one may do
without disturbing it. The outbox processor allows others to change rows of the queue
and to publish what is parked; the dead letter processor allows others to append a
row for a message that has none, and to publish a message that has none, up to
`before`. `OutboxSteps` and `DeadLetterSteps` show that each does no more than the
other allows: what the first has in hand is not parked, what the second has in hand
is. `OneHolderHolds`, `ClosedIsUnusedHolds` and `TotalDuplicatesHolds` are then read
off the three parts, and `TablesAreTrue`, `SettledIsFinalHolds` and
`NothingLostHolds` carry what the outbox processor promises alone over to the
server. `EndToEnd` is the refinement of the server: what a message goes through until
it is parked is `MessageLifecycle` (`LifecycleStep` of the outbox processor's proofs),
and what happens to it afterwards is `Republish`, which leaves its outbox row alone and
is bounded (`DeadLetterLifecycle`). `ConstantsAssumption` of `Pipeline` is that of both components.

**Orders** (`OrderServiceProofs`). `StatusTold` and `CreatedComesFirst` are proved
with an invariant that says what a request may rely on:

- `Alone`: nobody else knows an order that is being created;
- `Grounded`: who creates an order finds it absent, who has written one finds it
  there, because of the row lock and of `rowsAffected`;
- `Exclusive`: the row lock;
- `Dated`: no event has a time of the future; the time 0 is that of an event that is
  not built yet;
- `Aged`: a request that has built its event read an order whose creation was
  committed, and so built, earlier. This is why `created_at` can be trusted for the
  creation though for nothing else.

`BuiltFirst` says that the requests to the order endpoints build their event before
their transaction; the lemmas about the transaction ask only that an event that is
inserted is built, so that they also hold of shipment requests, which build it inside.
`NothingAfterDeleteHolds` uses the same invariant in each step. `LogRefinement` shows
that a commit is the step of `OrderLog` that its transaction prepared, and everything
else but a deletion a stutter: what a request has in hand was written (`Exclusive`)
to an order that is still there (`Grounded`), and a created order is `pending`
(`NewIsPending`), because nobody else knows it before. These theorems are about `Spec`
of `OrderService` alone.

**Shipments** (`ShipmentServiceProofs`). The theorems are about `ShipmentSpec`, which
is what `order_race` checks: the properties of orders and events are proved again,
now with shipment requests among the others. The invariant `SInv` adds to the one of
the orders, in `Control`,

- `Handed`: a task is a request of `OrderService` from the step `order` on, and
  nothing to it before;
- `OthersBuiltFirst`: `BuiltFirst`, for the requests that are no tasks;

and in `Data`, beside the properties themselves,

- `Known`: a task or a record is about an order that was created. An order that does
  not exist any more was therefore deleted, and stays so, which is the way out that
  `DeliveredIsTold` leaves;
- `OwnReference`: the reference a request got is to a shipment of its order, nobody
  else has it, and no record has it before the request has saved one. This carries
  `RecordsMatch` through the retries of the POST, and gives `ShippedIsRecorded`;
- `Delivering`: a sync that writes an order writes `delivered`, to the order of its
  shipment.

`BoundedShipmentsHolds` adds `Tried`: what a request has made the warehouse create is
less than the number of the attempt it is at, because each attempt makes one at most,
and a request that has not begun has made none.

`LogRefinementWithShipments` takes the same way as `LogRefinement`: a task is a request
of `OrderService` when it commits, and it creates no order.

There is one lemma per action; `QuietData` covers the steps that write no table, and
`OrderFacts` says what a step of `OrderService` leaves alone.

**Consumer** (`ConsumerProofs`). Offsets are safe because `Placed` keeps the committed
offset at or below the mark, and the mark at or below the position; `Given` says that
everything a session is done with was given to the handler, and `MarkedBySuccess` that
a mark is set after a success. `Budget` counts how often a message was handled: once
per session at most, where `Ended` counts the session that is ending as not yet over.

**Rate limiters** (`RateLimiterProofs`). `Sound` is `Conserved` for one bucket, with
its times in order and its rate at most its peak; the refill is a product of time and
rate, so that the lemmas `TimesMonotone`, `DivMonotone` and `DivShare` about products
and quotients carry it, and `NewRate` (`RateBounds`, `RateFalls`). `OneEach` rests on
`Mapped` (a key that has a bucket has one in the map), on `Creating` (a request about
to make a bucket has made none for that endpoint) and on `Maker` (an IP's bucket is
made under the lock, by the server). `SettledStep` shows `LimitStands` action by action:
a lookup that finds a limiter does not go on to make one. `Rated` says that the adaptive rate is the one of the
current load.

**Breaker** (`CircuitBreakerProofs`). `NoMissedTrip` with the types is inductive:
the action that closes the circuit, or brings the count to the threshold, leaves
its goroutine where it will clear the count or open the circuit, and only doing
so takes it away. `StateMovesHolds` is about each step. `ProbesBoundedHolds` is about
a counter that is cleared after the state has changed, by anyone who was about to when
the half-open period began. Its invariant `Budget` gives each of these goroutines
(`Clearers`) one more `HalfOpenMaxCalls`: one that has cleared the counter cannot get
back to where it does so without ending the period. If all goroutines are clearers the
room that the counter has left is of no use (`UsableRoom`), because nobody is there to
probe before one of them clears it; this is where the bound of `Cardinality(Threads)`
times the limit, and not one more, comes from.

**Only model-checked**: liveness (`EventuallyClaimed` of both processors, `Accounted`,
`OpenIsLeft`, `CaughtUp`), since the prover cannot reason about fairness. Every
invariant and every action property of a passing run is a theorem.

## 6. Not modelled

- The wording of logs and answers, configuration, health and metrics endpoints,
  which only read.
- What has no caller: `OutboxRepository.Create`, `OrderRepository.Create` and
  `Update`, `ShipmentRepository.CreateInTx`, `ResetToRetry`, `CheckInventory` of the
  warehouse client, and the resets of limiters that no handler calls.
- How long a backoff lasts, and its jitter (`pkg/retry/backoff.go`): no property depends
  on the length of a delay, and an attempt may come at any time.
- Kafka, Sarama and the warehouse are external: modelled by how the code uses them.
- Fractions of tokens and of a rate: the models count in whole numbers.
- Several instances of the api at once: the queries lock nothing, so two instances
  would claim the same rows, but the deployment runs one.

## 7. Plan

All components of the inventory that have state of their own are modelled, and the
safety properties of their runs are proved. What is left:

1. The life cycle of a dead letter as an abstract specification, beside
   `MessageLifecycle`, with the admins among its actors, and the proof that
   `DeadLetterProcessor` implements it; `RowsMoveOn` is its core.
2. What the services promise to each other: a theorem that combines the events of
   `OrderLog` with the rows that `OutboxProcessor` finds.
