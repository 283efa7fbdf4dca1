# A TLA+ development of openframe-adapters

`openframe-adapters` connects the ports of openframe-core to brokers and
databases: three queue adapters (Kafka, NATS JetStream, RabbitMQ) and fourteen
database adapters, one Python package each. Everything runs in one asyncio event
loop: a task runs alone between two awaits, and every await is a place where
another task may change what the first one has read. There are no locks. What can
go wrong is therefore in the order in which calls of a few objects and
module-level dictionaries overlap, fail or are cancelled; that is what the modules
model. An action is the code between two suspension points.

In the paths below, `<a>` is the adapter's name, and each package's code is under
`src/packages/openframe-adapters-{queue,db}-<a>/openframe/adapters/{queue,db}/<a>/`.

## Inventory

| Component | State | Operations | Hard to get right | What makes it correct |
|---|---|---|---|---|
| Queue consumers, `consumer.py` (3) | driver handles (`_consumer`; `_nc`, `_sub`; `_connection`, `_channel`, raw message), `_running` | `subscribe` (connect, loop, handler, `ack`/`nack`), `close`, `shutdown` | `close()` at any await of `subscribe()`, a close that outlives its session, redelivery, lost acks, failed set-up, crash | at-least-once delivery; a request to stop ends the session; an ended session holds no client, no message |
| Queue producers, `producer.py` (3) | driver handle(s) | `start`, `close`, `publish`, `publish_batch` | `close()` during a batch, overlapping `start`/`close`, timeouts of accepted messages | what a call tells its caller about its messages; no client left running unknown |
| Queue plugins, `plugin.py` (3) | `_producer`, `_status` | `initialize`, `shutdown`, `get_producer`, `health` | re-initialisation, shutdown during start, a caller that keeps an old producer | `READY` means a producer that can publish; a stopped plugin leaves no client; `STOPPED` is reached |
| Connection caches, `connection.py` (14) | module dictionary from settings to pool | `get_<a>()`; repository `close()` | check, await, store; get, await, pop; a setting that is missing in the key | no dead pool served, none closed twice, none leaked, none built from other settings |
| Database plugins and ports, `plugin.py`, `repository.py` (14) | `_status`, `_repository` | `initialize`, `shutdown`, `health` | failures and cancellation between the steps, shared pool | an orderly stop frees the pool; `STOPPED` is reached |
| Repository operations, `repository.py` (14) | the database; FalkorDB `_constraint_ensured`, ChromaDB the collection | `get`, `list`, `create`, `update`, `delete`, `search` | check-then-act in two round trips in the adapters whose database has no conditional write | each call acts as one atomic step of a key-value store, or says how it does not |
| Cassandra callback bridge, `db/cassandra/connection.py` | one asyncio future per query | `_response_future_to_asyncio` | an answer of the reactor thread after the future was cancelled | an answer reaches only a call that still waits (part of `Repository`) |
| Settings, `config.py` (17) | none | declarations | which fields the cache key has | the key has every field the client is built from |
| Error mapping (`_wrap_*`, NATS `errors.py`), trace headers | none | pure functions | | |
| `scripts/check_adapter_checklist.py` | none | a static check of the source tree | | |

How they interact: the registry of openframe-core (external) calls `initialize()`
and `shutdown()` of plugins; a plugin owns one producer or repository; consumers
are made by `make_consumer()` and driven by the application, whose handler they
call; repositories with equal settings share one pool through the cache; a driver
(aiokafka, nats-py, aio-pika, asyncpg ...) is external and is modelled by how the
code uses it.

## Modules

| Module | Models |
|---|---|
| `AtLeastOnce` | abstract: a queue that owes every message until it has been handled (or may be given up) |
| `KafkaConsumer` | the Kafka consumer, the partition, the group's committed offset and its coordinator |
| `NatsConsumer` | the NATS consumer, the JetStream push consumer with `ack_wait` and `max_deliver` |
| `RabbitmqConsumer` | the RabbitMQ consumer, prefetch, requeue, the robust connection |
| `Outbox` | abstract: what one `publish()` or `publish_batch()` promises |
| `QueueProducer` | the three producers, one of them chosen in `Init` |
| `QueuePlugin` | EXTENDS `QueueProducer`: the plugins and the producer objects they make |
| `ConnectionCache` | `get_<a>()` and `close()` of all fourteen adapters on one cache key |
| `ConnectionSettings` | EXTENDS `ConnectionCache`: the settings the tasks ask with and the pools are built from |
| `SettingsFields` | a table: the fields of each adapter's cache key, and those its client is built from |
| `DbAdapters` | a table, one row per adapter: how it creates, evicts, shuts down and builds its repository |
| `DbLifecycle` | EXTENDS `ConnectionCache`: plugins and repositories on one cache key |
| `EntityStore` | abstract: one table on which every call acts once, under a contract |
| `Repository` | the operations of all fourteen repositories: calls that send statements, a database that executes them |
| `RepositoryAdapters` | a table: the statements each operation of each repository sends |
| `KafkaConsumerProofs`, `NatsConsumerProofs`, `RabbitmqConsumerProofs`, `QueuePluginProofs`, `ConnectionCacheProofs`, `ConnectionSettingsProofs`, `DbLifecycleProofs`, `RepositoryProofs` | theorems and proofs about the module each is named after (`QueuePluginProofs`: `QueueProducer` too) |
| `MC...` | the instances TLC checks |

Composition: the three consumers each implement `AtLeastOnce` under a refinement
mapping (`ImplementsAtLeastOnce`), `QueueProducer` and with it `QueuePlugin` implement
`Outbox`, and `Repository` implements `EntityStore` under the contract of the chosen
adapter. A step of `QueuePlugin` is one of `QueueProducer` joined with what the plugin
does in it (or a plugin's own), one of `DbLifecycle` or `ConnectionSettings` likewise
one of `ConnectionCache`.

**Consumers.** `task` says at which await `subscribe()` is suspended, `closer[c]`
where a call of `close()` is. The fields of the object have a variable each. An
action like `HandlerReturns` is the whole stretch from the return of the awaited
call to the next await, the `break`, `finally` and field assignments included. The
broker is external: in `KafkaConsumer` it keeps a position per assignment and a
committed offset, rebalances at any time and assigns the partition from the
committed offset; in `NatsConsumer` it redelivers after `ack_wait` and gives up after
`max_deliver`; in `RabbitmqConsumer` it requeues what an ended channel left unacked.
`Cancel` is the cancellation of the task that runs `subscribe()`; the asyncio rule
that an `except Exception` does not catch it is part of the model, and the `finally`
clauses run. The history variable `crossed` says that a `close()` went on to
a later session than its own. Kafka's `nack()` is given the message of the iteration before when a
payload does not decode; it only logs, and the model records the offset that did not decode as failed.

**Producers and their plugins.** The three differ in when a client is stored in the field,
which field `publish()` reads and how `close()` proceeds; `broker` selects them. `client[o]`
and `chan[o]` are the fields of object `o`, `self[t]` the object whose `start()` or
`close()` task `t` runs, `callee[c]` the object a call publishes with. A message is a
number; `_serialise()` may raise for any. Used directly (`managed` is FALSE), object 1 is
started and closed any number of times. Under a plugin, `Initialize` makes a fresh object
and assigns `producer`, `Shutdown` closes the one assigned, and a caller gets its object
from `GetProducer` and keeps it. `contended` holds the clients whose `start()` or `close()`
overlapped another call or was repeated, and those whose object a second `initialize()`
replaced; `faulted` those whose `start()` or `close()` failed.

**Cache and lifecycle.** The adapters differ in four traits, read off the code into
`DbAdapters`. `contended` and
`faulted` are history variables: pools whose creation overlapped another creation
or a close, and pools whose creation or closing was cut short. The cache is modelled for one
key, so `ConnectionSettings` lets two tasks' settings differ in one field that is not in
the key (`differs`); with a field that is, they would use different entries.

**Repositories.** A call is a sequence of one or two
statements: `SendNext` is its step to the second one, `Return` and `Raise` its ends. So the code
of an operation is its row in `RepositoryAdapters` (`CassandraUpdate` is
`<<"check", "put">>`), and each statement has an action that says what the database does
with it at one moment. `Contract(a)` derives from these rows how much of the promise of
`BaseRepository` adapter `a` keeps:

| | holds for | otherwise |
|---|---|---|
| `exclusive`: `create()` of an id that exists raises | the SQL adapters, Redis, FalkorDB, MongoDB, ChromaDB | Cassandra, Milvus, Qdrant, DynamoDB, InfluxDB write over it |
| `atomic`: `update()` and `delete()` test and act at one moment | the SQL adapters, Redis, FalkorDB, MongoDB, DynamoDB | Cassandra, Milvus, Qdrant, ChromaDB and InfluxDB rely on a row seen, or missed, earlier in the call |
| `snapshot`: page and total of `list()` are of one moment | MySQL, MariaDB | each row of the page, and each one missing from it, was so at some moment of the call |
| `faithful`: `update()` finds every row there is | all but MySQL, MariaDB | `rowcount` counts changed rows: an update to the values the row has returns `None` |
| `lasting` | all but Redis | `redis_default_ttl` |
| `entities`: `list()` counts entities | all but InfluxDB | `list()` returns and counts the points, one for each `create()` |

`local[c]` is what a call has read, `window[c]` a history variable: the tables there have been
during the call. InfluxDB's row of an id is the latest of its `points`. FalkorDB makes its
unique constraint before a repository's first statement, and remembers that it did
(`Prepared`, `MakeConstraint`, `Ensured`, `ensured`); until the database has it (`made`),
an insert of an id that exists makes a second node. `search()` of Milvus, Qdrant and
ChromaDB returns `Nearest` entities of one moment.

## Runs

| Run | Question | Bounds | Result |
|---|---|---|---|
| `kafka_consumer` | Is a message skipped, does the committed offset move back, does a stop request end the session? | 3 offsets (one may fail, one does not decode), 2 sessions, 2 closers, crash, driver errors | holds |
| `kafka_nack` | Is a failed message's offset never committed, as the docstring says? | same | violated |
| `kafka_reopen` | Is every client stopped by the time nobody refers to it? | no failing message, no crash, 2 sessions | violated |
| `kafka_errors` | Does `subscribe()` raise only adapter errors? | 1 session | violated |
| `nats_consumer` | At-least-once with redelivery and give-up; does an ended session close its connection? | 2 messages, 2 deliveries, 2 sessions, 2 closers | holds, with the exceptions the properties state |
| `rabbitmq_consumer` | At-least-once; is a message held back by a consumer that is gone? | 2 messages, prefetch 2, 2 sessions, 2 closers | holds, with the exceptions the properties state |
| `queue_producer` | What does a caller know about its messages; is a client left running; what is the plugin's status worth? | 3 brokers, direct or under a plugin, 2 tasks, 2 clients, a batch of 3 | holds |
| `producer_leak` | When the last call of `start()` or `close()` ends, is each client that is up still within reach of `close()`? | same | violated |
| `connection_cache` | When is a dead pool served, closed twice, leaked, opened twice; is a pool built as its user's settings say? | 3 tasks, 3 pools, 8 adapters; with differing settings 2 tasks, 14 adapters | holds |
| `db_lifecycle` | Does an orderly stop free the pool; is `STOPPED` reached? | a plugin and a repository, 2 tasks, 2 pools, 5 adapters | holds |
| `db_plugin_shutdown` | Does `shutdown()` of a plugin close the pool, as its docstring says? | one PostgreSQL plugin without a table | violated |
| `repository` | Does each adapter keep its contract in all interleavings, with timeouts and late effects? | 9 adapters (one of each kind), 2 keys, 2 repository objects, 2 entities, 3 calls, one of which may raise | holds |

Two of each kind of actor is the least that lets a second one interfere, and the
third task and pool of `connection_cache` let a creator meet two closers of an
earlier pool. Three offsets put a good message after each kind of failure, which is
when a commit passes a failed one. Two deliveries reach the give-up. More sessions,
pools or messages repeat these situations; calls of `publish()` do not write anything another
call reads, so one is enough; the theorems below remove the bounds for every property of
these runs that is not liveness.

The requests of `repository` are chosen so that an update on `k1` meets a second update, a
delete and a create of the same row, a `list()` meets two writers, and a document is deleted
before MongoDB reads it back. Three calls are needed for a row that is deleted and created
again under an update. Only `c2` may raise (`Impatient`), in front of either statement and
after it.

`CHECK_DEADLOCK FALSE` is set for the cache, lifecycle, producer and repository runs: there the
bounds (pools, clients, calls) are reached, and an application that makes no more
calls is a legal end. The consumers' runs check deadlock.

### Properties that hold, and their limits

- `CommittedIsSettled` (Kafka): an offset below the committed one was handled or
  reported to `nack()`, through rebalances, crashes, cancellation and `close()`.
  `CommitNeverRegresses`: the committed offset never moves back.
- `ImplementsAtLeastOnce` (all three): a message leaves the broker's debt only after
  its handler returned, or (Kafka) with a failed message, or (NATS) after
  `max_deliver` deliveries.
- `CloseEndsSession`, `StopRequestHonoured`: liveness; a session that has reached its loop and is
  told to stop ends, unless `close()` calls cross into it from another session. (Kafka: the session
  whose client the loop reads from is being stopped.) A stop requested during the set-up may be lost
  (below).
- `EndedSessionIsClosed` (NATS), `NothingHeldBack` (RabbitMQ): a session that reached its loop
  leaves no subscription or connection, and no unacknowledged message, behind, also while a
  `close()` is still suspended; the exception is a `close()` of another session that goes on to
  this one (`crossed`). A failed set-up is apart (below).
- `NeverServesDeadPool`, `DeadPoolIsDropped`: only an adapter that closes before it
  evicts serves a dead pool, only while a close is suspended on it or after one
  raised; a close that ends drops it.
- `ClosedByOne`: the adapters that evict first never close a pool twice.
- `OpenPoolIsCached`: a pool is lost or duplicated only by a race of creations
  (or with a close that closes first), or by a creation that was cut short. This names the cases
  and does not exclude them: two first calls lose a pool (below), and a creation that is cut short loses its
  client in Milvus, Qdrant, Redis and FalkorDB (the probe fails), Cassandra (the worker thread goes on) and
  InfluxDB (cancelled in the probe).
- `OrderlyStopFreesPools`: `shutdown()` of one port that has a repository, called after every
  other call has ended and followed by none, leaves no open pool, whichever port opened it;
  pools lost by a race or a failure (`OpenPoolIsCached`) are apart.
- `ShutdownSettles`: a plugin in `shutdown()` reaches `STOPPED`. An `initialize()` that is still under way may
  set `READY` afterwards; the repository says nowhere what the status should be then.
- `ImplementsOutbox`: messages of a call are accepted in order without a gap, a call
  that returns has had all of them accepted, and a call that raises leaves at most
  one message in doubt, which may still be accepted afterwards.
- `ReadyCanPublish`, `StoppedLeavesNoClient`, `StoppingEnds`: a queue plugin that is `READY` has a
  producer that can publish, one that has `STOPPED` has left no client up, also while calls of `publish()` are under way, and one that is
  `STOPPING` reaches its end. The first two need the calls of `initialize()` and `shutdown()`
  in order: a second `initialize()` replaces a producer that nobody closes, and a
  `shutdown()` while the first connects to NATS or RabbitMQ finds nothing to close, after
  which the plugin becomes `READY` with a client that stays up.
- `LiveClientIsKnown`: a producer's client is known to the object or to a task in `start()`/`close()`,
  unless these overlapped or failed. In the cases it leaves out a client may be lost: `NoClientLost`, below.
- `LostDuringBatch`: a call that ends in an `AttributeError`, since a `close()` has taken the client from it, has had a message
  accepted and leaves none in doubt; without a client from the start it is the documented `RuntimeError`.
- `ImplementsEntityStore`: every call of every adapter acts on the table once, between its begin and
  its answer (or after it, when it raised), as its contract says.
- `ServedAsConfigured`: a task works on a pool that was built from the values its own settings
  have, the password of Cassandra apart.
- `EnsuredIsMade`: no operation of FalkorDB runs on a graph without its constraint, whatever
  first calls overlap, fail or are cancelled.
- `LostBeforeReadBack`: `create()` of MongoDB ends in a built-in `TypeError` only when the
  document it stored was deleted before it was read back.

### Findings

Each of these runs checks one sentence of the repository, which the code does not keep.

- `kafka_nack`: `nack()` only logs. The next good message's `commit()` commits the
  consumer's position, which passes the failed message: it is never redelivered.
- `kafka_reopen`: a `close()` that is still awaiting `stop()` of the first session sets the
  field to `None` after the next `subscribe()` has stored its client there.
- `kafka_errors`: `close()` during `start()` makes `subscribe()` iterate over `None`, and a
  payload that does not decode reaches `nack(message)` with `message` unbound; both
  escape as built-in errors.
- `producer_leak`: `start()` of the NATS producer fails after it has connected, and drops the reference to the
  open connection. RabbitMQ does the same.
- `db_plugin_shutdown`: a plugin without a table has no repository, and its
  `shutdown()` leaves open and cached the pool that `initialize()` opened, whether that succeeded or
  failed afterwards.

More disagreements with what the repository says are in the model, without a run of their own. "Every adapter raises
only `AdapterError` subclasses — never raw driver exceptions" (`README.md:299`):

- MongoDB's `create()` ends in a `TypeError` when the document it stored is deleted before it is read back
  (`db/mongo/repository.py:324`, `FailReadBack`); `LostBeforeReadBack` shows that this is the only way.
- `close()` between two messages of a batch makes `publish_batch()` end in an `AttributeError`
  (`queue/kafka/producer.py:266`, `"builtin"` in `SendNext` and `SentLast`); `LostDuringBatch` says what is left.
- `close()` while RabbitMQ's `subscribe()` awaits `set_qos()` clears the channel the next line uses: an
  `AttributeError` (`queue/rabbitmq/consumer.py:185`, `QosReturns`). An error of the driver between the set-up and
  the loop (`:198`, `ConsumeFails`) leaves `subscribe()` as it is.

What is opened, and closed:

- `subscribe()` of NATS "runs until `close()` is called" (`queue/nats/consumer.py:172`), but a `close()` during its set-up
  finds nothing to stop, and `_running` is set afterwards (`:217`, `SubscribeReturns`): it runs on. RabbitMQ sets its flag
  after the set-up as well (`queue/rabbitmq/consumer.py:195`).
- It "then tears the connection down" (`queue/nats/consumer.py:86`), but a set-up that fails after `connect()` drops the
  reference to the open connection (`:219`, `SetupFails`). RabbitMQ does the same (`:189`).
- `close()` of each producer clears its fields after its await, over a client that a `start()` has stored there
  meanwhile (`queue/kafka/producer.py:172`, `ClearFields`). `NoClientLost` fails on this too, in a longer trace.
- "The pool created once, shared" (`README.md:287`): two first calls of `get_postgres_pool()` both create a pool
  (`db/postgres/connection.py:88`, `Miss`), and nobody can close the one that is overwritten in the cache.
- `_cache_key()` of Cassandra leaves `cassandra_password` out (`db/cassandra/connection.py:134`, `CassandraKey`), although
  "settings for the same contact points but different auth/keyspace/pool shape must not share a session"
  (`:129`): of two that differ in it alone the second is served the session of the first. `ServedAsConfigured` excepts this
  field, and with it the theorem `ServedAsAsked` says that it is the only one.
- `shutdown()` of a repository says it never raises (`db/postgres/repository.py:434`) and lets an error of the driver's
  close through, except in the Cassandra, Milvus and Qdrant repositories (`raised` in `DbLifecycle`).

And the answers of `update()`:

- MySQL and MariaDB return `None` not only "if no row was matched" (`faithful` above).
- Cassandra looks the row up first so that it does not create one (`db/cassandra/repository.py:387`), and a delete in
  between makes its UPDATE, an upsert there, bring the row back (`atomic` above).

## Fairness

Weak fairness is assumed of the steps that end an awaited call, never of calls the
application makes: the driver answers or its timeout expires (`connection_timeout`,
`operation_timeout`, and `close()` of a driver), handlers return or raise, and the
iterator of a stopped consumer ends. asyncio runs a task that can be resumed, in
FIFO order, so a step that stays possible is taken. Nothing is assumed of messages
that arrive, rebalances, failures, or `close()` being called.

## Proofs

Every invariant, every action property and every refinement of the passing runs is a theorem, for all
values of the constants.

| Module | Theorems (the property each states) | For every |
|---|---|---|
| `KafkaConsumerProofs` | `TypeCorrect`, `NoMessageSkipped` (`CommittedIsSettled`), `CommitMonotone` (`CommitNeverRegresses`), `Refinement` (`ImplementsAtLeastOnce`) | log length, set of poison and failing messages, number of sessions and closers |
| `NatsConsumerProofs` | `TypeCorrect`, `EndedSessionClosed` (`EndedSessionIsClosed`), `Refinement` (`ImplementsAtLeastOnce`) | set of messages and closers, `max_deliver`, number of sessions |
| `RabbitmqConsumerProofs` | `TypeCorrect`, `NoMessageHeldBack` (`NothingHeldBack`), `Refinement` (`ImplementsAtLeastOnce`) | set of messages and closers, prefetch, number of sessions |
| `QueuePluginProofs` | `TypeCorrect` (`PluginTypeOK`), `NoClientForgotten` (`LiveClientIsKnown`), `ReadyMeansReady` (`ReadyCanPublish`), `StoppedMeansStopped` (`StoppedLeavesNoClient`), `AttributeErrorIsSettled` (`LostDuringBatch`), `Refinement` (`ImplementsOutbox`) | broker, number of tasks, clients and calls, size of batch, with a plugin and without |
| `ConnectionCacheProofs` | `TypeCorrect`, `DeadPoolsServed` (`NeverServesDeadPool`), `EvictionIsExclusive` (`ClosedByOne`), `LeaksNeedARace` (`OpenPoolIsCached`) | way to create and to evict, set of tasks, number of pools |
| `ConnectionSettingsProofs` | `ServedAsAsked` (`ServedAsConfigured`), `SomebodyAskedForIt`, `KeyCoversClient`, `SettingsUsesCache` | of the fourteen adapters, field two settings differ in, set of tasks, number of pools |
| `DbLifecycleProofs` | `PortsTypeCorrect` (`PortsOK`), `OrderlyStop` (`OrderlyStopFreesPools`), `LifecycleUsesCache` | as for the cache, and set and kind of ports |
| `RepositoryProofs` | `TypeCorrect`, `ConstraintInPlace` (`EnsuredIsMade`), `OnlyADeleteLosesIt` (`LostBeforeReadBack`), `Refinement` (`ImplementsEntityStore`), `ProgramsFit` | of the fourteen adapters, finite set of keys and of calls, values, requests, tables |

None of these properties but the types is inductive. In each module `IInv` (`SettingsInv`,
`LifecycleInv`) is the inductive invariant, a conjunction of parts with a name and a lemma each; the
lemma goes through the actions. What the parts say, and why they are needed:

**Kafka.** A commit is of the position, so the invariant must say that everything between the
committed offset and the position of the present owner is settled, except the message being handled
(`PositionInv`); that needs to know which handle the loop reads from, whether that is the owner, and
that a position starts at the committed offset (`HandleInv`).

**NATS.** `SessionInv`: only the session that is in its loop or its `finally` block has a
subscription, and until its connection is closed `self._nc` refers to it, unless a `close()`
crossed. So the `finally` block closes the connection it means to close. `DeliveryInv` ties the
server's view of a message to the handler's: acknowledged only when handled, given up only after the
last delivery.

**RabbitMQ.** `FreshInv`: a connection that is not made yet is named by no field and no `close()`.
`HoldingInv`: an unacknowledged message is on a channel that consumes. `ChannelInv`: only the
current session consumes, and while its channel is open `self._channel` refers to it. `CursorInv`:
the raw message that `ack()` settles is the one the handler has returned for.

**Producers and plugins.** A client is *spoilt* when its `start()` or `close()` overlapped another
call or failed. `FlightInv` and `OverlapInv`: the task that starts or closes an unspoilt client is
alone, and the fields of its object are what this task has left there; where two tasks are at work,
both clients are spoilt, and so is everything their objects refer to. `AliasInv`: the field an
object publishes through refers to the client of the other field. For a plugin, `ManagedInv` adds
that each object has a client of its own, that only the latest may be up and unspoilt, and that the
status tells where its task is. `PublishInv` says how far a batch is; the refinement of `Outbox`
follows from it alone, which is why `start()` and `close()` cannot disturb it.

**Cache.** `OneOwner` says which states a held, a cached and an absent pool can be in and that a
pool held for creation or for an exclusive close has one holder; `Races` says that two pools which
are neither contended nor faulted are never both being created, and that a closer of a close-first
adapter which could pop a good pool has made it contended. Every property needs both.

**Settings and lifecycle.** Each step of these modules is a step of the cache or leaves the cache
alone (`SettingsUsesCache`, `LifecycleUsesCache`), so the theorems about the cache hold for them.
`ServedAsAsked` then rests on `KeyCoversClient`, a fact of the table of fields: an adapter builds
its client from nothing that is not in its key, Cassandra's password apart. `OrderlyStop` needs to
follow the calls of `shutdown()`: `Undisturbed` (as long as only they run, they close the pool that
is in the cache) and `Released` (once one of a port with a repository is over, the cache is empty or
holds a pool whose close raised).

**Repositories.** The actions of the database are treated by what they have in common (`Executes`:
what any statement leaves alone; `Does`: what each kind of statement does), so that each part of the
invariant has one short lemma. `FoundInv`: when the first statement of an `update()` or `delete()`
has found its row, the row was there at a moment of the call. `ListInv`: what a `list()` has read so
far lies between the rows that stayed throughout the call and those seen during it, the keys still
to be read included. `PointInv` (InfluxDB): every point's time belongs to one `create()` of one id,
so that an `update()`, which rewrites the latest point, adds nothing to the total. `ReadBackInv`
(MongoDB): while a stored document is to be read back, it is there or a `delete()` has removed it.
`MadeInv` (FalkorDB): a repository, or a call that has sent a statement, goes on only when the
constraint exists. The refinement goes by kind of statement: a statement is the moment its call
takes effect, or a call that has found, or missed, its row earlier takes effect as the contract
without `atomic` allows; answers and calls map to the abstract answers and calls.

### Assumptions

They are the named `ASSUME`s of the modules; TLC evaluates each of them on its run. All but three
only give types to the constants, and say that "no message" is not a message. `RepositoryAssumption`
also says that there are finitely many keys and calls (a page is counted), and that "no row" is no
value. `ProgramsAssumption` says which statements go together in one adapter (`Fits`: an adapter
that looks a row up before it updates it does so before it deletes it, and the like) and that rows
expire only where `create()` is a plain insert or put; `ProgramsFit` proves of the rows of all
fourteen adapters in `RepositoryAdapters` that they fit. `SettingsAssumption` takes the adapters
from the table of `SettingsFields`.

### Only model-checked

`CloseEndsSession`, `StopRequestHonoured`, `StoppingEnds`, `ShutdownSettles` and
`DeadPoolIsDropped` are liveness: they rest on weak fairness, hence on `ENABLED`, which this prover
does not handle. That the findings' properties are violated is shown by TLC's counterexamples.

## What is left out, and assumptions

- A second cancellation of a task that is already in its `finally` clause.
- In `NatsConsumer` and `RabbitmqConsumer`, copies of one message waiting in the
  iterator's buffer are merged.
- aiokafka: a `start()` whose client was stopped meanwhile leaves it stopped.
- Drivers whose pool is created by one awaited call clean up after a failure of
  their own; a driver's `close()` may take any time, and users of the pool do not
  hold it up. A driver publishes a message at most once per send.
- One cache key: pools of different keys share nothing but the dictionary.
- The probe of `DbLifecycle` stands for `_ensure_ready()` of FalkorDB too, which `Repository` models.
- `traverse()` of FalkorDB runs the Cypher query its caller gives it, without `_ensure_ready()`: not modelled.
- Repositories: the database executes a statement at one moment, and a transaction that ends in
  `commit()` counts as one; the user's table has a primary key; a read of MySQL and MariaDB sees one REPEATABLE READ
  snapshot, and their driver counts changed rows (both defaults); `add` of ChromaDB raises on a
  duplicate id, as the docstring of `create()` says; `SCAN` of
  Redis returns a key once; the entity does not bring a time of its own to InfluxDB. `list()` is given a limit above
  the size of the table.
- Settings: two settings objects differ in one field; `connection_timeout` stands for the fields that bound
  calls. A field that is in the key and not used (`cassandra_local_dc`) only makes more entries.
- Errors a caller sees are told apart as adapter (or driver) errors and built-in ones, in the producers, the consumers
  and the repositories; which adapter error a driver's error becomes (`_wrap_*`, `queue/nats/errors.py`) is not modelled.
- Not modelled: `scripts/check_adapter_checklist.py`, a static check in CI; openframe-core, which is not in this
  repository; the meta package; formatting of errors and logs, trace headers, parsing of connection
  strings and settings, the data in rows and messages.

## Plan

1. (done) Consumers, cache, lifecycle, producers and repositories; proofs for Kafka and the cache.
2. (done) `QueuePlugin` around `QueueProducer`; `ConnectionSettings`; FalkorDB's constraint, `search()` and
   InfluxDB's points in `Repository`.
3. (done) Proofs of every invariant, action property and refinement the runs check.
4. `list()` with limits below the table's size, in `Repository` and its contract.
5. Theorems about what the abstract specifications promise (`AtLeastOnce`: what is no longer owed was handled or
   may be given up; `Outbox`; `EntityStore` with every clause of the contract), so that a reader can take
   them from there.
