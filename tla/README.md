# Formal models of alebus

TLA+ specifications of the concurrent and stateful parts of the alebus backend: the MQTT
ingestor (ordered acknowledgements, bounded queue, connection handling, heartbeat), the
journey, bus, user and route aggregates with their command handlers and repositories, the
provisioning of tracker devices, push notifications, live streams and Redis backups. TLC
checks every model on a small instance; TLAPS proves, for every size, every safety property
that a passing run checks, the refinements of the queue and of the journey lifecycle among
them. Source paths below are relative to `src/`.

## 1. The system and its parts

alebus tracks buses for passengers. Trackers publish positions over MQTT; an *ingestor*
takes them off the broker, queues them for workers and acknowledges them in order. A
*backend* keeps buses, routes, users and journeys in Postgres, each as an aggregate behind
load/change/save command handlers, streams live updates over SSE, and sends push
notifications. Redis carries live state. The worker pool, the Lua scripts, the resolver,
the journey automation and the commands that wire everything together are not part of the
public repository (`infrastructure/redis/NOTICE.md` and its siblings); in the models they
are the environment that calls the code that is there.

| Part | State it keeps | Operations | What is hard | What makes it correct |
|---|---|---|---|---|
| ACK manager, `infrastructure/mqtt/ack_manager.go` | next sequence to assign and to acknowledge, map of pending entries, stopped flag | Register, Complete, UpdateRetryToAck, Flush, FlushLoop, Stop, two evictions | workers finish out of order; eviction by size and by age punches holes | PUBACKs in order, only for decided messages, nothing lost, bounded, never wedged |
| Work queue, `infrastructure/mqtt/queue.go` | ring buffer, bus → queued item map, closed flag, counters | Enqueue, Dequeue, TryDequeue, Close | condition variable plus helper goroutines plus contexts; a map of pointers into the ring | FIFO per queue, a taken item is nobody else's, workers are woken |
| MQTT client, `infrastructure/mqtt/client.go` | connection state, current ACK manager, stopped flag | Start, Stop, connection callbacks, AckMessage | callbacks race Start, its context and Stop; late reports reach a new manager | a live manager is flushed, a stopped client holds nothing; messages settle; acknowledgements are about what was processed |
| Reconnect backoff, `client.go` 297-315 | attempt count (in autopaho) | the backoff function | int64 overflow after a long outage | between minimum and maximum |
| Heartbeat, `infrastructure/mqtt/heartbeat.go` | started, stopped, cancel function, last counter and time | Start, Stop, Touch, loop | unlocked fields between two atomics; Redis expiry | key survives a failure; Stop returns |
| Journey aggregate, `domain/aggregates/journey*.go` | status, active bus, recommendations, proximity level, declines, expiration, boarding window | 11 methods | long legal sequences; a passenger racing the timeout | status, level and window agree |
| Journey handlers and repository, `application/journey/mgmt`, `infrastructure/repositories/journey_repository.go` | a row with a version | load, apply, save | handlers race on copies | no lost update; the row follows the lifecycle |
| Device provisioning, `application/bus/usecase/device_*.go`, `infrastructure/repositories/bus_device_repository.go` | device table, broker ACL | Provision (with rotation), Revoke | five calls to two systems, no transaction, errors dropped | one active device per bus; the caller's device works; nothing usable left behind |
| Bus and User with handlers and repositories, `domain/aggregates/bus*.go`, `user*.go` | a row with a version each; position, terminal, status; subscription, saved locations | 5 commands on a bus, 6 on a user, creation, roster queries, stream authorisation | handlers race; rehydration repeats the checks of creation, against a later clock | no lost update; which rows can be loaded |
| Route with handlers and repository, `domain/aggregates/route*.go`, `infrastructure/repositories/route_repository.go`, `stop_geo_repository.go` | a row with a version, stops with cumulative distances; the stops table | 7 commands, creation, queries by time, place and journey | two tables without a transaction, one of them shared by all routes; distances where zero means "not set" | the stops table follows the row; no lost update; loads are stable; SQL and aggregate agree |
| Push, `application/user/usecase/push_*.go`, `infrastructure/push/expo_sender.go` | device tokens, preference | register, revoke, send in batches, revoke what the provider calls invalid | retries of what may have been done; partial failure; registrations in between; tokens stored untrimmed and reported trimmed | revocations follow the report; deliveries are bounded; a send ends |
| Live streams, `api/http/sse.go`, `application/bus/usecase/stream_*.go` | number of active streams, one goroutine and channel per stream | Acquire, Release, filter loop | compare-and-swap at the limit; a goroutine blocked when the client leaves | never above the limit, nothing leaked, exactly the updates asked for |
| TypeScript client, `api/clients/ts/src/sse.ts` | connection state, last event id | connect, reconnect | timers against late events | backoff, no event lost silently |
| Redis backup, `infrastructure/redis/backup.go` | calls that poll the server; a directory of files | create (AOF, RDB), list, latest, delete, clean up, verify | another client's background save, seconds, failures, restarts | a reported success is a fresh file; the latest is the newest; calls return |
| Redis failover listener, `infrastructure/redis/sentinel_client.go` | listener, health | listen, check | – | – |
| Transactions, read models, HTTP middleware, metrics, logging | – | single calls, queries, filters | – | – |

How they interact: `client.go` owns one `AckManager` at a time and replaces it on
reconnects; it hands messages to a handler (omitted) that puts them into the
`BoundedQueue`; workers (omitted) dequeue them and call `AckMessage` or
`UpdateRetryToAck` on the client, which passes them by sequence number to whichever
manager is current. The heartbeat runs beside them. Command handlers share nothing but
the database row and its version column. Provisioning shares the device table and the
broker's access list. A route save writes two tables; a push send reads preferences and
tokens, asks the provider and writes tokens; a stream is admitted by the limiter after the
authorisation has loaded the bus; backups share the Redis server with everybody.

## 2. Modules

| Module | Models | Composes or uses |
|---|---|---|
| `AckManager` | `ack_manager.go` | – |
| `AckManager_proofs` | its theorems | extends `AckManager` |
| `CoalescingFifo` | abstract: what the queue promises | – |
| `BoundedQueue` | `queue.go` | refines `CoalescingFifo` |
| `MQTTClient` | `client.go` with the workers and autopaho as environment | instantiates `AckManager` |
| `MQTTClient_proofs` | its theorems | extends `MQTTClient`, instantiates `AckManager_proofs` |
| `ReconnectBackoff` | the backoff function of `client.go` | – |
| `Heartbeat` | `heartbeat.go`, with Redis and the clock as environment | – |
| `Heartbeat_proofs` | its theorems | extends `Heartbeat` |
| `JourneyLifecycle` | abstract: status and version of one journey | – |
| `Journey` | aggregate, handlers, repository | refines `JourneyLifecycle` |
| `Journey_proofs` | its theorems | extends `Journey` |
| `MCJourney` | symmetry of `Journey` for TLC | extends `Journey` |
| `Bus`, `User` | the aggregates, their handlers and their statements, as operators | – |
| `AggregateStore` | handlers racing on a row of either table | extends `Bus` and `User` |
| `AggregateStore_proofs` | its theorems | extends `AggregateStore` |
| `Route` | the route aggregate and its handlers, as operators | – |
| `RouteRepository` | handlers racing on a route and on the stops table | extends `Route` |
| `MCRouteRepository` | stops, lists and periods for TLC | extends `RouteRepository` |
| `DeviceProvisioning` | both use cases, the table and the broker | – |
| `PushNotifications` | tokens, preference, sender, provider | – |
| `Devices_proofs` | theorems about both | extends `DeviceProvisioning` and `PushNotifications` |
| `LiveStreams` | limiter, filter goroutine, source and client | – |
| `MCLiveStreams` | updates and requests for TLC | extends `LiveStreams` |
| `Channels_proofs` | theorems about queue and streams | extends `BoundedQueue` and `LiveStreams` |
| `RedisBackup` | the backup manager and the server it asks | – |
| `Storage_proofs` | theorems about backups and routes | extends `RedisBackup` and `RouteRepository` |

`Channels_proofs`, `Devices_proofs` and `Storage_proofs` each hold the proofs of two related
components (what passes through a channel; devices and their tokens; what is stored and read
back) that share no state and no action. `LiveStreams`, `PushNotifications` and `RouteRepository` name their specification for that
reason `StreamSpec`, `PushSpec` and `RoutesSpec`, with initial states, next-state relation,
types and inductive invariant named alike.

Operators named `Bug_…` stand next to the definition they distort. They are the mutants
of `PROJECT.json`: each is a plausible slip in the code (a dropped guard, a missing
reset) and breaks the property it is listed with, which shows that the property depends
on that line. No specification uses them.

### AckManager

`nextRecvSeq`, `nextAckSeq`, `pending` and `stopped` are the fields of the struct.
`am.mu` is held through every method, so every method is one action, including the part
of `Register` that evicts the oldest entry and the part of the eviction tick that
advances over holes. `Flush` collects the run of consecutive releasable entries from
`nextAckSeq` and acknowledges them before it returns; `acked` is the sequence of PUBACKs. Ages count ticks up to one
past the timeout. `acked`, `evicted` and `verdict` (the last accepted report per message)
are history. The statistics counters are left out.

### BoundedQueue and CoalescingFifo

A `WorkItem` is named by the sequence number it was created with; `payload[s]` is the
message whose payload it carries now, which coalescing changes in place. Methods hold
`q.mu`, except in `cond.Wait`: `Dequeue` is cut there. Each wait starts a helper goroutine
that broadcasts when the context is done; `helpers` and `released` follow these goroutines
because a helper may still broadcast after its wait has returned. `dropPolicy` is the
constructor's argument, chosen in the initial state. The refinement maps the slots from
`head` to the abstract queue.

### MQTTClient

The variables of `AckManager` are those of the manager `c.ackMgr` names; `gen` counts
managers. A callback is one action. `Start`, which is called once, is cut at everything it
shares with callbacks and `Stop`: the state, the manager, `NewConnection` (from which
autopaho runs), `c.cm`, the wait, the flush loop, the state again; both its error returns
are actions (the server URLs parse, since `Validate` has parsed them). `Stop` is cut in the
same way, so a `Stop` that overtakes `Start` may find no manager and no connection. The
context of `Start` may end at any time: autopaho then ends, and so does the flush loop that
`Start` began (`FlushLoopEnds`), without its manager being stopped; the loops of later
managers have a context of their own. `link` is what autopaho knows: nothing yet, down,
opened (CONNACK received, callback not yet run), up, ended. `onPublishReceived` reads
`stopped` and registers in one step; between the two a `Stop` would only be met by a manager
that is stopped and refuses, or by none. `inflight` holds messages whose
worker has not finished; a worker may report after its message's manager was replaced.
`c.ackMgr` is read without a lock: a worker whose message belongs to an earlier manager
may act on the current one or on one that was replaced, where the report is lost
(`ReadsReplaced`). The
subscription sets nothing but `lastError` and is left out, as are TLS and statistics.

### ReconnectBackoff

The minimum is `MinOdd * 2^MinExp` nanoseconds (the default minimum of one second,
which the instance takes, is 1953125 · 2^9), so the int64 product of the shift can be followed
exactly by the bits left to `MinOdd`, without 64-bit numbers in TLC. The result is counted
in minimums, with -1 for a negative duration.

### Journey and JourneyLifecycle

Each method of the aggregate is an operator from a journey to the set of journeys it can
leave behind, empty for an error. A handler loads and applies a method in one action and
saves in another. Between them anything may happen. Merging load and method is sound
because a save succeeds only if the version is still the loaded one. The `UPSERT` stores
version + 1. Locations, directions and distances other than the thresholds of
`NextProximityLevelForDistance` are left out; a recommendation list is its buses in rank
order. `ShouldUpdateRecommendations` lets a list through whose first bus is not the active one,
as after `SwitchBus` to a lower rank, or that differs (`hasSignificantChange`; an arrival
time that moved makes no other difference to the list that is kept). Domain events are not modelled: every loaded journey has a recorder that drops
them. The creation of a row that already exists conflicts as in the code.

### DeviceProvisioning

One bus, and a set of concurrent requests of any kind. Every call to the table or to the
broker is an action of its own and may fail before or after it took effect; the process
may die between two calls. `Create` respects the partial unique index of
`infrastructure/migrations/000008_create_bus_devices_table.up.sql`. A broker is
configured. Usernames, passwords and hashes are left out: a device is named by the
request that creates it.

### Heartbeat

Every access to shared memory or to Redis is one action: `Start` sets its flag, then its
cancel function, then adds to the wait group; `Stop` sets its flag, cancels what it finds,
then waits; `Touch` takes the time, reads the counter, computes, writes, stores. Times are
kept by order only (`newest`, `ahead`), which is all the sign of `elapsed` depends on, and
the throughput is taken over one unit of time. `keyAge` follows the expiry of the key.
A statistics provider is configured. A Touch of the loop takes less than one tick.

### Bus, User and AggregateStore

As in `Journey`, a method is an operator from an aggregate to the set of aggregates it can
leave behind, empty for an error, and a handler loads and applies in one action and saves
in another. Commands carry inputs the checks accept and inputs they refuse. `RehydrateBus`
and `RehydrateUser` go through the constructors, with the constructors' checks, as the code
does. The behaviours of the two tables never meet, so `kind` picks one of them in the
initial state.

### Route and RouteRepository

A stop is its identifier, its place and its cumulative distance. Places lie on a line, so that
the distance on the sphere is a difference of numbers; a cumulative distance of 0 is "not set"
as in the code. The stops table is keyed by stop and shared by all routes: at any time another
route may be saved with one of `OtherStops` and overwrite place and distance of its entry
(`OtherRouteSyncs`); `version` is a ghost of an entry, 0 when another route wrote it last.
`Save` writes the row; the statements
of `syncStopsToGeoTable` then follow one by one, each an action, interleaved with the other
handler's, and the first that fails ends the synchronisation with a warning. `gap` is a
ghost that says whether the stops table has an excuse for lagging behind: a failed or an
overlapping synchronisation that no later one has repaired.

### PushNotifications

One user with several devices. A send is cut at every query, post, wait and revocation.
A token is the installed application it belongs to and whether the device sent it with blanks
around it: it is stored and looked up like that (`ByToken`) and reported without them
(`TrimSpace`), so a report may name no listed token, which is skipped, or that of another
device. The provider accepts a batch and calls any of the dead or padded tokens invalid (or,
with wrong credentials, all of them, which the sender treats alike), refuses it, or does not
answer, in which case it may or may not have delivered. Devices register, revoke and are
uninstalled at any time. `flagged`, `revoked`, `missed` and `copies` are history; `renewed`
and `wrong` are ghosts that compare what a send revokes with what it listed.

### LiveStreams

The limiter's load and its compare-and-swap are separate actions. The goroutine of
`StreamLiveBusUpdates` is cut at its two `select` statements; the output channel has its
capacity as a parameter. The handler that reads it, the source and the client are not in
the repository: the handler takes what is in the channel, ends when the channel is closed
or the client has left, and releases its slot.

### RedisBackup

The server has one child at a time and a LASTSAVE in seconds; anybody may start a child,
it may fail, the server may restart. A call reads LASTSAVE (possibly in vain), triggers,
and polls until its deadline. The file a success points to is copied by an operator, since
the code copies nothing. What a file holds is the number of writes it has seen.

## 3. Runs

Every run is a line of `PROJECT.json`; run it with `tlc -config <cfg> <module>`.

| Run | Bounds | What it shows |
|---|---|---|
| `ack_manager` | 4 messages, 3 entries, timeout 1 | no PUBACK overtakes or is undecided, no number is lost, and no hole blocks the flush loop |
| `queue` | 3 messages, ring of 2, 2 workers, 2 buses and the empty one, both policies | ring, map and counters agree, payloads are the newest, refinement of the FIFO, wake-ups |
| `mqtt_client` | 2 connections, 2 messages per manager, 2 entries, timeout 0 | order per manager, flush loops, nothing held after Stop, the one cause of a misdirected PUBACK, settlement |
| `backoff` | the default configuration, 70 failures | violated: from the 35th consecutive failure the wait is negative, later zero |
| `journey` | 2 handlers, 2 buses, 1 decline, 3 moments, 7 saves | consistency of the row, serial saves, refinement of the lifecycle |
| `aggregates` | 2 handlers, 1 operator, 2 names, 2 addresses, 2 locations, 3 moments, 4 saves | consistency of the row, serial saves, which buses vanish from the streams, and that a row that cannot be loaded stays so |
| `routes` | 2 handlers, 3 stops, lists of up to 3, 2 stops of another route, 2 periods, versions up to 4 | how the stops table follows, serial saves, stability of loads, agreement of queries |
| `push` | 2 devices, 2 applications, one of whose tokens may be padded, batches of 1, 1 retry | whom a send revokes, how often it delivers, that it ends |
| `streams` | 2 requests, limit 1 or none, 2 buses on 2 routes, 3 filters, channel of 1, 2 updates each | the counter, what is delivered and in which order, that slot and goroutine are given back |
| `backup` | 1 call at a time, timeout and retention of 1 s, 3 s, 1 write, 2 files | freshness of a success, the latest file, that a call returns |
| `device_provisioning` | 3 requests, 2 faults | one active device, callers' devices live, one fault leaves nothing usable |
| `heartbeat` | TTL 5, interval 2, 1 consecutive failure, 2 messages | presence of the key, throughput, return of Stop |

Why these bounds are enough to meet the interesting cases. In the ACK manager four
messages and three entries give a size eviction while younger entries are in every state,
and a hole behind a blocked head. In the queue, three messages wrap a ring of two, overflow
it and merge, and two workers give one that is woken for an item another one takes. In the
client, two connections give one replacement of the manager and one stale generation, and two
entries a successor that is decided before the one it would overtake; the eviction by size,
which needs a third message, is left to the run of the manager alone. Seven saves of a journey reach a
boarding, a completion, and a decline followed by a second approach; two handlers are
what a race needs. Three requests give two that race for what a third one left. The
heartbeat's times keep the documented relation `UpdateInterval < TTL/2` in its tightest
form. Two handlers on a bus or a user give a save between the load and the save of the
other, a third moment lets a subscription lapse while a copy is held. Three saves of a
route give a synchronisation that overlaps another and one that repairs it, and lists of
up to three stops a route that a stop is added to, in front, within and at the end, and
removed from. Of the stops it shares, the other route has one at another place and distance
and one that agrees; the first period has a moment inside, so that `IsActive` is true of some
moment and false of both ends. Batches of one make two devices two batches, of which the
second may fail; two devices may share a token, or have it once padded and once not. Two
requests race for one slot; a channel of one fills when a second update is taken, and one of
the filters lets two different updates through, so that their order shows, while the others
refuse one by its route or its bus. One write makes a backup stale or fresh, two seconds of
calls make two files of which one is newer, and the third second is the deadline of the
last call. `Word` stands for 2^64: the property only needs it to be above every counter.

Deadlock checking is off where the program may come to rest: everything offered has been
handled, every request has ended, the client has stopped, the bound on versions is reached.

### Fairness

Weak fairness is assumed of code that a goroutine runs when it is scheduled: the flush
loop's ticks and the clock that makes entries old, `Dequeue` and the helper goroutines,
the remainder of `Start` after the connection and of `Stop`, callbacks of an opened
connection, the heartbeat's loop. That the context of `Start` ends, or that autopaho does, is
not assumed. Strong fairness is assumed of one step, the heartbeat loop's `ctx.Done()` branch: Go's
`select` chooses uniformly among ready cases, so a case that is ready at every round is
taken. In `PushNotifications` the steps of a started send are fair, as the HTTP client has a
timeout and the waits are bounded. In `LiveStreams` the goroutine and, for the handler
outside the repository, its reaction to a closed channel or a client that left. In
`RedisBackup` the clock, the ticker of a waiting call, and an answer to the command that
triggers the save: nothing is assumed of the save itself. Nothing is assumed of producers, of
passengers, of workers' reports, of the broker or of Redis.

## 4. Proofs

Each `_proofs` module proves an inductive invariant of its component (`IInv`, or `StreamInv`,
`PushInv`, `RoutesInv`), the properties that follow from it, and the lemmas both rest on: one
per action, and one per operator the actions are built from. The invariant is defined in the
component's own module, so that TLC can check it. The theorems hold for every value of the constants that the named `ASSUME`s allow;
the bounds of section 3 play no part in them.

| Module | Properties of runs it proves |
|---|---|
| `AckManager_proofs` | `NoAckOvertakes`, `AckedWasDecided`, `Accounted` |
| `Channels_proofs` | `QueueSound`, `PayloadsNewest`, `ImplementsFifo`; `LimiterCountsStreams`, `StreamsWhatWasAsked` |
| `MQTTClient_proofs` | `ManagerFollowsClient`, `ConnectionAcksInOrder`, `OnlyStaleReportsMislead` |
| `Heartbeat_proofs` | `KeySurvivesOneFailure`, `ThroughputIsProgress` |
| `Journey_proofs` | `PromptIsBacked`, `BoardedAfterArrival`, `ProposedLevelIsAccepted`, `SavesAreSerial`, `ImplementsLifecycle` |
| `AggregateStore_proofs` | `RowsAreSound`, `OnlyBadStopIndexHides`, `SavesAreSerial`, `StrandedForEver` |
| `Devices_proofs` | `OneActivePerBus`, `ReportedDeviceLives`, `FailedDeviceIsUnusable`; `RevokesFollowReport`, `CopiesBounded` |
| `Storage_proofs` | `SuccessIsFresh`, `LatestIsNewest`; `GeoFollowsRoute`, `LoadsAreStable`, `SavesAreSerial` |

### The acknowledgement manager

`AckManager_proofs` proves, for every `MaxSeq`, `MaxPendingSize` and `PendingTimeout`
allowed by `AckManagerAssumption`: the inductive invariant (`IInvHolds`), type
correctness, ordered PUBACKs, no overtaking, only decided messages acknowledged, every
sequence number accounted for, the bound on the pending map, and the finality of Stop.

None of the safety properties is inductive alone. `IInv` adds two facts. `Window`: the
pending entries lie between `nextAckSeq` and `nextRecvSeq`, and everything acknowledged
lies below `nextAckSeq`; it is what makes appending a run to `acked` keep the order and
what makes skipping a hole safe. `VerdictKept`: a completed entry carries the worker's last
accepted report; it carries decisions from `Complete` to `Flush`. The proof has one lemma
per action; `Register` rests on cardinality facts for the eviction at the bound, `Flush` on
`RunProperties`, which says that what it sends is the consecutive run it removes. The runs
check `NoAckOvertakes`, `AckedWasDecided` and `Accounted`, which these theorems state; type
correctness, the order, the bound and the finality of Stop are proved and no longer run.

### The queue

Assumed: a positive capacity, and that `Nil` is no message. `IInv` adds to `QueueSound` what
ring, map and counters do not say of the payloads. `InArrivalOrder`: the slots from `head`
hold messages in the order of their arrival, each once. `CarriesNewer`: an item carries its own
message or a later one of its bus. `TakenIsOlder`: what is still queued for a bus is newer
than all that was taken for it; this is what a removal needs to keep `PayloadsNewest`, and
merging keeps it because a merged payload is the newest of all. The arithmetic of the ring is
in lemmas about `Slot`: positions within the capacity are distinct modulo it. The proof that
the ring implements `CoalescingFifo` shows that an insertion appends to `QueuedItems`, a
merge replaces one payload in it, a removal takes its head, and that sleeping, waking and
broadcasting change nothing of it.

### The client

The client's specification runs the manager's actions through `INSTANCE AckManager`, and its
proofs take the manager's lemmas through `INSTANCE AckManager_proofs`, whose assumptions are
part of `MQTTClientAssumption`: a step of the manager keeps the manager's `IInv` within
the client as it does alone. What remains is that a replaced manager starts from its initial
state. `ClientSound` relates connections, managers and flush loops. Two parts make
`ManagerFollowsClient` inductive: a loop ends only when its manager is stopped or, for the
first manager, when the context of `Start` has ended; and once `Stop` has been to the manager
nothing is held, since nothing is registered by a stopped client, even where a late reconnect
or a late `Start` makes a manager that nobody stops.
`ReportsBacked` says of every accepted ACK, not only of those that were sent, that a worker
finished the message or that the report was stale; `OnlyStaleReportsMislead` follows from it
with `VerdictKept`.

### The heartbeat

`KeySound` accounts for the age of the key: one interval per failure in a row, plus the timer
of the sleeping loop. `KeySurvivesFailures` needs only that the time to live exceeds one
interval more than the failures in a row, for any number of failures; `KeySurvives` is the
case of one failure, for which `HeartbeatAssumption` (the documented
`UpdateInterval < TTL/2`) is enough. `RateSound` says that as long as no two calls of Touch
have overlapped, `lastProcessed` is at most what the running call has read, so that the
unsigned subtraction cannot wrap. `Word` is any number above `MaxProcessed`.

### Journeys

`Journey_proofs` proves type correctness, `SavesAreSerial` and the refinement of
`JourneyLifecycle`, for any number of handlers, buses, moments and versions. It assumes
`JourneyAssumption` (the bounds are numbers, the clock's durations too) and
`NilAssumption` (`Nil` is no journey). `IInv` adds two facts to the types: a stored row has
been saved at least once, and `CopiesAreCurrent`, that a held copy with the row's version
is the outcome of its command on that very row. The second is the one that makes the
invariant inductive: loading establishes it, and a save raises the row's version past every
other copy, so that those copies are no longer bound by it and can no longer be saved.
One lemma per method of the aggregate shows that it keeps the record's type and version
and changes the status along an edge of the lifecycle; with `IInv` each save is then
serial and a step of `JourneyLifecycle`.

`JourneysAreSound` is a second inductive invariant, over the row and every held copy: prompt
and boarding are backed, and no boarding window was opened in the future. The last part is
not in the properties; without it a boarding could precede its window. One lemma per method
shows that it keeps `Sound`. `ProposedLevelIsAccepted` follows from it and the types, by the
cases of `NextProximityLevelForDistance`.

### Buses and users

The argument for serial saves is that of `Journey`: a first save stores version 2, so no
created copy can replace a row, and a loaded copy with the row's version was made from that
row. `Sound` adds what the commands keep (a valid position, an arrival time exactly at a
terminal) and holds of copies too, since a copy becomes the row. The commands on saved
locations need facts about bounded sequences (`Append`, `RemoveAt`, `ReplaceAt`, and that a
least position exists), which are lemmas. `OnlyBadStopIndexHides` then says which of the
checks of `NewBus` a sound row can fail: one. `StrandedForEver` is an action property: every
command loads first, and a later clock makes no lapsed subscription valid. Assumed:
`AggregateStoreAssumption`, `BusAssumption` and `UserAssumption` (bounds and moments are
numbers).

### Devices

Assumed: `Nil` is no call, and there is at least one call (without calls there is no device
to speak of, and the second half of `OneActivePerBus` would be false). The index of the
table makes `Create` keep two active devices apart. `SomeoneWillCreate` carries the other
half: without faults and revocations, a bus without a device has a call that will still
create one. `CallSound` bounds what a call was told, may undo and has registered at the
broker by how far it has come; `FailedDeviceIsUnusable` rests on its third and last part,
that only a fault leads to an undo and that the broker knows no device before its call has
asked.

### Backups

`WillBeFresh` is the reason why a call that is not excused cannot end its polls too early: its
rewrite runs or has replaced the file; a background save that LASTSAVE will count began
after the call. It is inductive with `ServerSound`, files never ahead of the data or of the
child that will replace them, since a child that ends can only raise what a file holds.
`FilesSound` orders the copies an operator made: an older one holds no more than a newer.
Assumed: a positive timeout, and that `Nil` is no child.

### Live streams

`LimiterCountsStreams` counts a set, so `LimiterSound` keeps that set finite and says of a
request between the load and the swap that what it loaded was below the limit; the swap
succeeds only while the counter is still that value, and then adds one request to the set and
one to the counter. `StreamSound` splits what arrived on a stream into what the client has
got, what is in the channel, what the goroutine holds, and what is still to be filtered:
together the first three are the filter of what was taken. A goroutine that leaves while it
sends drops the update in its hand, after which only a prefix remains; that case is the last
conjunct. Assumed: a channel of at least one, limits that are integers, and updates with a
bus and a route.

`Wanted` is a recursive function over the updates. A lemma in set form (a set of numbers that
holds 0 and with each number its successor holds all) gives the induction: that the function
exists, that its value depends on the updates before it only, and hence what one more update
does to it.

### Push notifications

`ReportSound` follows a token from the provider's verdict to its revocation: it is in the list
of invalid tokens of the send, or the device it names, if there is one, has been dealt with,
and a send that failed has revoked nothing. The lemma about `ByToken` says when there is one:
whenever a message was listed with exactly that token, so certainly for tokens without blanks,
which `TrimSpace` leaves alone. `RenewalSound` is a second inductive invariant: a listed device
that did not register anew has the token it was listed with, or none, so that what a send
takes from another token it takes from a device that did. `CopiesSound` counts: a device is listed once, so that it belongs to one
batch; those of later batches have got nothing, those of the current one at most one copy per
attempt that has ended. `Retries` then bounds the attempts. A post adds at most one copy for
every device of the batch, whichever of them the provider delivered before it failed.
Assumed: finitely many devices, a positive batch size, and that the number of retries is a
natural number.

### Routes

`Storable` is what the checks of `NewRoute` and of the commands let through. One lemma per
command shows that it leads from storable routes to storable routes (`AddStop` and
`RemoveStop` by the length of the new list, the latter because the index of a stop is one of
its places); loading a storable row succeeds and changes only distances and rate.
`LineDistance` is treated like `Wanted`: it depends on the places of the stops only, so
calculating twice is calculating once, which is what `LoadsAreStable` needs. `SavesSound` is
the argument of `Journey` for serial saves: a copy that waits to be saved is new, overtaken,
or what a command made of the row that is stored.

`LagSound` makes `GeoFollowsRoute` inductive. Nobody writes for a version beyond the row's;
whoever synchronises alone writes what the row holds, and of the stops it has written, the
last with each identifier is what the table shows (`Written`), but for entries that another
route has written since. A save makes the row newer
than all that was written and puts an end to everybody else's being alone; so a
synchronisation that ends alone has written the row from its first stop to its last, and only
that closes the gap. Assumed: `RouteAssumption` (places are natural numbers, commands carry
stops and periods) and that `Absent` is no entry of the table.

### Model-checked only

- Liveness under fairness, which the prover does not cover: `GapsAreSkipped`,
  `ItemsWakeWorkers`, `SleepersAreReleased`, `HeldMessagesSettle`, `StopReturnsEventually`,
  `SendsEnd`, `StreamsAreFreed`, `CallsReturn`.
- `NeverBelowMin` of the backoff, which the code violates.

## 5. Not modelled

Statistics, metrics, logs, HTTP middleware, read models, configuration and construction
code change no state a decision depends on. Postgres, Redis, autopaho, the broker and the
push provider are environment. `UpdateLastSeen` and `GetActiveByUsername` of the device
repository, and `FindActiveByUserID` and `CountActiveByUserID` of the journey repository,
are not part of the models. `SetStatsProvider` is assumed to be called before `Start`.
`WithTransaction` (`infrastructure/db/transaction.go`) is used by none of the repositories.
The failover listener passes notices on, and nothing in the public code acts on them. The
raw GPS publisher and the parser of messages keep no state. The TypeScript client runs
elsewhere; its reconnects appear as requests. The restore instructions and the disaster
recovery plan of `backup.go` are constant texts.

## 6. Where code and documentation disagree

Shown by a run (with the quotation in `PROJECT.json`): `backoff`, the reconnect wait
overflows after a long outage.

Met while modelling:

- A caller of `Dequeue` that is woken by the only `Signal` but whose own context is done
  leaves without passing it on; another caller sleeps on a queued item (`queue.go:180`).
  `ItemsWakeWorkers` shows that a done context is the only cause.
- After a server DISCONNECT the next connection keeps the stopped manager and takes no
  messages (`client.go:478`).
- A late report about a message of a replaced manager acknowledges the message that now
  has its number (`client.go:232`); `OnlyStaleReportsMislead` shows that this is the only
  way to acknowledge what nobody processed.
- `SwitchBus` keeps the proximity level reached by the previous bus
  (`journey_methods.go:177`).
- A rotation that meets a device before its broker entry exists removes nothing; the entry
  added afterwards outlives the device (`device_provisioning.go:98`).
- A user whose subscription has lapsed cannot be loaded, so the command that would renew it
  fails as well (`user_rehydrate.go:21`); a bus whose report carried a negative stop index
  cannot be loaded either, while the roster still lists it (`bus_methods.go:26`).
- `CalculateCumulativeDistances` says it computes the distances that are not set
  (`route_methods.go:449`); it looks at the last stop only and computes all or none, so that
  after a stop is added at the end the next load replaces every road distance of the route
  by a straight line.
- The stored detour rate of a route is 1.3, 1.1 or 1.2 (`route_repository.go:372`), the one
  the aggregate derives 1.4, 1.2 or 1.3.
- `FindActiveRoutes` counts the first moment of the active period, `IsActive` does not
  (`LoadsAreStable` allows exactly this).
- A stop that two routes share has one entry in the stops table: the save of one route
  overwrites place and distance of the other's stop (`route_repository.go:392`), although the
  distance is "per-route, may vary" (`000007_postgis_stops_sync.up.sql`).
- A token sent with blanks around it is stored as it is (`push_notifications.go:62`) and
  reported trimmed (`expo_sender.go:220`), so it is never revoked, or another device that has
  it without blanks is revoked in its place (`push_send.go:116`).
- A device that registers a new token while a send is under way loses the new one when the
  old one is reported: the revocation names the device only (`push_send.go:124`).
  `RevokesFollowReport` shows that this and an equal trimmed token are the only ways to revoke
  a token that the provider did not call invalid.
- A filter of blank bus identifiers only is an empty filter and lets everything through
  (`stream_live_bus_updates.go:36`).
- A batch that fails discards the report of the batches before it, so tokens known to be
  invalid stay active (`expo_sender.go:101`); tickets about wrong credentials of the
  application revoke the devices of valid tokens (`expo_sender.go:236`).
- `CreateAOFBackup` "triggers an AOF rewrite and copies the file" (`backup.go:186`) but
  copies nothing; `getRedisDataDir` demands two entries of a reply that has one
  (`backup.go:370`); a rewrite that failed or was only scheduled is taken for a completed
  one (`backup.go:317`).
- `queue.go:89` says a full `coalesce_latest` queue removes the oldest item; the code
  (`queue.go:123`) drops the new one.
- A failed reconnect attempt sets the client's state to Connecting, so the connection that
  follows keeps the manager with entries of the lost connection (`client.go:360`, against
  `ack_manager.go:16`, "connection-scoped").
- A connection that comes up between `Stop`'s stopping of the manager and its Disconnect
  makes a manager whose flush loop nobody stops (`client.go:370`); it never holds a message.
- The flush loop of the first manager ends with the context of `Start` (`client.go:179`,
  `ack_manager.go:240`) while the manager, not being stopped, keeps what it holds.
- A `Stop` that overtakes `Start` before `c.cm` is set disconnects nothing; the connection that
  `Start` makes afterwards lives until its context ends (`client.go:209`).
- `journey_enums.go:36` calls `ValidStatusTransitions` "all allowed journey state
  transitions"; `CanTransitionTo` also lets a searching journey be cancelled or expire.
- `InitializeTracking` accepts a journey in its boarding prompt, against the comment at
  `journey_methods.go:38`, and leaves it at level Arrived, where no proximity update is
  accepted.
- A `Stop` of the heartbeat that reads `h.cancel` before `Start` has set it waits for ever
  for a loop it never told to end, or, if it also precedes the wait group's Add, returns
  while the loop runs on (`heartbeat.go:141`).
- Overlapping calls of `Touch` publish a rate near 2^64 (`heartbeat.go:164`), though
  line 149 allows them.
- `GetValue` scans with `%s`, which takes the rest of the JSON; the counters it returns are
  always zero (`heartbeat.go:212`).
- The undoing of a failed broker call may fail too, silently, leaving an active record
  (`device_provisioning.go:129`).

## 7. Plan

1. `Journey` with several journeys per user (`FindActiveByUserID`).
2. An abstract specification of `RouteRepository`, one table with both views, that the two
   tables implement between gaps; `LagSound` is the refinement's invariant.
