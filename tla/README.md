# SoundMap in TLA+

This directory holds a verification development for SoundMap, a platform that
collects sound level readings from sensors, analyses them, fires alerts and
answers map and report queries. It consists of TLA+ modules that model the
stateful parts of the Go services, TLC configurations that check them on small
instances, and TLAPS proofs of their most important invariants for every
instance. Source paths below are relative to the repository.

## 1. The system

```
agents --IngestReadings--> ingestor --readings.raw--> analyzer  (readings.analyzed) --> alert engine --SubscribeAlerts--> dashboards
                              |                          |                                 |
                              +------- sensor_readings --+-- analysis_results --+----------+-- alert_thresholds, fired_alerts
                                                                                |
                                       Redis <--> geo index <------------------+------> report service
```

| Component | State | Operations | Interacts with |
|---|---|---|---|
| Ingestor (`services/ingestor`) | per stream: batch, counters, two goroutines, `batchMutex`; `sensor_readings` | `IngestReadings` (client stream), `IngestSingleReading`, `GetSensorStatus` | agents (gRPC stream), Postgres (CopyFrom), NATS `readings.raw` |
| Analyzer (`services/analyzer`) | none of its own; `analysis_results` | `AnalyzeStream`, `AnalyzeBatch`, `GetZoneAnalysis`, consumer of `readings.raw` | clients, Postgres by detached goroutines, NATS |
| Alert engine (`services/alert-engine`) | subscribers map, threshold cache; `alert_thresholds`, `fired_alerts` | NATS callback, `CreateThreshold`, `ListThresholds`, `AcknowledgeAlert`, `SubscribeAlerts`, refresh and heartbeat loop | NATS `readings.analyzed` (durable consumer), Postgres, dashboards |
| Geo index (`services/geo-index`) | Redis cells with expiry | `QueryHotspots`, `GetHexCellStats`, `StreamCellUpdates` | Redis (cache-aside, asynchronous fills), Postgres |
| Report (`services/report`) | none | `GenerateZoneReport`, `GenerateCityReport` (chunks) | Postgres |
| Service processes (`services/*/cmd/main.go`) | errgroup, context, gRPC and HTTP servers | start, SIGTERM, failure of a part | all parts of one process |
| Shared (`internal/`) | cache of rate limiters | interceptor chain, JWT check | not installed by any main at present |
| Agent (`cmd/agent`), HTTP gateway (`cmd/gateway`) | open stream; none | streaming with reconnect; HTTP to gRPC | ingestor; all services |
| Java services (`auth-service`, `api-gateway`, `common-lib`) | users, one refresh token per user in Redis | register, login, refresh, logout; a gateway filter | separate from the Go services |

What makes each part correct, and what is hard about it:

- **Alert fan-out.** Handlers subscribe and unsubscribe while two goroutines
  broadcast over copies of the map. A subscriber must keep its own channel, get
  the alerts it asked for in order and once, and never stop a broadcast. Hard:
  sends after the copy, ids shared by several calls, full channels.
- **Alert processing.** An alert that was pushed must be stored; an acknowledged
  reading must have been evaluated; the cache must follow the table. Hard:
  redelivery, crashes between two thresholds, saves that fail after they
  committed, shutdown inside the callback, the start-up race with the first
  refresh.
- **Ingest.** Two goroutines flush one batch; the row and the message of a reading
  are written one after the other. Hard: a tick at the end of the stream, partial
  failure, broken streams.
- **Analyzer.** It answers first and saves from goroutines nobody waits for: what is
  stored must have been answered, a batch must be stored whole or not at all, and live
  views must not go back although rows enter the table out of order.
- **Geo index.** One cache key holds results of different requests, filled by
  goroutines that overtake each other, and only the expiry removes an entry: still
  no answer may be older than the timeouts allow.
- **Report.** A chunk must hold the zones that are its own (it holds all of them).
- **Service processes.** A stop must finish in order and with an honest status. A failed
  part must not leave the rest half alive (it does).
- **Interceptor chain.** Calls race to create the limiter of a method; panics pass through
  every interceptor; the order of the chain, and the key of the bucket, decide whose calls
  use it up.

`PROJECT.json` lists these components, and under `hazards` every such place with its
line, the properties about it, or the reason why it has none.

## 2. Modules

| Module | Models |
|---|---|
| `AlertFeed` | what `SubscribeAlerts` promises: a best-effort feed per subscriber |
| `AlertFanout` | registry, `broadcastAlert`, `SubscribeAlerts` handlers; implements `AlertFeed` |
| `AlertProcessing` | NATS callback, `ProcessReading`, `fireAlert`, threshold cache, tables, life of the process |
| `IngestStream` | `IngestReadings` with its batch writer, `flushBatch`, `IngestSingleReading` |
| `GeoCache` | `QueryHotspots` and `GetHexCellStats` over the Redis cache with asynchronous fills |
| `AnalyzerService` | `AnalyzeStream`, `AnalyzeBatch`, detached saves, `GetZoneAnalysis` |
| `AnalysisViews` | composes `AnalyzerService` with the other readers of `analysis_results`: `StreamCellUpdates`, `GenerateCityReport` |
| `ServiceLifecycle` | the errgroup, `GracefulStop` and exit status of the five mains |
| `MethodBuckets` | what authentication and rate limit decide: one bucket per method, one step per call |
| `RequestGuards` | the interceptor chain, the limiter cache and the gateway's status table; implements `MethodBuckets` |
| `MC...` | instances for TLC |
| `..._proofs` | theorems about `AlertFanout`, `AlertProcessing`, `IngestStream`, `GeoCache`, `AnalysisViews` (with `AnalyzerService`), `ServiceLifecycle`, `RequestGuards` |
| `SequenceFacts` | lemmas about sequences and about how often a value occurs in one, which three of the proof modules share |

The modules are separate where the processes share nothing but a table or a stream, and
the parts that do share state at run time are composed: the engine's registry with its
handlers, the callback with the refresh loop and the process around both, the two
goroutines of an ingest stream, and the analyzer with all readers of its table.

### AlertFanout

`subscribers` is the map of `AlertEngine`; each `SubscribeAlerts` call `s` owns one
channel, `buffer[s]`, with a flag `closed[s]`, and `rpc[s]` is where its handler is.
`broadcastAlert` is two kinds of steps: `Snapshot` copies the map under the read lock,
and `SendTo`, one per copied channel, is the non-blocking send that runs without the
lock. A send to a closed channel is a panic and sets `up` to FALSE. `Subscribe`,
`Unsubscribe` (the closure, inside `Return`) and the select loop (`Forward`,
`FilterOut`, `ChannelClosed`, `Disconnect`, `SendFails`) are the handler. Two goroutines
broadcast: the NATS callback and the heartbeat loop. Severities are compared as
numbers; an event is the number of its broadcast.

### AlertProcessing

`stream`, `durable`, `deliveries` and `acked` are JetStream as the consumer uses it: at
least once, at most `MaxDeliver` times, also while an earlier copy is still waiting
(the ack wait is 30 s and the callback handles one message at a time). `inbox`
is the queue of the subscription. The callback takes a reading (`Begin`, where
`ProcessReading` takes the cached thresholds), saves and broadcasts one alert after the
other (`SaveAlert`, `SaveAlertFails`, `BroadcastAlert`) and acks (`Ack`, `AckLost`).
The refresh reads the table and stores the result in two steps. `Start` binds to the
durable consumer or creates it. `Shutdown` cancels the context, after which saves fail:
main does so after SIGTERM, and the errgroup when another goroutine of the process fails.
In the second case nothing stops the gRPC server (see `HalfDeadForever` of `ServiceLifecycle`):
refresh and consumer have ended, and the process may live on and serve `CreateThreshold`
for ever, so nothing is assumed to end it. `Unsubscribe` deletes a durable consumer that
this process created; `Die` is a crash or the end. `AcknowledgeAlert` and `CreateThreshold` are the RPCs;
`Deactivate` is what an operator does in SQL, because no RPC does it.
Thresholds a reading does not exceed are passed over inside `Begin`: the loop
changes nothing for them. `AcknowledgeAlert` records the user and not the time.

### IngestStream

The readings of the stream are numbered as they are sent. `main` and `writer` are the
program counters of the handler and of the batch writer goroutine, `mutex` is the
holder of `batchMutex`, `tick` the one-place channel of the ticker. `flushBatch` runs
under the mutex in steps (`SaveReadingsBatch` or `SaveFails`, one
`PublishReading` per reading, `CountAccepted`), and `AfterFlush` is what its three
callers do next: only the one at EOF does not empty the batch. `saved` and
`published` are the table and the NATS stream. The response reads the two counters one
after the other without the mutex. A database error may hide a commit. A publish waits for
the server's answer under the stream's context (`nats_publisher.go:93`), which has a deadline
only if the client sets one: `PublishHangs` is a lost answer, which sets `hung` and keeps
the mutex until the client's side is over (`PublishCancelled`).

### GeoCache

Time passes in ticks, because everything that bounds the age of an answer is a timeout:
`Expiry` of an entry, `FillTimeout` of a fill goroutine, `ReadTimeout` of the query.
`table[c][h]` is the average of a cell over a range of hours and changes at any time
(`Change`); `cache[c]` is what Redis holds under `cell:<c>`, one key whatever range the
value is for; `fills` are the writes that goroutines still have under way, which Redis
applies in any order (`ApplyFill`) or loses. A `QueryHotspots` call looks its cells up
(`GetCells`), queries those it missed (`GetHotspotsInCells`), and only then starts the fill and
answers (`Answer`: merge, filter, sort, limit); what the query read is in `rows` of the call and
grows old under `ReadTimeout` meanwhile. `GetHexCellStats` is the same in two steps:
`QueryStats` reads, the second query for the hours may fail (`HourlyFails`), and the step
that bears its name starts the fill; `stats` holds what is between. It writes to the cache
and never reads from it, which is what `geo_service.go:223` comes to: the cached cell is
assigned to `_`. A row that does not scan (`geo_repository.go:149`) is not dropped from a good
answer: pgx closes the rows with the error, and `rows.Err()` fails the query (`QueryFails`).
`steady[c]` counts the ticks
since a row last changed and is what the properties measure age with.

### AnalyzerService and AnalysisViews

A reading goes from `stream[s].todo` through `Send` to a goroutine in `saves`, which
stamps a row (`Stamp`) and inserts it (`Commit`, one transaction for a batch), or gets an error
(`SaveFails`), behind which the rows may be stored all the same. `AnalyzeBatch` starts the
goroutine before the response is on its way (`BatchReturns`), which may never arrive. A
crash, and the panic of a repository without a pool (`cmd/main.go:77` passes nil), end
every stream, view and goroutine (`Down`). `zone[z]` is a `GetZoneAnalysis` call with what it
last sent. Levels and scores are the code's tables (`Analyze`, `Score`,
`calculateRiskLevel`); a query with `ORDER BY analyzed_at DESC` may return any of the rows
that tie. `AnalysisViews` adds `follow[f]`, a `StreamCellUpdates` call with the updates it has
yet to send, and `report`, a `GenerateCityReport` call: its list of zones, how many chunks it has
sent and the zones in the last of them.

### ServiceLifecycle

`main` is one of the five mains, which differ in their workers and in whether a signal
cancels the context (the ingestor's does not). `state[g]` says how goroutine `g` of the group
returned, `waiter` is where the one goroutine is that selects between the signal and
the group's context, `exit` is the status. Servers and workers may `Fail` at any moment.
A signal is taken into the channel of `signal.Notify` at any time, also when nobody will
receive it any more. Unary calls end by themselves, streams with their clients.

### RequestGuards

`pc[k]` is where a call is between `AuthInterceptor` and the handler. `GetLimiter` is five
steps over the lock `cacheMu` (`readers`, `writer`): read lock, hit or miss, write lock,
second look. A limiter is named by the call that created it, so two limiters of a
method are two buckets. `UserOf` is whom the token of a call names; the code keeps no bucket
by it. To `MethodBuckets` a method without a limiter has a full bucket
(`BucketOf`), and a call is decided when it is refused, takes a token or finds none
(`VerdictOn`). `AfterPanic` and `grpcCodeToHTTPStatus` are the code's tables.

## 3. Runs

The numbers are distinct states with the configurations here.

| Run | Checks | States |
|---|---|---|
| `fanout` | `RegisteredIsLive`, `InOrder`, `KeepsItsChannel`, `OnlySendsPanic`, `ImplementsFeed`; `AlertReachesSubscriber`, `BroadcastTerminates` under `FairSpec`: two calls with one id, one with its own, one with none | 658,800 |
| `processing` | `BroadcastIsStored`, `AckedIsEvaluated`, `OneAlertPerDelivery`, `AcknowledgedStays`; `EveryReadingIsAcked`, `CacheFollowsTable` under `FairSpec`: a loud and a malformed reading, one threshold, one fault, redelivery | 296,750 |
| `ingest_open` | `TypeOK`, `PublishedIsSaved`, `Accounted`, `InOrderWhileOpen`, `ReplyIsBacked`, `ReplyCoversStream`; `BatchIsFlushed`, `StreamEnds` under `FairSpec` | 400,216 |
| `geo` | `EntriesConverge`, `SteadyCellIsRight`, `LimitKeepsLoudest`: two cells, three hotspot requests with two minimums and a limit of one, statistics over two ranges | 7,622,076 |
| `analysis` | `SavedIsAnswered`, `BatchIsWhole`, `ViewIsWithinRows`, `ViewsMoveForward`; `AnsweredIsSaved`, `ViewsCatchUp` under `FairSpec`: two readings of one cell, a stream, a batch and three kinds of views | 63,128 |
| `lifecycle` | `ExitIsHonest`, `HealthOutlivesCalls`, `HalfDeadForever`; `StopsOnceClientsLeave` with fairness: all five mains, every failure | 4,104 |
| `guards` | `LimitHolds`, `RejectedOnlyAtLimit`, `UnaryAnswersAreHonest`, `ImplementsBuckets`; `EveryCallIsAnswered` with fairness: five calls, one of them a stream, one without a token, one health check | 93,776 |

Runs that are expected to find a violation; each has an entry under `findings` in
`PROJECT.json` that quotes the line of the repository it disagrees with:

| Run | Property | What the code does |
|---|---|---|
| `fanout_panic` | `BroadcastNeverPanics` | a subscriber leaves between the copy and the send: send on a closed channel |
| `fanout_cutoff` | `NoStreamIsCutOff` | the unsubscribe of an old call closes the channel of a new call with the same id |
| `processing_twice` | `OneAlertPerReading` | a reading that is delivered again gets a second row for the same threshold; nothing in the table or the INSERT is unique |
| `ingest_reply` | `ReplyAddsUp` | a tick after the flush at EOF flushes the same batch again |
| `guards_users` | `RejectedOnlyForOwnCalls` | the bucket is per method: the calls of one user turn away those of another |

The models have further behaviours that documents speak against or leave open; where
there is a sound half, the passing runs check it.

- Alert engine. An acknowledged reading should have exactly one row for each threshold it
  exceeded (`OneAlertPerReading`). `processing_twice` shows two of them without any fault;
  with a fault there may be none, because a failed save is logged, the loop goes on and the
  reading is acknowledged (`alert_engine.go:126`), while `docs/ingest-flow.md:233` speaks
  of a buffer and retries: with `MaxFaults` 1 TLC finds that trace for the same property.
  `AckedIsEvaluated`, `OneAlertPerDelivery` and `AcknowledgedStays` are the sound halves: the
  loop over the snapshot ended, one delivery makes one row, and the first row stays
  acknowledged. None of them speaks of a reading that used up its deliveries without an
  ack: it is lost, although `docs/ingest-flow.md:194` says "3 attempts, then DLQ" (nothing sets up
  a dead-letter queue). After a start,
  readings are evaluated against an empty cache until the first refresh (`main.go:147`);
  `CacheFollowsTable` says that the refresh comes, as long as the context is not
  cancelled. A second `AcknowledgeAlert` overwrites who acknowledged
  (`alert_repository.go:86`).
- Ingestor. A publish that fails after the commit is only logged (`ingestor_service.go:197`, `:227`)
  and the reading counts as accepted, while `docs/ingest-flow.md:74` speaks of dual writes: no analyzer
  will see it. A failed save drops the batch and counts it as rejected
  (`docs/ingest-flow.md:233` speaks of a buffer and retries); a stream that breaks leaves the readings
  of its batch in no row and no counter (`ingestor_service.go:152`); a publish whose answer is
  lost blocks the stream while its client stays. `PublishedIsSaved`, `Accounted`,
  `ReplyIsBacked`, `BatchIsFlushed` and `StreamEnds` are the sound halves, the last two with the
  exception `hung`. Of the response to a stream that
  ends normally, `ReplyCoversStream` is what is left of the test's expectation: a second
  flush makes it count a reading twice, never leave one out.
- Analyzer. With the nil pool of `cmd/main.go:77`, the first save ends the process; in the
  `analysis` run this is one of the two values of `Pools`. The handler of `readings.raw`
  does nothing and acks (`:140`), and nothing publishes `readings.analyzed`.
- Report. Each chunk carries the whole list of zones (`report_service.go:168`): the ten cut out
  at `:153` only feed recommendations that are dropped. `report_service.go:142` says "10 zones
  per chunk" and `ARCHITECTURE.md:55` "streamed in chunks to avoid memory pressure". `SendChunk`
  models what is sent. A report without zones has no last chunk.
  `report_repository.go:134` scans a time into a type pgx has no plan for, which
  `QueryReport` covers as a query that may fail.
- Processes. If one goroutine of the group fails before a signal, the one that would stop
  the servers returns without stopping them, and the process neither ends nor reports
  the error: `HalfDeadForever` states what the code does. `alert-engine/cmd/main.go:200` says
  "Graceful shutdown with timeout", but the 30 s are given to the metrics server only:
  `GracefulStop` has no limit, and a stream keeps a sound process that was told to stop
  alive until its client leaves, which is why `StopsOnceClientsLeave` says no more. The HTTP gateway only logs that
  its listener failed.
- Interceptors. A panic of a stream handler is recovered into a nil error, and the client
  sees OK; `UnaryAnswersAreHonest` holds for unary calls only. `MethodLimits` names
  `alert.v1.AlertEngineService`, the proto says `AlertService`, so the three limits are never
  found. `LimitHolds`, `RejectedOnlyAtLimit` and `ImplementsBuckets` say of the limit
  what `limiter.go:50` does, one per method for all users together; what `chain.go:33` and
  `ARCHITECTURE.md:147` say of it is refuted by `guards_users`.

### Bounds

- `fanout`: `MaxEvents` 2 broadcasts, channels of capacity 1 (100 in the code), four
  calls: two share an id, one has its own, one sends none. A channel
  overflows with the second event, both goroutines broadcast at once, an id is reused
  while its first call is alive. `Readers` (one of the two with the shared id, and the
  one with its own) keep receiving; the others may be stuck in `Send` for ever.
- `processing`: `MaxDeliver` 2 (3 in the code) lets a reading be delivered while an
  earlier copy is processed and again after a restart. `MaxFaults` counts crashes,
  shutdowns, failed saves and lost acks together; 1 reaches each of them at every point
  of the callback. With acknowledgements, a changing table and a second reading there is one
  threshold: two make millions of states, too many for the liveness properties. That the loop
  goes on to the next threshold after a failed save, and a crash between two of them, are
  covered by the theorems, which hold for any thresholds. `processing_twice` has two
  thresholds, needs no fault and has none.
- `ingest_*`: `BatchSize` 2 (100 in the code) with up to `MaxSent` = 4 readings, the second
  of them invalid, fills a batch, leaves a rest, and lets both goroutines flush; the
  fourth reading makes an oversized batch reachable. Ticks are not bounded.
- `geo`: each timeout is one tick, and a read, a fill, an entry and the call that finds it can
  each use up theirs: with `EntryAge` or `Staleness` one tick lower TLC finds a violation.
  `MaxFills` 2 lets an older fill overtake a newer one; statistics calls cache what a hotspot
  call finds, one call slot after the other with different minimums. A quiet
  day without a result in the last hour and a loud one with a quiet last hour differ over
  both ranges. The request for two cells sorts and drops one of any mixture of cached and
  queried cells.
- `analysis`: two readings (59 and 80 dB, two levels apart) of one cell, whose rows can enter
  the table in either order; `MaxTime` 2, three stamps; `ZoneLimit` 2 (100), `TopN` 2 and
  `ChunkSize` 1 (10). An empty batch is among `Batches`. Several cells in one follower's tick
  are left to the theorem `LiveViewsMoveForward`; a report of one cell has one chunk, and no
  property is about more.
- `lifecycle`: one unary and one streaming call for each main; calls do not interact.
- `guards`: `Burst` 1 and `MaxTicks` 1 with two unary calls, a stream and a call without a
  token on one method, so that two limiters, or a token taken by the refused call, show. The
  callers are two users.

The theorems of section 4 have none of these bounds. `geo` uses the symmetry of its
two cells, which no constant tells apart, and checks only safety; no other run uses
symmetry. `CHECK_DEADLOCK FALSE` stands where a behaviour may end: all calls made, the
fault budget used up, or the process gone after a panic or an exit.

### Fairness

- `AlertFanout`: each send of a broadcasting goroutine and each handler in
  `Readers`. Go's scheduler runs both, the broadcasts do not block, and gRPC's `Send`
  to a client that reads returns or fails. Other clients owe nothing.
- `AlertProcessing`: JetStream delivers what is due; the callback, the refresh loop and
  `Unsubscribe` run; `restart: unless-stopped` in `deployments/docker-compose.yml` starts a
  process that is down. Nothing makes one die whose context was cancelled. Faults, RPCs
  and publishers have no fairness.
- `IngestStream`: the two goroutines, the ticker and `flushBatch` run: a save has a timeout of
  5 s, a publish returns when it is answered or its context is done. That every publish is
  answered is not assumed (`PublishHangs`), nor that a client ever leaves; steps that wait for `batchMutex` are strongly fair, as Go's mutex
  hands itself over to a waiter after a millisecond.
- `AnalysisViews`: saving goroutines run and their database calls return, a panic is not
  put off, the tickers of views fire and their queries succeed again and again. Clients,
  crashes and restarts owe nothing.
- `ServiceLifecycle`: goroutines that can go on do. That unary calls are answered is an
  assumption: the ingestor's waits for a publish without a deadline of its own. Signals,
  failures and the clients of streams owe nothing.
- `RequestGuards`: each call's goroutine, strongly, because of the lock: a
  `sync.RWMutex` lets a waiting writer in before new readers.
- `GeoCache` has no liveness property and no fairness: its bounds on age are safety. They
  rest on two assumptions about time: what a call does between the return of its reads and
  its answer takes less than a tick, and Redis answers a lookup within `ReadTimeout` (its
  client gives an attempt up sooner than that).

## 4. Proofs

The proofs are in the `_proofs` modules; tlapm checks them for every value of the
constants. Each safety theorem rests on an inductive invariant: it holds initially, each
action keeps it (one proof step per action), and it implies the property. `TypeOK` is
checked by a run in `IngestStream` and established by its theorem only in the others.
All other properties in the table are also checked by a passing run.

| Module | Theorem | Property |
|---|---|---|
| `AlertFanout_proofs` | `TypeCorrect` | `TypeOK` |
| | `RegistryIsSafe` | `RegisteredIsLive` |
| | `PanicsAreSends` | `OnlySendsPanic` |
| | `LoneCallKeepsChannel` | `KeepsItsChannel` |
| | `StreamsAreInOrder` | `InOrder` |
| | `EngineImplementsFeed` | `ImplementsFeed`: the refinement of `AlertFeed` |
| `AlertProcessing_proofs` | `TypeCorrect` | `TypeOK` |
| | `PushedIsStored` | `BroadcastIsStored` |
| | `AckedMeansEvaluated` | `AckedIsEvaluated` |
| | `AcknowledgementsStand` | `AcknowledgedStays` |
| | `OneAlertEach` | `OneAlertPerDelivery` |
| `IngestStream_proofs` | `TypeCorrect` | `TypeOK` |
| | `NothingMiscounted` | `Accounted` |
| | `RepliesCoverTheStream` | `ReplyCoversStream` |
| | `AnnouncedIsStored` | `PublishedIsSaved` |
| | `RepliesAreBacked` | `ReplyIsBacked` |
| | `OpenStreamInOrder` | `InOrderWhileOpen` |
| `GeoCache_proofs` | `TypeCorrect` | `TypeOK` |
| | `CacheConverges` | `EntriesConverge` |
| | `AnswersAreRight` | `SteadyCellIsRight` |
| | `LoudestAreKept` | `LimitKeepsLoudest` |
| `AnalysisViews_proofs` | `TypeCorrect` | `TypeOK` |
| | `StoredWasAnswered` | `SavedIsAnswered` |
| | `BatchesAreWhole` | `BatchIsWhole` |
| | `LiveViewsMoveForward` | `ViewsMoveForward` |
| | `ViewsAreWithinRows` | `ViewIsWithinRows` |
| `ServiceLifecycle_proofs` | `TypeCorrect` | `TypeOK` |
| | `ExitStatusIsHonest` | `ExitIsHonest` |
| | `HealthIsLast` | `HealthOutlivesCalls` |
| | `HalfDeadIsForever` | `HalfDeadForever` |
| `RequestGuards_proofs` | `TypeCorrect` | `TypeOK` |
| | `AnswersAreHonest` | `UnaryAnswersAreHonest` |
| | `LimitIsKept` | `LimitHolds` |
| | `RejectionsAreDue` | `RejectedOnlyAtLimit` |
| | `ChainImplementsBuckets` | `ImplementsBuckets`: the refinement of `MethodBuckets` |

**Assumptions.** Only the named `ASSUME`s of the modules, which give the constants their
types and which TLC evaluates in the runs: `FanoutAssumption`, `ProcessingAssumption`,
`IngestAssumption`, `GeoCacheAssumption`, `AnalyzerAssumption`, `ViewsAssumption`,
`LifecycleAssumption`, `GuardsAssumption`.

**AlertFanout.** `RegInv` strengthens `RegisteredIsLive` (a channel in the map is open,
stands under the id of its call, and its handler has not returned) with
`IdleNotClosed`: a channel that is not made yet cannot be closed. A closure finds what
it closes through the id and deletes it from the map, so it never closes twice, and
the only panic left is a send to a channel that was copied before. A call under whose id
no other call came keeps its channel: whatever changes the entry of an id is a call under
that id, and one that is alone now was alone before (`AloneBefore`). `OrderInv` adds to
`InOrder` that what a goroutine is still sending to a stream comes after all that
the stream has got from it (`Pending`), that the event in hand is the goroutine's own
(`Authored`), and that only events broadcast are received (`Published`).

The refinement maps `log` to the authors of the events and `rpc`, `since` and `sent` to the
feed. A snapshot publishes, a subscription joins, every way to return leaves, and
`Forward` delivers; all other steps stutter, `SendTo` among them, because a queued event
is not yet delivered. The two guards of `Deliver` are what has to be proved. That the event is
not older than the subscription is `FreshInv`: a stream that has not subscribed is in
nobody's targets and its channel is empty (`NotYet`), and whatever is queued for or on its way to
one that has subscribed is newer than `since` (`Newer`). That it comes after all of
the same author is `OrderInv`: the head of the channel is in `Received` behind all that
was sent.

**AlertProcessing.** `BroadcastIsStored` is inductive with `TypeOK`, since rows are never
deleted (`AlertsStep`). `AckedIsEvaluated` is not: nothing in it speaks of a reading
in process. `LoopInv` adds that the loop has handled the thresholds it has passed,
`snapshot \ todo`; at the ack `todo` is empty. `HandledIsStable` says that a crash, a
redelivery or an acknowledgement takes nothing back. `OneAlertPerDelivery` compares rows with
deliveries, and a delivery that has not made its row yet would be counted for nothing:
`DeliveryInv` adds to the rows of a reading and a threshold the copies that wait in the
inbox and the save that is still due in the loop, and bounds the sum. A delivery
raises both sides, `Begin` turns a copy into a due save, a save turns that into at most
one row, whether or not it reports an error, and a crash only lowers the sum.

**IngestStream.** `TypeOK` alone does not keep the batch within `BatchSize`: the handler
appends without looking at its length first. `Exclusion` ties the mutex to where the two
goroutines are and to the flush, and `RoomToAppend` says that there is room whenever
the handler receives or is about to append, because a full batch is emptied before the
mutex is released. With it, `Accounted` is inductive: a flush moves the length of the
batch into exactly one counter (`AfterFlushAccounts`). `CoverInv` follows the same sum past
the end of the stream: batch and counters hold all readings until the last flush,
then the counters alone do, and they only grow. `PublishedIsSaved` says nothing of the
readings between the two writes; `AnnounceInv` counts them: messages, readings of the
batch that are stored and not yet published (`Unannounced`) and the one of the unary call
(`UnaryDue`) are together no more than the rows. `BackedInv` does this for the
counters: what is accepted and what a flush under way is about to count (`AboutToCount`) is
covered by rows of the stream. `OrderInv` puts the three places of a reading in
one order: rows, then the batch if it is not stored yet, and messages, then what is
still `ToAnnounce`; all of it lies below the next reading (`Below`). It ends with
the loop of `Recv`: the flush at EOF keeps its batch, which a tick can store again.

**GeoCache.** The properties speak of a row that has been steady for some time, and
`AgeInv` says how long is long enough at each place a value can be. What a call has read is
right if the row has been steady for longer than that read has been in flight (`StatsInv`,
`RowsInv`); a fill adds its own time to the whole of a read's (`FillsInv`), an entry adds its
life to both (`CacheInv`), and a call that found the entry adds its own reads (`CallsInv`). In
each case what is left of the timeout tells how much is used up. The sums are `EntryAge` and
`Staleness`. A tick takes from what is left what it adds to the count (`AgeTick`), a change starts
the count anew (`AgeChange`), and the hand-overs between the places keep it (`AgeLook`,
`AgeQuery`, `AgeFill`, `AgeApply`). `RowsInv` also says which rows a query leaves out, the
unfit and the ones of cells already found. `MergedIsRight` carries this to the answer, cached and
queried cells alike.

**AnalysisViews.** What the analyzer stores: `SavesInv`, `StreamsInv` and `BatchInv` follow
each reading that is saved to the one place it is in, a goroutine that saves it or the table,
so no commit stores a reading twice or part of a batch; a save that reports an error ends in
the same two ways, stored whole or not at all. What a goroutine saves was sent to its stream's
client or belongs to a batch (`DueFacts`). Live views: `ZoneInv` and
`FollowInv` say that whatever a view shows is as new as some row of the table; rows are
never deleted (`TableGrows`), so the newest row of a later query is no older. A tick of a
follower queues one row per cell, which keeps its updates from overtaking each other.
`AverageWithinRows` is the arithmetic behind `ViewIsWithinRows`: with the counts of the
four levels summing to the number of rows, the bounds 25, 50 and 75 separate the scores
10, 35, 65 and 90 the way the levels do. `ChunkFacts`, about the
division of a report into chunks, serves the types only.

**ServiceLifecycle.** `ErrorsAreFailures` says that an error in the group means that some
goroutine broke down, `DoneIsFailure` that the context is cancelled only by a signal or by such an error, and
`ClosedInOrder` ties the states of the servers to where the waiter is; with `ExitIsLast`
they give the exit status. `HalfDeadForever` follows from an invariant of its own: the waiter that has
left does not come back, and a sound gRPC server that nobody stops never returns.

**RequestGuards.** `LockInv` (who holds `cacheMu` is where the lock is held), `CacheInv` (a
limiter in the cache is the one its method's calls go by, and there is one per method)
and `ChainInv` (what has run and been answered agrees with the place in the chain).
`BucketInv` counts: the tokens of a limiter and the calls that went through it make up
no more than the burst and the refills, and no less than the burst. In the refinement the
lookup under the lock is a stutter, and so is `Create` (`CreateIsInvisible`): the
limiter it makes holds what the missing bucket stood for. `Allow` passes, `Exceed` rejects,
and both ask the bucket of their method, since the limiter a call has got is still the
cached one (`AsksItsBucket`). A tick fills a bucket that has no limiter yet to what it
already is.

Only model-checked: liveness under fairness (`AlertReachesSubscriber`,
`BroadcastTerminates`, `EveryReadingIsAcked`, `CacheFollowsTable`, `BatchIsFlushed`,
`StreamEnds`, `AnsweredIsSaved`, `ViewsCatchUp`, `StopsOnceClientsLeave`,
`EveryCallIsAnswered`), which is out of the prover's reach. Every invariant, action
property and refinement that a passing run checks has a theorem.

## 5. Not modelled

- The DSP pipeline: floating point arithmetic over sample arrays.
- Reads without effect: `GetSensorStatus`, `ListThresholds`, `GetUnacknowledgedAlerts`,
  `GenerateZoneReport`, and the texts of recommendations.
- The consumer of the analyzer: its handler changes nothing.
- The agent's loop of reconnects and its simulation: the package does not compile (a
  function named `status` hides the import `isRetryableError` needs), so which errors are
  retried is not defined. The ingestor's half, a stream that breaks, is modelled.
- The HTTP gateway beyond its status table, and the Java gateway: stateless forwarding.
- The Java auth service and common library: a scaffold of another product that does not
  compile (`getRole().name()` on a String, a stored class that is no entity) and that no
  Go service talks to.
- The inside of Postgres, Redis, NATS and gRPC: modelled only by what the services see of
  them (commits with lost answers, expiry and eviction, at-least-once delivery, flow
  control).
- Timestamps (other than the stamps of results), names, messages, logs, metrics, tracing,
  configuration, migrations and deployment, on which no property depends.
