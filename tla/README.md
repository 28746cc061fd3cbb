# Verification of free_models_server

`src/free_models_server` is an LLM proxy: it takes chat requests in three protocols, picks a
model, a provider and a credential, forwards the request, fails over when upstream does not
answer, and records what was used. Most of its state is in memory and shared by worker threads
and spawned tasks. This project models that state, checks it with TLC and proves the central
facts with TLAPS.

Contents: [inventory](#inventory), [what is hard](#what-is-hard-here), [modules](#modules),
[runs](#runs), [bounds](#bounds), [fairness](#fairness), [proofs](#proofs),
[disagreements](#disagreements-between-code-and-documents), [not modelled](#not-modelled),
[plan](#plan).

## Inventory

Paths are below `src/free_models_server/src/`.

| component | state | operations | correct when |
|---|---|---|---|
| Circuit breaker `util/penalty.rs` | a moka cache from "model\|provider\|credential" to `CircuitEntry` (count, state, permit, expiry) | `is_allowed`, `record_failure`, `record_success`, `reset_credential`, `list_blocked_models` | a key that keeps failing is tripped, an open one holds for its TTL and then lets a probe through, none is denied for ever |
| Request chain `service/proxy_service.rs`, `handler/chat_handler.rs` | none of its own: the position of each request in model × map × credential | try, retry once, fail over, pass the body or the stream on, record | every candidate is tried before 503, every attempt's outcome reaches breaker, flags and log once |
| Affinity `util/cache_affinity.rs` | last success per API key and model, with a TTL | `record_success`, `get_affinity`, `count_by_credential` | it reorders candidates and loses none |
| Quota flags `db/impls/provider_credential.rs` | `quota_exhausted` column | `mark_quota_exhausted` (awaited in responses, spawned in the chain), `clear_quota_exhausted`, `update` with a new key | a credential that stays flagged is left alone |
| Scheduler cache `util/model_scheduler.rs` | one snapshot of models, maps and credentials, with a TTL | load on a miss, store, `clear` | a stale snapshot does not outlive its TTL |
| Usage-log collector `util/usage_log_collector.rs` | mpsc channel (256), buffer, shutdown watch | `spawn_usage_log`, receive, interval, shutdown | a record is written once, and written at all unless the channel was full or the insert failed |
| Usage-log store `db/impls/usage_log.rs` | tables usage_log and usage_log_daily | `create_batch`, `archive_yesterday`, statistics | a request is counted exactly once, in the raw table or in the aggregate |
| Start, shutdown, tasks `main.rs`, `task.rs` | the process | `graceful_shutdown`, `spawn_daily_archive` | what was accepted is flushed; every day is archived |
| API key cache `util/api_key_cache.rs`, `middleware/auth.rs` | a moka set of active keys | `load_all`, `refresh`, `contains` | a revoked key is refused, an active one accepted |
| Admin authentication `middleware/admin_auth.rs` | nonces, one map per worker | check time, nonce, signature | a call is accepted once |
| SSRF check `util/proxy_ssrf.rs` | verdict per host, TTL 300 s | `validate_url_safe` | a verdict reflects the host |
| Scanners `util/stream_usage_scanner.rs`, `util/proxy_types.rs` | a byte buffer per stream | `push`, `finish` | an event cut across chunks is found, and found once |
| Admin handlers `handler/admin/*` | the database | create, read, update, delete, test, reset, refresh | the caches follow |

How they interact: a request handler reads the scheduler's snapshot, orders it by the affinity
cache, and then alternates between breaker calls (synchronous, on the shared cache) and awaits
(upstream, database). Its outcome flows to the breaker, the affinity cache, the quota flags
(through spawned tasks) and, by `try_send`, to the collector, which writes batches to the
database. The admin interface changes the database, and clears the caches only on
`/cache/refresh` (`handler/admin/stats.rs`) or, for API keys, after each change.

## What is hard here

PROJECT.json lists every hazard at its line. The ones that shape the models:

* Breaker methods are `get`, compute, `insert` on a concurrent cache. Two calls on one key may
  interleave, so an update can be lost or a state brought back.
* A half-open circuit waits for an outcome that several paths of the request chain never report.
* A stream counts as a success when its headers arrive, and may fail afterwards.
* Marks are spawned: they run late, possibly after the flag has been cleared or the request has
  been answered, and they may fail. The snapshot a request uses may be older than the flag.
* Usage records pass three places (channel, buffer, table), each of which can lose them.
* The end of `main` races the shutdown task.
* A client may go away: the request ends at an await, and what would have followed does not happen.
* Loads of a cache are several queries, or a query and several writes, and exclude nobody.
* Requests are sent again, bodies are cut into chunks, answers of a resolver change.

## Modules

| module | models | state and actions against the code |
|---|---|---|
| `BreakerEntry` | one `CircuitEntry` and what the methods compute from it | operators only: `AfterFailure`, `AfterSuccess`, `Probes`, `AfterProbe`, `Denied`, `Listed`; `WellFormed` and `HistoryAgrees` are the inductive facts |
| `AtomicBreaker` | the abstract breaker: each method one step | `entries`, plus history `probes` (admissions since the key last opened) and `streak` (failures since the last success) |
| `CircuitBreaker` | the breaker as it runs: a method that writes is a `...Read` and a `...Insert`; `pending[c]` is the local `entry` between them | `ResetBegin`/`ResetVisit` are `reset_credential`'s walk, `Evict` is moka's capacity, `Tick` the clock; `alone` is history |
| `ScheduleOrder` | the order of candidates: `merge_preferred_first`, `reorder_by_affinity` | operators on the nest the scheduler returns; `Candidates` flattens the triple loop |
| `ProxyRequest` | requests through `handle_chat_request` and `proxy_chat_completion_inner`, with breaker, flags, snapshot, affinity and spawned marks | a step is what runs between two awaits; `req[r].pc` is the await a request is at, `todo` the rest of the triple loop |
| `UsageLog` | the collector and the end of the process | `channel`, `buffer`, `table`; `collector` is the await `run_collector` is at; `server` follows `main` and `graceful_shutdown` |
| `UsageStats` | the SQL of the statistics and of the archive, and the merging of two tables' answers | operators only; a row names the requests it counts, its numbers are functions of them |
| `UsageArchive` | both usage tables over days, `create_batch`, the archive at startup and from `spawn_daily_archive`, `query_stats` | `archiver.at` is where `main` or the task is, `query.at` the next of `query_stats`'s four reads; `Stop` and `Start` end and start the process |
| `UsageAccount` | what a usage log promises, whatever buffers lie between | records are taken in or lost, wait in order, and leave from the front for the table or for good; `UsageLog` implements it with `pending` as buffer and channel |
| `ApiKeyCache` | the set of accepted keys and the `api_key` table | `ChangeKey` is a create, update or delete with the start of its refresh; `LoadActiveKeys`, `InvalidateAll`, `InsertKey` are the refresh; `keyCall[c]` is where a call is |
| `ModelTables` | the four tables of the schedule under the admin handlers, with their foreign keys | an action per statement; `ImportFind` and `ImportWrite` are `import_one` |
| `ModelScheduler` | `schedule_all_available` on a miss | `QueryModels`, `QueryMaps`, `QueryProviders`, `QueryCredentials`, each on the tables as they are then; `load` holds the answers so far |
| `AdminAuth` | `AdminAuthMiddleware`, the admin key's row and its bootstrap | `Arrive` is everything up to the awaited query, `Admit` and `Refuse` what follows; `used_nonces[w]` is worker w's map |
| `UrlCheck` | `SsrfChecker` | `Hit`, `Miss`, `Resolve`, `Insert`; `verdict` is the cache with the age of each entry |
| `SseScanner` | the buffer of a stream scanner | `Push` and `Finish`; bytes are the few kinds that the buffering tells apart |
| `MCCircuitBreaker`, `MCProxyRequest`, `MCServerParts` | instances for TLC | model values and small schedules; `MCServerParts` puts six parts that share no state into one run |
| `BreakerEntryProofs`, `CircuitBreakerProofs`, `ProxyRequestProofs`, `UsageLogProofs`, `UsageArchiveProofs`, `RequestPathProofs`, `ModelSchedulerProofs`, `DataLemmas` | theorems | see [proofs](#proofs) |

`CircuitBreaker` has `AtomicBreaker` as its abstract specification (`Atomic == INSTANCE
AtomicBreaker`, the same variables), and `ProxyRequest` uses the same `BreakerEntry` operators
with each breaker call as one step: `CircuitBreaker` says what that abstracts from, and under
which condition it is exact. `UsageLog` begins where `ProxyRequest` ends, at `spawn_usage_log`,
and `UsageArchive` where `UsageLog` ends, at `create_batch`. `UsageLog` has `UsageAccount` as its
abstract specification (`Account == INSTANCE UsageAccount WITH pending <- buffer \o channel, ...`).
`ModelScheduler` extends `ModelTables`, and what it computes is the `Schedule` of `ProxyRequest`,
with the flags that `ProxyRequest` keeps in `snapshot`.

Some decisions:

* Time is a countdown. The code only asks whether an `Instant` has passed, so an entry holds the
  ticks left, and 0 once it has passed.
* `alone` in `CircuitBreaker` is history: whether, up to now, nothing has happened to a key (no other
  call, reset, eviction or tick) between the two halves of a call on it. What holds of serial calls
  only is stated under `alone`, of the specification in which calls may overlap.
* `failure_count` saturates at the threshold. The code increments it, zeroes it and compares it
  by `>=`; larger values behave alike (the `u32` wraps after 2^32 failures in a row, left out).
* What upstream answers is chosen freely from `Answers`; a body arrives or is lost.
* A scanner's find is a choice per chunk, and each scanner reports its first find only.
* `ResetStatus` and `ResetBreaker` are two steps, as `clear_quota_exhausted` is awaited before
  `reset_credential` is called. Inside `ProxyRequest` the reset's walk is one step.
* In `UsageArchive` a transaction is its commit, as SQLite has one writer, and a batch is one row.
  The date, which the code takes before the transaction, is taken in a step of its own.
* A client that leaves is `Drop`: the handler's future ends at one of its awaits. It is the HTTP
  server, not this repository, that drops it, so `ClientsLeave` says whether it may happen. The
  task that forwards a stream is spawned and notices at its next `send` (`StreamStop`).
* In `ApiKeyCache`, `settled` and `steady` are history: whether the last load to end was alone and
  succeeded, and which keys have been active since. In `ModelScheduler`, `kept` and `seen` are the
  rows that have been there throughout, or at some time, since the load began.
* A request of `AdminAuth` is its nonce, its timestamp and whether its signature verifies; what the
  middleware refuses before it looks at the nonce changes nothing and has no action. What the row's
  query answers is read when it is answered, by `Admit`.
* The bytes of `SseScanner`: a value is two bytes (`data` and the value), so that a chunk can cut
  it; newline, carriage return and a byte that is not UTF-8 are the others.
* Names of keys, models and providers do not change in `UsageStats`; rows are grouped by id.
* Mutated definitions stand next to the original, under a comment "Mutant"; no specification
  uses them. They are the bugs the properties have been tried against.

## Runs

Passing:

* `breaker_race` (472 thousand states): two callers, two keys, one of which `parse_key` rejects, a
  cache of capacity one, resets and evictions. `EntriesWellFormed`: however calls interleave, no
  stale write yields an entry a single call could not have made (Closed at the threshold, Open
  without an expiry, HalfOpen before it). `ListedIsOpen`: the admin list, which only looks at the
  expiry, lists open circuits. As long as `alone`, so before any overlap: `ImplementsAtomicBreaker`
  (the breaker implements `AtomicBreaker`), `StreakTrips` and `AloneOpenHolds`. What is left of them
  when calls overlap is `EntriesWellFormed`, `OutageTrips` and the run `doc_open_until_ttl`.
* `breaker_outage` (10 thousand): three callers race on one key while nothing succeeds.
  `OutageTrips`: lost increments delay the trip, they do not prevent it.
* `proxy_outcomes` (156 thousand): one request after the other over two providers, both kinds,
  every answer to either attempt, quota flags, snapshot, affinity, and clients that leave.
  `UnavailableMeansAllRefused`: 503 is said only when every candidate was skipped or failed.
  `RecordsMatchReplies`: which usage records a request spawns, by its kind and reply; none, if its
  client left before the answer.
  `EventuallyAnswered`: every request is answered or left, or becomes a stream, and a stream ends if
  its client goes on reading or leaves (see [fairness](#fairness)).
* `proxy_shared` (221 thousand): two requests on one circuit and one credential with late marks,
  stale snapshots, admin clears and resets, upstream answers restricted to those whose outcome the
  code records, and no client leaving: what the others do to a circuit is `doc_probe_recorded`.
  `SomebodyProbes`: a half-open circuit without a permit has a request under way on
  it. `NeverDeniedForGood`: so no circuit stays closed to everybody. `ExhaustedIsLeftAlone`: a
  flag that stays set keeps requests away in the end, whatever snapshots were loaded before it.
* `usage_log` (16 thousand): channel, buffer, batches, full channel, failed inserts, shutdown at
  any point. `EachRecordOnce`: table, buffer and channel are, in this order, exactly the spawned
  records that were neither dropped nor failed. `EventuallyWritten`: no record stays in the
  buffer while the server runs. `ImplementsUsageAccount`: to the outside, the collector is the plain
  account of `UsageAccount`: records leave from the front, in batches, to the table or for good.
* `server_parts` (1.75 million): six parts, each by itself.
  * API keys (59 thousand: three keys, two calls, a cache of two). `QuietCacheIsCurrent`: once a
    change has ended that ran alone and whose load succeeded, the accepted keys are the active
    ones. `SteadyKeysAreAccepted`: a key that stays active is refused only while a refresh still
    has to insert it, however refreshes of others overlap, fail or end. Calls that overlap or whose
    load fails may leave a stale cache; the first property does not speak of them.
  * Schedule (379 thousand). `ScheduleHoldsWhatStayed`: a model, a map that is switched on, its
    provider and a credential that are there during all of a load are in its schedule, whatever
    happens to others in between; `ScheduleHoldsWhatWasThere`: nothing is in it that was not there
    at some time of the load. `CountedListedScheduled`: of the three places that compute the
    available models, the schedule has a credential to try for each model that the service status
    counts, and tries none that `/v1/models` does not list. Neither asks that a map which is switched
    off be scheduled; that it is, is `doc_active_maps`.
    `ImportKeepsMapsOff`: an import does not switch a map on that an operator has switched off,
    even between the look and the write.
  * Admin calls (580 thousand). `AcceptedOnce`: a worker hands a request with a nonce on once,
    however often it is sent again, at the edge of the window and while the first is in flight.
  * URL check (2 thousand). `VerdictIsRecent`: no verdict outlives a change by more than the TTL
    and one resolution, however concurrent misses overlap.
  * Scanner (113 thousand: every stream of up to six bytes, cut in every way).
    `ChunksDoNotMatter`: what has been found in the end is the first value of the whole stream.
    `FoundAtBlankLine`: it is found as soon as a blank line follows it.
  * Usage archive (614 thousand): rows, attempts, failures, restarts and queries over three days.
    `EachRequestOnce`: a request whose row is inserted on its day is counted once, in one table or
    the other. `ArchivedTheDayAfter`: a day stays unarchived only if the process was down, an attempt
    failed or an attempt ran past midnight. Both name what they except (late rows, these excuses)
    because the code loses it; they say that there is nothing else. `StatisticsAreTrue`: archiving
    changes no count, sum or extreme by key, model or day. `NothingCountedTwice`,
    `CountsWhatWasStored`: what a query may say that runs while a batch or an archive commits.

Violations, each of a sentence in the documents; see [below](#disagreements-between-code-and-documents):
`doc_open_until_ttl`, `doc_single_probe`, `doc_probe_recorded`, `doc_stream_failures`,
`doc_active_maps`, `doc_shutdown_flush`.

## Bounds

* Threshold 1 to 3 and `OpenTtl` 1: entries saturate at the threshold and count down to 0, so
  each state of an entry occurs, and every history of a key beyond that repeats one.
* Two keys suffice for races, as a call touches one key and a reset several; two callers for a
  lost update, three to lose an update that was itself computed from a lost one.
* One candidate for questions about one circuit (the breaker keeps keys apart), two maps with a
  credential each for failing over and for affinity.
* `MaxRecords` 6 with `ChannelSize` 2 and `BatchSize` 2: the channel fills, two full batches and
  a partial one occur, records are dropped before and after a flush.
* `Begin` waits for the marks the slot's last request spawned: at most one mark per slot and
  credential is outstanding. Marks of the same credential are not told apart in the code.
* Three requests over three days in the usage archive: two that are aggregated into one row, with an
  average that is no integer, and one in a row of its own; a day can be missed and the one after it
  archived. The queries are one without a range, one of a past day, one that reaches yesterday.
* `CHECK_DEADLOCK FALSE` is given for `UsageLog`, whose process really stops, and for
  `server_parts`, whose usage archive ends with its last day and whose streams end; everything else
  is checked for deadlock.
* `server_parts`: two overlapping calls for every race between two; three keys to overfill a cache
  of two and to keep one key steady while two change; one model on two providers with two
  credentials, of which at most `MaxDisturbed` (3) rows come or go during one load: one for each
  gap between its queries. Time window 2 within 4 seconds reaches both sides of the edge, with a
  timestamp ahead of the clock. `VerdictTtl` 3 and `ResolveTime` 2: a resolution can span the
  expiry of the verdict that another one inserted. No step of a part reads or writes a variable of
  another, so the variable `part`, which is chosen at the start, loses no interleaving that any
  of the properties could see.

## Fairness

* `ProxyRequest`: a request's next step (`WF` of `Continue`): the HTTP client has a timeout that
  spans the body (`.timeout(...)` in `forward_to_provider`), the wait before the second attempt
  is at most 15 seconds (`retry_delay`), and the runtime polls what is ready. A spawned mark and
  the second half of a reset run, for the same reason. The snapshot's `time_to_live` ends it; time
  passes. Nothing makes a request arrive, succeed or be granted anything.
* Nothing is asked of the loop that forwards a stream (`Forward`): `tx.send(bytes).await`
  (`proxy_service.rs:401`) waits for room in a bounded channel, without a timeout, and the timeout
  of the HTTP client is not polled meanwhile. A client that neither reads nor leaves keeps the task.
  So `EventuallyAnswered` has the end of a stream under the condition `ClientReadsOrLeaves`, and
  everything else without it.
* `UsageLog`: the collector is polled while one of its branches is ready (`WF` of `Collect`).
* `UsageArchive` has no liveness property. That timers fire, and that an attempt or an insert ends
  within minutes (the pool's `acquire_timeout` is 60 seconds), are guards of its clock.
* `breaker_outage`: calls that have started finish, and an outage keeps producing failures on
  each key (`SF` of `RecordFailureRead`): that is what the outage is.

## Proofs

For every set of keys, callers and credentials, every threshold of at least 1 and every TTL:

* `TypeCorrect`, `EntriesKeepShape`, `ListedIsOpenHolds` (`CircuitBreakerProofs`): the invariants
  of `breaker_race`, for any number of racing callers. The inductive invariant is `RaceInv ==
  TypeOK /\ EntriesWellFormed`; the point of it is that `EntriesWellFormed` also covers the entries
  that are computed and not inserted, so that an insert replaces one well-formed entry by another
  whatever has happened to the key in between.
* `AloneRefinement`: as long as `alone`, `CircuitBreaker` implements `AtomicBreaker`. `AloneInv`
  says that, while `alone` holds, a computed entry still is what its call would compute now
  (`StillFits`), no two calls are under way on a key, and the history agrees with the entries
  (`Atomic!IInv`); with it every insert is the atomic step and every read a stutter (`SerialStep`).
  Once `alone` is false nothing is claimed, and it never becomes true again.
* `AtomicStreakTrips`, `AtomicOpenHolds`: properties of the abstract breaker. They need the history
  to agree with the entry (`HistoryAgrees`): a closed entry's count is its streak, an open one has
  had no probe, a half-open one has had one probe while it has its permit and two after.
* `AloneStreakTrips`, `AloneKeepsOpen`: the same of the breaker as it runs, while `alone`; and
  `AloneProbesBounded`: where the documents say one probe (`doc_single_probe`) the code admits two,
  one after the other, and no more.
* `BreakerEntryProofs`: what each computation returns, cited by the others.

For every schedule, set of requests and keys, and every choice of answers:

* `RecordsMatchRepliesHold` (`ProxyRequestProofs`). `RequestInv` says, for each await, what has
  been recorded of a request that is there: nothing before the outcome of an attempt is known, and
  in a stream exactly what its scanners have found (`UsageLogs`, `ErrorLogs`). The property speaks
  of answered requests only, whose records are made several steps before.
* `RequestTypesHold` and `UnavailableMeansAllRefusedHolds`. `TypedInv` adds to `RequestInv` that,
  from the plan to the answer, what a request has refused and what is left of its plan make up the
  schedule, and what it is trying is the first of what is left: so a request that has nothing left
  has refused everything. The plan is where this could fail, and `PlanRange` says that it does not:
  whatever key, name and affinity records, the plan holds the candidates of the schedule, no more and
  no fewer. It goes through the nest one level at a time (`ThoseRange`, `ByTargetReach`,
  `ByLoadReach`, `CandidatesRange`). `affinity_maps.pop()` drops all maps with the credential but the
  last, which loses nothing because there is one at most: that is what `ScheduleAssumption` asks, and
  what `build_model_info` returns, as a model has one map for each provider (`UNIQUE (model_id,
  provider_id)` in `migrations/001_sqlite_schema.sql`) and a credential belongs to one provider. That
  two providers may have one name is allowed for.
* `SomebodyProbesHolds`, under `OutcomesReported`: no answer is `Fail`, no body is lost and no
  client leaves. `ProbeInv` adds `EntriesOK`, without which the step that hands out a permit
  could not be told from the one that finds it gone. `doc_probe_recorded` shows that the
  condition is needed.

For every number of records, days and requests, and every size of channel and batch:

* `LogTypeCorrect`, `EachRecordOnceHolds`, `LogRefinement` (`UsageLogProofs`). `LogInv == TypeOK /\
  HasRoom /\ InOrder /\ Accounted`: a buffer below its size whenever one more may be pushed, and
  table, buffer and channel each increasing and each before the next, are what makes equality of
  sequences follow from equality of sets. The refinement maps `pending` to `buffer \o channel`.
* `ArchiveTypeCorrect`, `EachRequestOnceHolds`, `ArchivedTheDayAfterHolds` (`UsageArchiveProofs`).
  `ArchiveInv` adds to the second property that an attempt's date is before today (`ArchiverOK`),
  that a request is in one batch or row only (`Once`), and that what is in the raw table of a day
  that is in the daily one came late (`ArchivedIsOver`): so the DELETE of a day removes nothing that
  counts and is not aggregated.
  For the third, `LeftRowsWait`: yesterday's rows wait for an archive that has not been put off until
  tomorrow, older ones are being archived or their day is excused. `HoursOK` bounds how long an
  attempt, a sleep and a backoff last, from the guards of the clock.
* `StatisticsAreTrueHolds`. `TablesInv` adds that each row was written for one request (`WrittenOK`),
  and that a daily row has the day, key and model of every request it counts (`TablesOK`). So an item
  of either table is the statistics of the requests its rows count (`StatIs`): their number and their
  tokens exactly, being sums over a partition (`SumOfParts`), least and greatest duration too, and the
  durations up to half a millisecond for each request, as each rounded mean is that near to the true
  one (`MeanIsNear`). `MergeTwo` of two disjoint sets of requests keeps this form.
* `NothingCountedTwiceHolds`, for queries beside which days are archived. `CountedOnce` bounds
  what has been counted by the daily table alone until the other one has been read (`ReadUpTo`),
  and by all that was written afterwards. An archive between the two only adds to the first bound,
  and what it moves is no longer read from the second table. With the tables in the other order
  (the mutant) the first bound does not hold.
* `CountsWhatWasStoredHolds`. `CountedAll` says, unless an archive has committed, that what has been
  read of the daily table is still there, that a table that is not read holds nothing that was asked
  for, and that the items lie between what was stored at the beginning and what is stored now. The
  total comes later, so it is at least the items.

What stands between a request and its work (`RequestPathProofs`), for every set of keys, calls,
workers, requests and hosts, every capacity, window and time to live:

* `KeyTypeCorrect`, `QuietIsCurrent`, `SteadyAccepted`. `KeyInv` says what a
  call that is alone has loaded and inserted so far (`AloneIsAlone`), and that a call that has
  loaded holds every steady key (`SteadyIsHeld`).
* `AcceptedOnceHolds`. `AdminInv`: as long as a request passes the timestamp
  check, a worker that has seen it has its nonce (`TracesKept`), so it is in flight at most once
  (`OneInFlight`) and not at all after it was handed on (`NotYetAccepted`).
* `VerdictIsRecentHolds`. `UrlInv` dates each answer: what a call has resolved is right if the host
  has not changed since the call began (`ResolvedIsRight`), and a verdict is right if it has not
  since its age and one resolution ago (`CachedIsRight`). The property speaks of the oldest verdict
  only, which says nothing of what a call under way will insert.

* `ChunksDoNotMatterHolds`, `FoundAtBlankLineHolds`, for any values, streams and chunks. `ScanInv`:
  while nothing has been found, what `push` has cut off ends with a line end and holds no value line,
  and the tail is the rest. So no line of what was cut off can still grow, and the value lines of the
  tail are those of the stream, moved (`RestLines`). When something has been found it is the value of
  a line that a line end follows and no value line precedes, and later chunks leave it the first
  (`FirstStays`). With a byte that is not UTF-8 nothing is claimed, as in the properties.

What these proofs need of data is in `DataLemmas`: the least element of a set of numbers, an
induction for each fact that needs one (stated of a set of numbers or of sets, not of a predicate),
what `Min`, `Max` and `FlattenSeq` return, what a finite set in an order is (`InOrderRange`: the
`sort_by_key` of a miss returns the credentials it was given), and sums over finite sets: of two
disjoint sets, of a sum, and of the parts of a set one by one (`SumOfParts`).

For every set of models, providers and credentials (`ModelSchedulerProofs`):

* `ScheduleHoldsWhatStayedHolds`, `ScheduleHoldsWhatWasThereHolds`. `LoadInv` says of each answer
  that the load holds so far that it lies between `kept` and `seen`, the answer of the providers
  only as far as the maps ask for them; that a map is switched on is a row of its own there. No operator's action is looked at: whatever changes, rows
  only leave `kept` and join `seen` (`WatchedStep`).
* `CountedListedScheduledHolds`, from the foreign key of the credentials
  (`CredentialsHaveProviders`), which every action of the operator keeps: without it a model would be
  counted for a provider the schedule cannot find.
* `ImportKeepsMapsOffHolds`, an action property, from the types of the maps.

The assumptions are those of the modules, each evaluated by TLC in a run: the threshold is not 0 (a
configured 0 behaves as 1), the TTL and the window are natural numbers, `None`, `NoNonce` and the
`"none"` of a map without credential are none of the values they stand beside, each key ends with a
credential, the schedule has a model's credential in one of its maps (`ScheduleAssumption`, see
above), the API keys are finitely many, channel and batch hold at least one record, requests are
numbered from 1 with numbers for their usage (`UsageAssumption`), and a query groups by a column
the code knows and asks for days (`AsksAssumption`).

Only model-checked is liveness, which is beyond the prover: `OutageTrips`, `EventuallyAnswered`,
`NeverDeniedForGood`, `ExhaustedIsLeftAlone` and `EventuallyWritten`. Every invariant and every
action property of a run that passes is proved. The library's induction theorems, which take a
predicate as parameter, are not usable with the provers at hand; where a proof goes along a
sequence or a sum it uses the least element of a set of numbers instead. What a run with an expected
violation shows is a single execution, and TLC's.

## Disagreements between code and documents

With a run:

* `doc_probe_recorded`: a probe that ends in a non-retryable answer, or whose body is lost, is
  reported to nobody. Two of them leave the circuit half open without a permit, and as entries of
  the breaker have no TTL it stays so until a reset. The documents say that a probe's outcome
  closes or reopens the circuit and that it recovers by its TTL.
* `doc_single_probe`: an expired circuit lets two requests through one after the other, not one:
  `is_allowed` sets the permit (penalty.rs:102) of the request that it has just let through as well.
  The documents say a single probe throughout; the comment in the method expects more of racing calls
  only, and the run leaves those aside.
* `doc_stream_failures`: a target all of whose streams carry an error is never tripped if the
  threshold is above 1, because each stream's headers reset the count.
* `doc_open_until_ttl`: two overlapping `record_failure` calls can turn a freshly opened circuit
  into a closed one. The comment on the method expects under-counting, not reopening.
* `doc_active_maps`: a `provider_model_map` that is switched off (`is_active`) is scheduled all the
  same. The comments in `schedule_all_available` and two documents speak of the active maps,
  `docx/admin_ui.md` has the switch and `docx/database_schema.md` the index for it, but
  `list_filtered(None, None)` returns every map and nothing after it looks at the column; only
  `count_available_models` does. (`docx/architecture.md:84` asks only that a map exist.)
* `doc_shutdown_flush`: nothing makes `main` wait for the flush of `graceful_shutdown`. When the
  flush does run, it writes the buffer and leaves what is in the channel.

Seen while modelling, each a fact of a single call and without a run: `reset_credential` passes over
entries whose model or provider name contains `|`; an affinity hit moves the target's map to the
front and leaves the credentials in the map in their order; a request whose upstream body is lost
is answered 500 without a usage record; the total of the statistics has minimum 0 when one of the
two tables has no row in the range (`MergeTwo`, `NoRows`), so without a range until the day's first
request; and the archive groups by key, provider and model and stores the greatest credential, where
`docx/database_schema.md` names the credential among the group columns, so that requests change
their credential in the statistics when they are archived (grouping as documented would break the
table's own unique key: `AggregateByCredential`). Days that `ArchivedTheDayAfter` excuses are not
archived later: their rows stay in `usage_log`, and a query whose range ends before yesterday does
not read that table.

Of the newer parts, likewise without a run:

* A model whose maps have no active credential is in the schedule, with nothing to try;
  `docx/architecture.md` says that both `schedule_all_available` and `get_all_model_names` leave it
  out. The latter does.
* Of two refreshes of the API keys that overlap, the one that loaded first may insert last, so that
  a key that was revoked meanwhile stays accepted until the next refresh. `QuietCacheIsCurrent`
  therefore speaks of calls that ran alone.
* `get_service_status` subtracts the available models, and the active keys, from totals of other
  queries that run at the same time: a row deleted in between makes the `u64` wrap. Its
  "active" credentials are all of them, as `list()` does not filter.
* An import without `protocols` sets those of a map that is there to "openai".
* Streams with `\r\n\r\n` have no `\n\n`: a scanner keeps them in its buffer until the stream ends,
  and finds its value only then.
* Nonces are kept per worker and lost at a restart, and a timestamp ahead of the server's clock
  passes for longer than a nonce is kept; `AcceptedOnce` names both.

## Not modelled

* Eviction of the breaker's entries inside `ProxyRequest` (it is in `CircuitBreaker`).
* Loads of `count_by_credential` that change while `reorder_by_affinity` sorts: `ByLoad` takes
  one reading of all of them.
* Request validation, protocol and context-window filters: `Schedule` is what they leave, and it
  is not empty. Header rewriting, token estimation, encryption, formatting: pure data.
* The JSON of an event and the four shapes of usage in it (`scan_usage_json`, `proxy_types.rs`):
  what it finds is a choice.
* Which addresses are private, how a host is cut out of a URL, and that the connection resolves the
  name once more: data, and a library's.
* Signatures, public key parsing and fingerprints; encryption: libraries, and formatting.
* Connecting to the database, applying its schema and migrations, reading the configuration: run
  once before anything is served, with nothing beside them.
* The columns of the tables that only travel along, and the priorities in `ModelScheduler`
  (`ScheduleOrder` takes the schedule as it is ordered).
* The statistics of the running server beyond `query_stats` (`get_service_status`): sums of one call.
* The desktop manager (`src/free_models_manager`): a client of the admin interface. Each of its
  commands copies the loaded key pair and sends one signed call: a request of `AdminAuth`.
* The migration script (`migrate_mysql_to_sqlite.py`): a copy made once, by one process.

## Plan

Done: every component whose state is shared by requests, tasks or admin calls. Left:

1. Usage extraction by protocol, if it gains state across events.
