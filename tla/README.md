# Verification of klag-exporter

TLA+ models of klag-exporter, the Prometheus exporter of Kafka consumer lag
(`src/src`, Rust, tokio), the TLC runs that check them on small instances, and
proofs, checked by TLAPS, of what matters most for every instance.

A process exports several Kafka clusters. One task per cluster, its manager,
collects offsets at an interval and writes the result into a registry all tasks
share; an HTTP server renders it for every scrape. With leader election on, only
the instance that holds a Kubernetes Lease collects.

## Inventory

| Part (source) | State | Operations | Talks to |
|---|---|---|---|
| Metrics registry (`metrics/registry.rs`) | three `DashMap`s keyed by cluster (points, `last_update`, `last_update_timestamp`), health flag | `update_with_options`, `remove_cluster`, `set_healthy`, `render_prometheus`, `cluster_count`, `get_otel_metrics` | written by managers, read by HTTP and OTel |
| Cluster manager (`cluster/manager.rs`) | `was_leader`, `consecutive_errors`, `current_backoff`, `cycle_count`, the await it is at | ticks, `collect_once` under a timeout, backoff, recycling, cache sweep, shutdown | collector, sampler, registry, leadership flag, shutdown broadcast |
| Offset collector (`collector/offset_collector.rs`) | three TTL caches | `collect_parallel`, `fetch_all_group_offsets_batched` | Kafka client, blocking threads |
| Retry (`retry.rs`) | attempt number | `retry_with_backoff` | used by the group fetches |
| Kafka client, admin calls (`kafka/client.rs`, `kafka/admin.rs`) | the current clients behind a mutex | `fetch_watermarks_for_partitions`, DescribeGroups in rounds, ListOffsets, `recycle` | librdkafka |
| Lag calculator (`collector/lag_calculator.rs`) | none | `calculate` | collector's snapshot |
| Timestamp sampler, consumer pool (`collector/timestamp_sampler.rs`, `kafka/consumer.rs`) | message cache, pool of consumers | `compute_time_lags`, `acquire`, `release`, `recycle_pool`, sweep | blocking threads |
| Rate sampler (`collector/rate_sampler.rs`) | ring buffer of watermarks per partition | `record_watermarks`, `rates_snapshot` | manager |
| Leadership (`leadership/`) | flag, watch channel, election task | `start`, `run_election`, `stop`, `is_leader` | lease manager (external), managers, HTTP |
| HTTP server (`http/server.rs`) | none | `/metrics`, `/health`, `/ready`, `/leader` | registry, leadership flag |
| OTel exporter (`export/otel.rs`) | interval loop | export, shutdown | registry |
| Start and shutdown (`main.rs`) | shutdown broadcast, task handles | spawn, signal, join for ten seconds, `stop()` | all |
| Configuration (`config.rs`) | none | parse, validate | all, as constants |

What is hard about it, and what correctness means:

- **The registry is three maps without a lock around them.** A scrape runs
  between the map operations of an update or a removal, and filters by one map
  what it takes from another. It must not serve points older than the threshold,
  and no call may leave a cluster in some of the maps only.
- **A manager looks at leadership once per tick**, then awaits for a long time: a
  collection, a backoff of minutes, a recycling. A loss of leadership, the
  shutdown signal and the collection timeout fall anywhere into that. A cluster
  must be exported only by a manager that was activated as leader, be withdrawn
  when leadership goes, and every manager must end after the signal.
- **One health flag, many managers**, each with an error count of its own.
- **The lease, the channel and the flag** are three copies of one fact, updated
  one after the other while leases expire, tasks die and processes restart. No
  change may get lost on the way, and after the faults exactly the holder leads.
- **A cycle reads a moving cluster** at three moments, and single answers may be
  missing. Lag and loss must be true of some moment of the cycle.
- **A timed-out cycle leaves its work behind**: spawned fetches and blocking calls
  go on beside those of the next cycle. Permits must not leak, every fetch must
  end, and nobody may wait for ever.
- **Cached, pooled and remembered values** (group list, metadata, cleanup policy,
  timestamps, consumers, watermark history) are used after the world moved on. What is
  published from them must have been right a bounded time ago.
- **Requests in rounds**: groups fail alone or with their chunk, are asked for again or
  given up. None may get lost between the rounds or be asked for twice.
- **Time**: interval, collection timeout, backoff, staleness threshold and the join at
  shutdown are set against each other, and blocking calls ignore all of them.

`PROJECT.json` lists each hazard at its line, with the properties about it.

## Modules

| Module | Models | Proofs |
|---|---|---|
| `MetricsRegistry` | registry and scrape, one map operation per step | in `ClusterManager_proofs` |
| `ClusterManager` | the managers of a process; extends `MetricsRegistry` | `ClusterManager_proofs` |
| `ClusterExport` | what a process promises about its clusters; abstract, implemented by `ClusterManager` | in `ClusterManager_proofs` |
| `LeaderElection` | election tasks of several instances, lease manager external | `LeaderElection_proofs` |
| `LagCalculator` | the offsets of one partition, as operators | |
| `LagSnapshot` | the three readings of a collection cycle on a moving cluster; extends `LagCalculator` | `Lag_proofs` |
| `GroupFetch` | fan-out of the group fetches, retries, detached tasks, recycling | `GroupFetch_proofs` |
| `TimestampPool` | message-mode sampling: cache, consumer pool and its recycling | `TimestampPool_proofs` |
| `DescribeGroups` | DescribeConsumerGroups in chunks and rounds | `DescribeGroups_proofs` |
| `GroupRequests` | what the collector may rely on when it asks about groups; abstract, implemented by `DescribeGroups` | in `DescribeGroups_proofs` |
| `CollectionCycle` | the cycles of one cluster in time: blocking calls, timeout, the three caches | `CollectionCycle_proofs` |
| `RateLag` | rate-mode sampling and the time lag made of it; extends `LagCalculator` | `Lag_proofs` |
| `ExporterProcess` | one process in time: configuration, start, schedule of a manager, HTTP and OTel tasks, shutdown | `ExporterProcess_proofs` |

`MC*.tla` and the `.cfg` files instantiate them. A definition introduced by
"Faulty variant" in its comment is not part of a specification: it is a plausible
mistake in the code that the checks are known to find (`PROJECT.json`, `mutants`).

How the modules share the program: `ExporterProcess` has the manager's loop with its
times and one cluster; `ClusterManager` has several managers, the shared registry and
flag, and no time. What both call a collection is the subject of `CollectionCycle`
(order, caches, timeout), which in turn leaves the contents of its calls to
`DescribeGroups` (descriptions), `LagSnapshot` (watermarks and offsets) and `GroupFetch`
(the fan-out). What follows a collection, the sampling, is `TimestampPool` or `RateLag`.

### How state and actions correspond to the code

**MetricsRegistry.** `metrics`, `lastUpdate` and `lastUpdateTimestamp` are the maps;
the points of a cluster are represented by the instant their update read the clock,
which is all the properties ask about. `writer[c]` is the map operation the
cluster's manager does next. `BeginUpdate` is everything `update_with_options` does
before its first insert; `InsertMetrics`, `InsertLastUpdate`, `InsertTimestamp` and
the three `Remove...` steps are one line each. A scrape has two passes over the
maps; `RenderPoints(c)` holds the lock of one entry of `metrics` while it reads
`last_update`, as the code does, and is one step for that reason.

**ClusterManager.** `pc[c]` is the await the task is suspended at. What runs between
two awaits is one action, except calls into the registry, which run as its map
operations. The timeout can strike at both awaits of `collect_once` and not after
them. `collecting` fails or times out, and only the failure backs off.
`latePublishes` counts updates stored since the last loss of leadership; it is a
history variable. The refinement mapping to `ClusterExport` is at the end of the
module: a cluster retires at the map operation at which readers see it go.

**LeaderElection.** `held`/`unseen` are the watch channel, `isLeader` the local
variable, `flag` what managers and handlers read; `run_election` moves through
`reading` (`borrow_and_update`), `setting` (`set_state`), `waiting` (`select!`),
`dropped` (join of the lease task). The lease manager is a library and is taken at
its best: it never lets two instances hold the lease, and says that it lost it
before somebody else can get it. Faults are failed starts, failed renewals, dead
lease tasks, crashes and restarts.

**LagSnapshot.** The cluster appends, trims and commits between any two answers.
`AskEarliest`, `AskLatest` answer partition by partition, or not at all;
`ReadOffsets` is the answer about the group, which is empty if its fetch failed.
`BeginCycle` may happen anywhere: cycles fail and time out.

**GroupFetch.** A round is one fan-out. `task` follows a group through semaphore
(`waiting`), queue of the blocking pool (`queued`), call (`calling`), backoff
(`sleeping`) to its end. `CycleTimesOut` moves the manager and not the tasks.

**TimestampPool.** `task` follows a fetch through `get_timestamp`: semaphore and cache
(`waiting`), `acquire` (`acquiring`), `assign` and `poll` (`reading`), the drop of
`PoolGuard` (`releasing`), the insert into the cache (`storing`). The lock of the pool
is held for one step. Several groups share one partition. `log` is the set of offsets whose
message can still be read: retention takes them from the front (`low`), compaction from
anywhere but the end. The broker answers with the first message left at the offset or after
it (`MessageAt`), and the code takes its timestamp without a look at its offset. A consumer
is an identity; a timestamp is the offset of the message it was read from, which makes "the
right timestamp" a comparison of offsets. `out` holds what the handles of the awaited cycle
give.

**DescribeGroups.** A request is a set of groups; `chunk` says which call a pending group
belongs to, `call` where that call is, `result` what its response says of the group.
Order has no effect in the code, so a round cuts its groups in any way into as few chunks
as their size allows. Error codes are classes: the transient ones of
`is_retriable_admin_code`, those that are not, and none at all; an error of a single
group carries librdkafka's own flag besides. `asked` and `verdict` are history.

**CollectionCycle.** `phase` is the call `collect_parallel` is at; `elapsed` and `waited`
are the times since the cycle and the call began. The broker answers at some moment of the
call, `answer` holds what it said. A cache holds the age of its contents, and an entry as
old as its time to live is as good as none. The timeout strikes at awaits only, as the
code's blocking calls do not give way to it. Groups and topics come, go and change their
policy at any moment, but each stays as it is for `Calm` units of time: without that limit
the ages the properties speak of would never be reached.

**RateLag.** A cycle reads its watermark (`ReadWatermarks`, offset_collector.rs:350) and
stamps it later (`Cycle`, rate_sampler.rs:82), after the group fan-out with its retries:
`reading` is what is read and not yet recorded, and time passes and producers write
meanwhile; a cycle that fails or times out drops it. A sample is its age since the stamp and
how far the end of the partition is ahead of the watermark it recorded, so that offsets only
occur as differences. A rate is a fraction, a time lag a whole number of milliseconds, cut
off as `(secs * 1000.0) as i64` does. A watermark that falls short is the fallback to the
low one when LATEST was not answered. `rate`, `steadyFor`, `calmFor`, `quietFor` and
`interval` are history: they say what the producers did and how long ago something disturbed
the samples.

**ExporterProcess.** `main` is where `main`/`async_main` are, `manager` where the loop of
`run` is, `server` and `otel` the other tasks. `due` counts down to the next tick of the
interval and goes below zero when the loop is late, which is how tokio's default makes up
for missed ticks; `age` is the age of the metrics in the registry. A step that waits for
nothing is taken before `Tick`. Configurations are records of the settings `validate`
looks at, with values on either side of each of its limits. The end of a process takes time
in three places after the signal: the open connections (`draining`), the join (`joining`)
and, once the managers are joined or given up, first the election's task (`releasing`, until
`election` is no longer running) and then the blocking calls under way (`dropping`):
dropping the runtime at the end of `main` drops the tasks and waits for what they have on
blocking threads, `left` units of time. There are such calls if the manager was at work or
tasks of a timed-out cycle still were (`detached`).

## Runs

Runs that pass:

| Run | Shows | Instance and why it is enough |
|---|---|---|
| `registry` | types, `RenderedFresh`, `MapsAgree`, `StaleStampIsOnItsWayOut` under every interleaving of writers, scrape and clock | 2 clusters (writers never share a key, so two show every interplay), threshold 1, clock up to 3: points get stale and are renewed |
| `managers` | types, `UnhealthyForAReason`, refinement of `ClusterExport`, `StandbyIsCleared`, `ShutdownCompletes` | 2 managers share flag and shutdown; errors counted to 3, the number they are compared with; backoff doubled once and capped at 2; recycling after every cycle. The clock stands still: nothing here depends on it |
| `election` | types, `StaleFlagIsTransient`, `Failover` | 2 instances, one to lose the lease and one to win it; 3 faults, enough for a fault on each side and one during recovery |
| `snapshot` | types, `LagWithinCycle`, `LossWithinCycle`, `RatioAlarmIsTrue` | 1 partition (numbers of partitions are independent), offsets to 4: an offset below, inside and above the retained part, before and after the log moved |
| `group_fetch` | types, `PermitsAccounted`, `MissingForAReason`, `EveryFetchEnds`, `ManagerComesBack` | 2 groups for 1 permit, 1 retry, 2 rounds under way (one detached, one awaited), 1 blocking thread that the calls and the recycling compete for |
| `timestamp_pool` | types, `ConsumersExclusive`, `TimestampBelongs`, `ConsumersBounded` | 2 groups, a pool and a semaphore of 1, 2 rounds under way: a consumer in use, one idle, one made on demand and one under construction, hence 4 consumers; offsets 0 and 1, so that a group moves, and the message at its offset is there, deleted by retention, or compacted away above the low watermark. Longer logs are left to the proof |
| `describe` | types, `GivenUpForAReason`, `AskedWhileOpen`, refinement of `GroupRequests` with its liveness | 4 groups in chunks of 2 with 1 permit: two full chunks, one that waits, and chunks of the next round that mix failures of both; 2 retries, so that there is a first, a middle and a last attempt |
| `collection` | types, `OverrunBounded`, `SnapshotIsRecent`, `CompactionForAReason` | 1 group and 2 topics, so that policies can be mixed up; times to live 2, 1 and 2, so that caches run out at different cycles; timeout 2, calls of 1, calm of 2 |
| `rate` | types, `SteadyRateIsClose`, `NoTimeLagForAReason` | 3 samples, so that one is neither oldest nor newest; an age limit of 3, so that either limit can be the one that evicts; a delay of up to 1 between reading and stamping, so that windows come out longer and shorter; rates 0, 1, 2 with 1 the least that counts; jumps of 1; groups one ahead and up to 4 behind; 2 milliseconds in a unit of time, so that the cut to a millisecond shows: a group one behind can come out at 0; the group's other partitions contribute nothing, an unknown or a known time |
| `process` | types, `StaleForAReason`, `OrderlyExit`, `PanicForAReason` | an interval of 3 with a timeout of 2 and blocking calls of 3, so that a call outlasts the timeout; backoff of at most 2; a join of 2, shorter than what it waits for; 6 for the two watermark requests one blocking task makes, longer than the join; the schedule up to one interval late |

Runs that show where documentation and code part (details and quotes under
`findings`): `dead_election` (an election task that ended is not started again) and
`spurious_loss` (without an EARLIEST answer every lagging group has lost data).

What a reader of the models should know besides. No run of its own states these. For some no
document contradicts the code; where one does, its lines are named, and what the code does
instead is in the model and in the properties of a passing run.

- A cycle under way when leadership goes stores one more update, which is why
  `ClusterExport` allows one.
- The health flag is left alone when leadership is lost (`EndDemotion`): a process that
  was unhealthy answers 503 on `/health` as a standby, where
  `docs/high-availability.md:292` lists 200.
- `/ready` and the OpenTelemetry export look at what is stored, not at how old it is.
  `StaleForAReason` says when the two part from what a scrape serves: after two failures
  in a row. `config.rs:36` speaks of "two full poll cycles of slack"; a failed cycle starts
  a poll after the last good one and the next may end a timeout after its tick, so that
  the second failure uses up the three intervals.
- A new group is visible after a time to live, a call and a cycle (`SnapshotIsRecent`),
  which `config.rs:181-184` rounds down to the time to live.
- Calls of a timed-out cycle run beside those of the next one, each cycle with a semaphore
  of its own: `max_concurrent_groups`, which `config.rs:160-162` names as the bound of the
  blocking calls, bounds those of one cycle.
- The retention ratio is 0 when the window is empty, also for a group that lost data.
- `http_host` and `cache_ttl` are not validated and panic later (`PanicForAReason`), the
  first with the managers running; `main.rs:62-64` wants such an error early.
- The join of ten seconds is shorter than a backoff or a collection may be: main then goes
  on without the managers' cleanup, which the end of the process makes harmless. But ten
  seconds are no bound for that end. An open connection puts off the join for as long as it
  lasts. After the join main waits for the election's task, without a limit
  (main.rs:219, kubernetes.rs:213-215): it may be creating its client, or wait for the lease
  task. With the election behind it, dropping the runtime (main.rs:93-98) waits for the
  blocking Kafka calls under way, of 30 seconds each by default. `OrderlyExit` counts the
  last of these and leaves out the first two. Managers that were given up go on while main
  waits for the election's task, and may collect beside the next leader.
- `README.md:646` says of the recycling that it "only runs between collection cycles after
  all in-flight operations have completed". It runs between cycles, but the calls of a
  timed-out cycle may be in flight: `GroupFetch` and `TimestampPool` have it beside them,
  and their properties hold. The `Arc` of a client makes it harmless.
- `docs/metrics-collection.md:55,262` and `docs/compaction-detection.md:79-88` say that
  compaction is detected by comparing the offset of the message that was read with the one
  asked for. Nothing compares them (consumer.rs:168-180); the label comes from the topic's
  `cleanup.policy` (lag_calculator.rs:191, `CompactionForAReason`). `TimestampBelongs` says
  how far off the timestamp may be: as far as messages were deleted.
- The comment at offset_collector.rs:215-218 has the lag calculator suppress the data-loss
  warning on compacted topics. It does not: lag_calculator.rs:148 looks at the watermark
  only, and so does `DataLossDetected`.
- A time lag is cut off at the millisecond (timestamp_sampler.rs:224): a group that lags by
  very little is at 0 seconds (`NoTimeLagForAReason`).
- The largest time lag of a group starts at 0 (lag_calculator.rs:132): when none of its
  partitions has an estimate it is published as 0, where `README.md:65` lets one expect no
  value, as is the case for its partitions.

`CHECK_DEADLOCK FALSE` is set where the system ends: managers stop after the
signal, and with the bound on faults used up every election task may be done. The other
runs are checked for deadlock; a process that is over stutters explicitly.

### Bounds

`MaxTime` (clock), `MaxErrors` (errors are only compared with 3), `MaxOffset`
(length of the log), `Consumers` (clients that can exist at once), `MaxFaults`
(election), `Rounds` (fan-outs under way at once), `Calm` (how long a group or topic stays
as it is), `MaxRate`, `MaxShift`, `MaxLag` (what producers, fallbacks and groups do to
offsets), `MaxDelay` (time between the reading of a watermark and its stamp), `LongestBlock`
(the longest blocking task: two requests of `kafka_timeout`, or one of another timeout),
`MaxLate` (how late a schedule gets). Ages and histories stop counting where
nothing tells them apart any more. The proofs hold for every value of them.

### Fairness

- `FairManagersSpec`: weak fairness of each manager, because every await of the loop
  ends by itself (collection timeout, timer, blocking pool). Strong fairness of the
  shutdown branch: `select!` polls its branches in random order, so a branch that is
  ready again and again is taken. Leadership and collections owe nothing: they may
  change and fail for ever.
- `LeaderElection!FairSpec`: weak fairness of the election task and of releasing or
  expiring a lease; strong fairness of acquiring, which the lease manager tries for
  ever. No fairness for faults, stops and restarts.
- `GroupFetch!FairSpec`: a call ends by its own timeout, a backoff by its timer; per
  round, not per task. Strong fairness of getting a blocking thread, which tokio
  hands out first come, first served. The collection timeout owes nothing, so
  `ManagerComesBack` does not rest on it.
- `DescribeGroups!FairSpec`: weak fairness of the request as a whole, since every call
  ends by its request timeout and every backoff by its timer. What the calls answer owes
  nothing: they may fail for ever, and the attempts run out.
- `CollectionCycle`, `RateLag` and `ExporterProcess` measure time instead: `Tick` is
  disabled where something must happen first, so that "within" is an invariant.

## Proofs

All are invariance proofs by an inductive invariant, over the specifications TLC
checks, from the assumptions on constants named in the modules.

- **Registry.** Inductive: types, scrape and writers in step, and for the freshness
  that while a cluster is in `last_update` with a stamp, its points are at least that
  new; this needs the order of the three inserts (points first). Theorems:
  `RegistryTypeCorrect`, `ScrapesAreFresh`, `EntriesAreWhole`, and the action property
  `StaleStampsAreLeaving`.
- **Managers.** `ManagersUseRegistry` first: each step of the managers is a step of the
  registry or leaves it alone, so the registry's theorems hold of the process. The
  invariant says that the registry call under way is the one the manager's place
  calls for, that a manager inside a cycle remembers leading, that a withdrawn cluster
  exports nothing, and that at most one update is late. It gives `TypeCorrect`,
  `UnhealthyIsJustified` and, with one case per action, `ManagersImplementExport`:
  initial states map to initial states and every step to a step of `ClusterExport` or
  a stutter.
- **Election.** `StaleFlagIsTransient` needs what is known at each place of the
  election task about channel, local variable and flag, and that a holder's task
  runs. Theorems: `TypeCorrect`, `NoLostNotification`, and with the lease manager's part
  of the invariant `LeadersDoNotSettle`: of two instances that lead one is about to stop.
- **Snapshot.** The log only grows at both ends, so an answer lies between the state
  at the start of the cycle and that at the reading of the offsets. Theorems:
  `TypeCorrect`, `LagIsTrue`, `LossIsTrue`, `RatioIsTrue`.
- **Group fetch.** The accounting of permits (free permits plus groups with a call
  make the limit, in every unfinished round) bounds the permits; attempts are counted
  in the states that depend on them. Theorems: `TypeCorrect`, `PermitsNeverLeak`,
  `NoGroupCutShort`. Of `EveryFetchEnds` all but the fairness is proved:
  `FetchesTakeFewSteps` gives a measure that every step of a fetch lowers and no step of
  another raises, `FetchesNeverWaitForEachOther` that there is such a step to take.
- **Timestamp pool.** The invariant says what a fetch has at each place, that the pool
  under construction is no larger than the old one, and that no message left in the log
  lies between an offset and its timestamp in cache, fetches and results: what retention and
  compaction take away can only make that truer. Theorems: `TypeCorrect`, `NeverShared`, `TimestampsAreRight`. For
  `ClientsAreBounded` the permits are counted as well: a consumer is used only by a fetch
  with a permit, so it has one of the `MaxConcurrent` places of a fan-out under way to
  itself, and an injection into these places bounds the number.
- **Descriptions.** The invariant ties the attempt number to the calls that asked for each
  pending group: once more for those whose call of the round was made. With it a group
  given up after the last attempt has been asked for in all of them, and pending groups
  are exactly those neither described nor given up. Theorems: `TypeCorrect`,
  `NoneGivenUpLightly`, `SettledIsNotAsked`, and `RequestsAreSettledOnce`, the steps of
  `GroupRequests`. That a request ends is liveness; what it rests on is proved:
  `RequestsTakeFewSteps`, a measure lowered by every step, and `RequestsGoOn`, for which
  a set of any size must be shown to have a partition into as few chunks as their size
  allows (a numbering of the set, divided by the chunk size).
- **Collection.** The invariant bounds `elapsed` at each call by what may lie before it,
  and says of every cache entry, answer and working set that it was right within the time
  its age adds up to (`RosterRight`, `TopicsRight`, `PolicyRight`, one part per group or
  topic). Theorems: `TypeCorrect`, `CycleIsBounded`, `SnapshotsAreRecent`,
  `PoliciesAreKept`.
- **Rate mode.** What keeps the rate close once the producers are steady is said of every
  sample (`RateInv`): one recorded after the last disturbance, of a watermark read when the
  producers had their present rate, is ahead by that rate times its age, or by at most the
  longest delay more of it, since its watermark is older than its stamp by no more. Two such
  samples are apart by the rate times their distance in time, give or take one delay. A
  recording drops a prefix of the history and adds one sample, so that the order of the ages
  and this line survive it; what is published was made of the samples that are still there,
  and a time lag of 0 has a window in which producers can have written that much. That the
  largest of the partitions' times exists, for any number of partitions, is shown by a least
  counterexample. Theorems: `RateTypeCorrect`, `SteadyRatesAreClose`, `TimeLagIsExplained`,
  and of the operators that make a group's time `SlowestPartitionCounts`.
- **Process.** The invariant bounds the age of the metrics at every place of the manager's
  loop by the interval, counted with what is left of it (`due`): one interval after a
  success, two after one failure, so that a cycle begun after a single failure ends within
  the three intervals of the threshold. It places the server and the election's task relative
  to `main`; the time counted after the signal is no more than the time of the join, and while
  the runtime is dropped it and what is `left` stay within `LongestStop`. And it keeps that a
  configuration which was validated stays within its limits.
  Theorems: `TypeCorrect`, `NoGapAfterOneFailure`, `ExitIsOrderly`, `PanicsAreExplained`.

Every safety property the passing runs check is thus a theorem. The formulas that only
theorems are about (`OneSettledLeader`, `FetchesAreShort`, `NoFetchIsStuck`,
`RequestsAreShort`, `NoRequestIsStuck`, `GroupTimeIsLargest`) are in the proof modules;
the steps left are defined for the proofs and mean nothing to the code.

Only model-checked: the liveness properties (`StandbyIsCleared`, `ShutdownCompletes`,
`Failover`, `EveryFetchEnds`, `ManagerComesBack`, the end of a request in `Promise`), since
TLAPS does not reason about fairness and ENABLED here. That the steps the theorems above
find can be taken (`CanGoOn`) is ENABLED of the actions written out.

## Not modelled

Formatting and labels of the points, granularity, HELP and TYPE lines; the sums per
group and topic; librdkafka and the marshalling of its results; TOML parsing,
environment variables, regular expressions and TLS options; the conversion to OTLP and the
library's periodic reader; the routing of the HTTP server; Helm charts and test stacks:
data and text without a state of their own. Further limits of the models:

- `CollectionCycle` takes `kafka_timeout` as the bound of the blocking calls for groups
  and metadata, the one the code passes to librdkafka.
- The DescribeGroups calls a timed-out cycle leaves behind go on unobserved by the next
  request; `DescribeGroups` follows one request at a time.
- In `RateLag` rates are fractions: the rounding of floats is left out, and could move a
  time lag by the millisecond at which it is cut off.
- `TimestampPool` follows one topic: one that is deleted and created again starts its
  offsets anew, and a cached timestamp of the old one may be published for the new one until
  its time to live is over.
- In `ExporterProcess` a panic of main ends the process at once. Recycling and the teardown
  of librdkafka's clients count as blocking tasks.
- `PanicForAReason` is about the settings at `validate`'s limits; durations so large that
  their arithmetic overflows are not among them.
- `CollectionCycle` has one cluster: blocking calls of other clusters' managers can occupy
  the runtime's worker threads too.
- `ExporterProcess` has one cluster. Several managers sharing the blocking pool delay each
  other and lose nothing (`GroupFetch`), but by how much is not modelled.
- Timeouts in `ClusterManager`, `GroupFetch` and `LagSnapshot` may strike at any moment,
  which includes every moment they really do.

## Plan

Done, in this order: registry, managers with the abstract export, election, snapshot,
group fetch, timestamp pool, descriptions with the abstract requests, collection cycle
with its caches, rate mode, and the process in time.

Left, in the order of what it would add:

1. What the other liveness properties rest on, as it was done for `EveryFetchEnds`: a
   manager that was told to stop never waits for another one, and an election without
   faults comes to rest with its holder leading.
2. A request of `DescribeGroups` beside one that a timed-out cycle left behind, as
   `GroupFetch` has it.
3. Several clusters on one blocking pool, with the numbers `validate` compares.
4. The sums per group and topic of the lag calculator, against a reference definition.
