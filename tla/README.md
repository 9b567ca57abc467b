# ProxyLens: a TLA+ model of the collector

ProxyLens audits the traffic of the Mihomo proxy core. A collector polls
Mihomo's controller stream for snapshots of its connections, turns them into
durable events, and projects the events into rows, gaps and totals that a user
later asks questions of. This directory holds TLA+ modules of the part that
decides whether the record is right: the state engine, the event store, the
collector that joins them over sessions, and the accounting that follows the
journal, with the configurations that TLC checks and proofs that TLAPS checks.

Paths below are relative to `src/collector/`.

## 1. The system

| Part | State it keeps | Operations | Talks to |
|---|---|---|---|
| State engine, `pkg/state` | epoch, frame and event numbers; active connections; tombstones and their FIFO; gap; totals of the last frame | process a frame, a stream loss, a health item; record the unobserved session | attribution, sink |
| Attribution, `pkg/attribution` | none | classify a connection, confirm relay duplicates of a frame | engine, accounting |
| Controller client, `pkg/client` | connection, backoff | preflight, connect, read with watchdog, reconnect | Mihomo, queue |
| Queue, `pkg/queue` | bounded channel, closed flag | Push, TryPush, Pop, Close | client, worker |
| Collector runner, `pkg/runtime/collector.go` | run context, fatal error | run one session, stop, disk guard trip | all of the above, sink |
| SQLite sink, `pkg/storage/sqlite_sink.go` | sessions, heartbeat | BeginSession, Emit, EndSession, heartbeat | journal, projector |
| Journal, `journal.go` | events in order, cursor of each session | ingest | projector, accounting |
| Projector, `projector.go` | connections, traffic, residuals, gaps, health | apply one event | journal |
| Recovery, `recovery.go` | none | rebuild the projections from the journal | journal, projector |
| Coverage, `analytics.go` | none | what part of a period was watched | gaps, sessions |
| Accounting v2, `accounting_v2.go` | generations, published boundary, derived rows, runs | seed, materialise, activate, advance by a chunk | journal, attribution |
| Legacy accounting, allocator, retention | runs and their rows | rebuild, allocate, delete | journal |
| Disk guard, `disk_guard.go` | last check, tripped | check, trip once | runner |
| Runtime, `pkg/runtime/runtime.go` | ownership, contexts | start, join, flush, checkpoint, close | runner, scheduler, database |
| Accounting scheduler | tick mutex | tick at an interval | accounting |
| Supervisor, `pkg/runtime/supervisor.go` | owned child, backoff | probe, start, restart, stop, kill | runtime, stop event |
| Instance ownership, `instance*.go` | per-database mutexes, stop event | acquire, probe, release, signal | supervisor, runtime |
| Settings and lifecycle, `cmd/proxylens-supervisor`, `pkg/runtimeconfig`, `pkg/installedlifecycle` | configuration file, credential, scheduled task | apply with rollback, ensure, stop | supervisor, task scheduler |
| Query API, query and intelligence services, desktop shell, web interface | read side and presentation | | store |

What is hard:

- **Sequences.** Connections flap, IDs return, counters go backwards, Mihomo
  restarts, the stream is lost, all in any order. A test writes three of these
  in a row; an error needs five.
- **Partial frames.** A frame is many transactions. The sink may refuse any of
  them and the process may be killed after any of them.
- **Restarts.** A session is settled by its own end or by the next session's
  begin, and again by a rebuild, from what happened to be durable.
- **Time.** What was not watched must be in a gap and what was watched must not.
- **Concurrency.** Queue, worker, stream loop, disk guard and heartbeat at
  shutdown; accounting that prepares off the writer lock while the journal grows;
  supervisors and runtimes that start at once; settings with rollback.

What makes each part correct:

- engine: nothing is credited twice; baseline plus monitored bytes is the
  reading; the tombstones are bounded; a gap spans exactly the silence; every
  frame closes with a residual that balances; quiet connections keep evidence;
- journal and projector: order only advances; no event the engine emits is
  refused; open rows are the engine's active connections;
- sessions and recovery: no row outlives its session; a rebuild changes nothing;
- coverage: unwatched time is in a gap, watched time in none;
- queue and runner: an accepted item is processed; the session end is the last
  thing written; shutdown ends;
- accounting: each event is accounted once, whole frames at a time, and readers
  always find one consistent generation;
- supervisor and ownership: one writer for a database, bounded restart rate,
  a stopped supervisor leaves no child of its own;
- settings: after a failure everything is as before, or the result says it is not.

## 2. The modules

| Module | Models | How |
|---|---|---|
| `Connections` | `pkg/types`, `pkg/attribution` | connection IDs, counters by direction, metadata, classes. Which relay pairs match by structure and traffic is left open: any set of candidates no larger than the set of applications. |
| `StateEngine` | `pkg/state/engine.go` | the engine's fields as variables, one action per section of `processFrameInternal` between two emissions. No `Next`: the module is composed. |
| `Mihomo` | the proxy core (external) | connections that open, carry bytes, change route and close; totals that restart. |
| `Observation` | one session | engine, Mihomo, a sink that keeps or refuses each event, and an auditor that reads only what was kept. |
| `EventStore` | `pkg/storage` sink, journal, projector, recovery, coverage | sessions, journal and projections; one operator per event type, one action per transaction; rebuild and coverage as functions of the state. |
| `Collector` | `pkg/runtime/collector.go` over several sessions | engine, Mihomo and store; begin, stop, end, kill. |
| `JournalGrowth` | abstract | what readers of the journal may rely on: the order of events within a session, a frame and the life of a connection; sessions do not overlap. `Collector` implements it, `Accounting` is written against it. |
| `Classification` | `accounting_classify.go`, `allocator.go`, `mergeEvent` | state of a connection summed up from the journal, pairing of relay copies with applications, spread of bytes over hours. No variables; what runs along the journal (`MergeRange`, `Total`) is a recursive function. |
| `Accounting` | `accounting_v2.go` | generations over a growing journal: seed, classify, materialise, activate, then chunk after chunk, by several workers. |
| `AccountingRuns` | `accounting.go`, `retention.go`, the run a usage summary reads | legacy rebuilds, cleanups and a reader as processes that work in many short transactions on the same runs. |
| `Runner` | `pkg/runtime/collector.go` within one run, `pkg/client`, `pkg/queue`, `disk_guard.go`, heartbeat | stream loop, worker, disk guard and heartbeat as goroutines with a queue and two mutexes, and the end of `Run`. |
| `Runtime` | `pkg/runtime/runtime.go`, `cmd/proxylens-runtime` | the runtime processes of one database, from birth to exit. No `Next`: the module is composed. |
| `Supervisor` | `supervisor.go`, `instance.go`, `instance_windows.go`, control stop of `lifecycle_commands.go` | supervisors, runtimes, the two named mutexes, the stop event and the command that stops, with kills, missed deadlines and manual starts. |
| `Settings` | `config_apply.go`, `lifecycle_commands.go`, `pkg/runtimeconfig`, `pkg/installedlifecycle` | file, credential and scheduled task, changed by commands that interleave, fail and die. |
| `ObservationProofs` | | theorems about `Observation`: the engine's own books, and what an auditor reads. |
| `CollectorProofs`, `CollectorRowProofs` | | theorems about `Collector`: the order of events, and the projections. |
| `AccountingProofs`, `AccountingRunsProofs`, `RunnerProofs`, `SupervisorProofs`, `SettingsProofs` | | theorems about the module each is named after. |
| `MCObservation`, `MCCollector`, `MCAccounting`, `MCAccountingRuns` | | the small instances; `Runner`, `Supervisor` and `Settings` need none. |

How state and steps correspond to the code:

- The engine emits an event by a synchronous call to the sink, one transaction
  each. `outbox` holds the events a section emits; the next section waits until
  the sink has taken them. Between two of them the sink may refuse (`SinkFails`)
  or the process die (`Killed`). The engine updates its map after the emissions
  of a connection; in the model the update comes with the section. Nobody can
  see the difference: after a refusal the worker is over and only the shutdown,
  which does not read the map, follows.
- A refused epoch break has not advanced the epoch, so `SinkFails` restores the
  epoch of the refused event; the number of the refused event is spent.
- `pc` names the section that runs next: `idle`, `bootstrap`, `bootstrapped`,
  `recovery`, `steady`; `failed` after a refusal; `stopped` once the runner has
  recorded the unobserved session; `down` between sessions.
- Mihomo and the clock move only between two frames. A snapshot is a copy, the
  engine reads neither while it works on it, and stream order is queue order, so
  no behaviour the properties can see is lost.
- Connection IDs are numbers because the code sorts the connections of a frame
  that disappeared. An ID returns as another incarnation with a later start.
- A health event of the disk guard may come after the worker has stopped; in
  `Observation` it is `Health` with `pc = "failed"`. Its refusal does not end the worker in the
  code; here every refusal does, which is the harsher case for the store.
- Sessions are numbered; rows are keyed by session, epoch and connection, as in
  the table. The journal, its cursor, the projection and the session's last
  event change in one step, as in the one transaction of `Emit`.
- A tick of the clock is longer than the interval of heartbeats, so a running session
  writes one with every tick, or fails to (`Heartbeat`). `Grace` is the silence after
  which coverage takes a running session for dead (`Stale`). `SilenceRecorded` allows it
  after the last heartbeat of a killed session (`Undecided`).
  In `Runner` heartbeats are writes that must not hold up or outlive the session.

Accounting and the code:

- A worker is a caller of `AdvanceAccountingV2`: the scheduler's tick, the flush
  at shutdown, `collector storage seed-v2`. The boundary and the cut are read
  outside any transaction, in separate queries, while the collector writes. So a
  chunk is `StartTick` (boundary and cut), `Measure` (the frame's ends), `Verify`
  (is the frame complete), and only then the transaction: `SeedChunk`,
  `MaterializeChunk` or `Commit`. Preparation is computed at the end of `Verify`:
  it reads nothing above the cut but rows of the generation, and `Commit` drops
  it when anyone has published since.
- The seeding phases have no such check; a seed has the database to itself
  (`cmd/collector/main.go` 360), hence `Alone` in their guards.
- `GivesUp` and `ActivationFails` stand for an error, a cancelled context or a
  crash before the commit: nothing of the chunk is kept. An activation that fails
  also marks its generation failed, and the next seed starts over.
- A connection keeps its role: application, relay candidate, neither. In the code
  role follows from metadata that does not change. Traffic within five per cent
  is equal traffic, the shared first hop is assumed. A frame's time is its
  number; `FrameTime` order and frame order agree within a session.
- A connection has at most one event in a frame (`OncePerFrame`), and bytes are
  spread over an interval only when it was seen before (`SpreadSinceSeen`).
- `rows`, `exact`, `estimated`, `counted` are the traffic rows, the two byte
  columns of the hourly table and its connection count.
- Left out: relay relation rows (decided by the class), run records and
  telemetry, and the disk preflight (it refuses to start, without a state change).

One run of the collector and the code (`Runner`):

- `pc` holds a place for each goroutine. The stream loop is `RunStreamLoop`, which
  `Run` calls in its own goroutine, so `pc["runner"]` goes from the loop to the
  end of `Run`. The places are the blocking points of the code: dial, read, push,
  pop, the engine's mutex (`engine`), the sink's mutex (`mu`), the joins.
- An item is `Frame`, `GapOpened` or `Health` with the number of the connection to
  the controller it came from and whether it was queued before cancellation. It
  becomes one event or none; what it does to the engine is in `Collector`.
- A `select` of a cancelled context and something else takes either branch:
  `Push`, `Backoff`, `Wait`. Messages already received may be read after the cancellation.
- `store` is what the sink and the result know: the session's status, writes after
  its end (`late`), the handle (`open`), whether the trip of the disk guard left
  evidence, whether cleaning up failed, and the result of `Run`.
- The disk guard's goroutine is not joined. It may emit after `Close`, where the
  handle is nil: `store.crashed`.

Processes and the code (`Runtime`, `Supervisor`):

- `rt[p].pc` follows `Runtime.Run`: `born`, `guard` (mutex held), `low` (below the
  floor, ready without a database), `open`, `start`, `select`, then `stopSched`,
  `stopCol` for a stop or `endSched` for a collector that ended, `flush`,
  `truncate`, `close`, `release`, `exiting`. `col` and `sch` are the goroutines.
- `owner` and `supOwner` are the named mutexes. A probe acquires and releases in two
  steps, as `ProbeRuntimePresence` does, and who asks meanwhile is told that a
  runtime is there. A dead holder's mutex is free (abandoned and acquired are alike
  to the code).
- `sup[s].pc` follows `Supervisor.Run`: `acquire`, `create` and `reset` (the stop
  event), `loop`, `probe`, `present`, `start`, `await`, `reap`, `own`, `backoff`,
  `stopping`, `release`. The child's process and the supervisor that waits for it are
  separate: an exit may be seen before the word READY that preceded it.
- `ctl` is one `control stop`; `seen` marks the runtimes alive when it began.
- `mishaps` counts what is not the rule: kills, failures, missed deadlines,
  interrupts, manual starts.

Settings and the code (`Settings`):

- A step is one call on a store: reading or saving the file (renamed into place),
  the credential manager, the task scheduler. A call may fail and then has changed
  nothing. `apply` follows `applyRuntimeSettings` and `rollbackConfigApply`; `before`
  is the stores as they were, for the properties.
- The commands hold no lock. `alone` says that no other process wrote meanwhile:
  the code promises a rollback only then, and the properties ask for it only then.

Legacy runs and the code (`AccountingRuns`):

- `runs` is `accounting_runs`; a run's number is its place by `started_at`, which is
  taken before the transaction that inserts it. `age` is what the two limits see: ten
  minutes (`young`, `stale`) and the retention of failed runs (`expired`).
- `rows` counts the rows of a run in each table. `WriteBatch` and `DeleteBatch` are
  one transaction each. A rebuild knows what it wrote, not what is left of it.
- A reader makes four queries without a transaction (`ResolveScope`, `ReadRows`,
  `ReadJournal`, `ReadFreshness`).
- Two assumptions on time: no rebuild waits longer for its first transaction than
  the ten minutes after which another takes it for dead (the code retries fifteen
  times for ten seconds), and no rebuild works for the days after which a failed
  run is deleted. Without the second TLC finds a rebuild that was taken for dead,
  goes on, and publishes a run that a cleanup is deleting.

## 3. What is checked

All runs are exhaustive. `Spec` is `Init /\ [][Next]_vars`; three modules state
`FairSpec` and have liveness properties:

- `Accounting`: weak fairness of each worker's `Work`. The scheduler calls
  `AdvanceAccountingV2` at a fixed interval for as long as the runtime is up
  (`accounting_scheduler.go` 149-230), the flush at shutdown calls it in a loop
  (`runtime.go` 265-290). Nothing else is fair: the collector may fall silent,
  sessions may stay open. Failures of workers are bounded by `MaxFaults`, without
  which a worker could fail for ever and nothing would be promised.
- `Runner`: weak fairness of each goroutine. Strong fairness of three steps, for
  what the Go runtime and the system do: a mutex is not for ever given to others
  (`sync.Mutex` hands over to a starved waiter), a read of a closed connection
  fails in the end, a `select` does not for ever choose the ticker over the closed
  channel.
- `Supervisor`: weak fairness of each supervisor's loop and watcher, of each
  runtime and its goroutines once cancelled (that a cancelled collector ends is
  `Runner`'s `RunEnds`), and of `control stop`. Nothing makes a supervisor start, a
  process die or a deadline pass; mishaps are bounded by `MaxMishaps`.

| Run | Instance | Shows |
|---|---|---|
| `ObservationBooks` | two connections, one direction, four frames, one tombstone, counters that may go backwards | `TypeOK`, `NoDoubleCount`, `CounterConservation`, `TombstonesBounded`, `FreshTombstoneHeld` |
| `ObservationGaps` | one connection with two starts and two routes, five moments, gap and presence limits of two, three frames | `PresenceEvidence`, `GapCoversSilence` |
| `CollectorRows` | two connections of either class, one session, three frames | `NoContractViolation`, `RowsFollowEngine`, `ResidualBalances`, `FrameComplete` |
| `CollectorSessions` | one connection, two sessions over three moments, up to two frames each and a health event | `RebuildIsIdentity`, `ClosedWithSession`, `SilenceRecorded`, `GapsHoldNoWatchedTime`, and `GrowsAsPromised`: the collector implements `JournalGrowth` |
| `CollectorReopen` | as `CollectorRows`, one connection | violates `ReobservedRowReopens` |
| `AccountingChunks` | an application and two interchangeable relay candidates, six events in three frames, two frames to an hour, chunks of two, one worker | `RowsFollowClasses`, `HoursFollowRows`, `ClosureIsEnough` |
| `AccountingRaces` | two workers, two generations, one failure; an application and a candidate, three events; `FairSpec` | `StateFollowsJournal`, `FramesWhole`, `LagCloses` |
| `AccountingSeed` | one worker, a frame that goes on after the boundary; `FairSpec` | violates `SeedCompletes` |
| `AccountingRuns` | two interchangeable rebuilders, a cleaner that keeps one run, three runs, one failure or death | `LatestIsWhole`, `AnswerHolds`, `RowsHaveRun`, `BoundaryForward` |
| `RunnerStops` | a queue of one, two connections to the controller; `FairSpec` | `AcceptedInTimeIsProcessed`, `LossBetweenConnections`, `ResultAgrees`, `EndIsLast`, `RunEnds` |
| `SupervisorRuns` | one supervisor started twice, two runtimes at a time, delays of 1, 2, 3, two mishaps; `FairSpec` | `OneAuthority`, `FlushAlone`, `QuiescentAfterTrip`, `NoChildLeft`, `RestartsBackOff`, `StopMeansQuiet`, `RuntimeReturns`, `StopEnds` |
| `SettingsApply` | any state of the stores, two secrets, two commands, two failures or deaths | `AllOrNothing` |

Why the bounds are enough. Four frames are the shortest flap with an eviction:
seen, gone, another connection gone, seen again. One tombstone makes every
second disappearance evict. A counter of one and a total of two are enough for a
delta, a regression and an epoch break, because the engine only compares a
reading with the one before. Five moments hold a first frame later than the
least gap, a loss, and a recovery later than the least gap. Two sessions are one
predecessor and one successor; a begin looks no further back. The directions of
traffic never mix in the code but in the test for a regression or an epoch
break, where either suffices; one is enough.

In `CollectorSessions` the least gap is two and a session may start, be silent and
end over three moments, so a silence may be recorded or be too short. A heartbeat is
old after one moment, and may fail at each. No frame begins
after the third event of the journal: a frame of two events and its successor, a frame,
a loss and its recovery, or a frame in each of the sessions with the boundary between them.

In `AccountingChunks` a chunk of two is smaller than a frame of three
connections, so cuts fall inside frames and are moved both ways; two candidates
for one application are what ambiguity needs; three frames let a connection come,
carry and go with a correction in between; two frames to an hour put rows of one
connection both in the same and in different hours. One byte is enough because
traffic matches when equal, and repeated bytes make it differ. In
`AccountingRaces` two workers and one failure give every stale publication, and
a second generation the superseding seed; its three events already end within
and between frames. It is small because liveness is evaluated over its whole
graph. Events of type "Other" and bytes over an interval appear in the violation
runs only, where they bring about the findings.

A queue of one is full and empty in turn, so that every wait on it happens; two
connections to the controller are a loss and a return. Two mishaps are the
second fault that meets the recovery from the first: a supervisor killed and its
orphan interrupted, a deadline missed and a manual start. Delays reach the cap at
the third exit. With two supervisors the invariants hold as well (1.35 million
states); the run keeps one, for the liveness properties. Theorem `OneWriter`
covers any number. One failure meets a rollback and a second the rollback's own
step. Two rebuilds in a row and a third that overtakes are three runs; two cleaners
were tried with two runs and two events and make no difference.

What the exclusions in the properties stand for. `blurred` incarnations are
those whose counter went backwards or whose tombstone was evicted: the code
accepts the loss of continuity. `rebased` rows are those of the first finding
below. `blind` moments are those of a session killed before its first frame: the
boundary gap of the next starts at its last event, or now (`sqlite_sink.go`
100-103), so they are in no gap. `excused` moments are the edges the code leaves
without a gap by design: shorter than `MinGap` before the first frame, and
between the last frame and the end of a session without a loss.
`ClosureIsEnough` assumes `PairsEndTogether`: every two connections that could be an
application's and its relay's have the same end in the sense of `effectiveLastObs`, where a connection
seen after it was gone counts as live. Without it `AgreesWithRebuild` fails.

### Findings

Each is a run that must find its property violated.

1. `CollectorReopen`: a connection that disappears and is seen again by the
   recovery frame after a stream loss is active in the engine and stays ended in
   the store. The bootstrap projection refreshes only the time of observation
   (`projector.go` 106-108), though the rule stated at `projector.go` 197-199 is
   that such a row must be reopened.
2. `AccountingSeed`: the boundary of a seed is the last event of the journal
   (`accounting_v2.go` 403), wherever in its frame. When the frame goes on, the cut
   is moved before it, for ever (1130): the seed neither activates nor makes room
   for another.

Further configurations stand beside the runs; each finds a property violated that
the code's comments or documents suggest, or that one would expect:

- `CollectorCoverage.cfg` (`CoverageTruthful`): a session that is over with its stream gap open
  leaves it open, and coverage takes an open gap to reach to now (`analytics.go`
  861-865), so time watched by later sessions is reported as uncovered.
- `AccountingClosure.cfg` (`AgreesWithRebuild`): a live relay candidate in the group of a changed
  connection is classified again without the application it was confirmed against,
  when that ended before the cutoff (1547). Its bytes are accounted a second time,
  and a rebuild disagrees. `ClosureIsEnough` assumes `PairsEndTogether` for that.
- `AccountingHours.cfg` (`EstimatesFollowRows`): a correction that takes bytes away is negative;
  `IntervalAllocator` (`allocator.go` 79) turns it into zero, so the hourly estimated
  bytes keep what the row no longer has. `HoursFollowRows` is about exact bytes and counts.
- `RunnerTrip.cfg` (`TripIsOnRecord`): when the disk guard trips while the run is ending, the
  result says so and the journal may not.
- `SettingsRollback.cfg` (`RollbackIsSafe`): a rollback after a failure elsewhere sets the task from what it
  read of it, and it read nothing when autostart was not to change: a registered
  task is then unregistered.

Seen while modelling, without a property: `control stop` may answer while a
runtime left by a killed supervisor is still being born (`StopMeansQuiet` asks only for
runtimes whose supervisor was alive); a stop signalled between the creation of the event and
its reset is lost, and the command times out; a child that answers ALREADY_RUNNING is
tried again without a delay; a disabled task comes back enabled from a rollback;
the freshness of a usage summary may name a newer run than its sums.

## 4. What is proved

`ObservationProofs` proves, for any connections, directions, metadata, limits
and bounds that meet the assumptions of the modules:

| Theorem | Statement |
|---|---|
| `TypeCorrect` | `Spec => []TypeOK` |
| `TombstonesStayBounded` | `Spec => []TombstonesBounded` |
| `FreshTombstonesHeld` | `Spec => []FreshTombstoneHeld` |
| `CountersConserved` | `Spec => []CounterConservation` |

The assumptions are the named ones of the modules: connection IDs are positive
numbers, the limits are positive, the bounds are numbers.

The argument. `TypeOK` is not inductive: the types of the engine's fields depend
on those of the frame being processed, of Mihomo's connections and of the events
on their way, so `TypeInv` adds these. Its proof goes through the engine's
actions in groups: the starts of a frame, the loop over its connections, the ends,
the disappearances and the sink.

`TombstonesBounded` is inductive given `TypeInv`. The work is in one lemma about
`RecordTombstone`: appending an entry and dropping the head keeps an entry for
every tombstone, because the head's tombstone goes with it exactly when it is
the one the entry names. `FreshTombstoneHeld` needs `FreshInv`: no entry carries
a number above the current frame, and while connections disappear in a frame
each disappears once.

`CountersConserved` needs `BooksInv`: between frames there is no frame, within
a frame its copy of a connection is what Mihomo has, and an active connection
has the start Mihomo has. Only then does an incarnation whose counter never went
backwards read no less than before, and the delta added is the whole difference.

Then it goes on to what the sink has kept, under the same assumptions:

| Theorem | Statement |
|---|---|
| `NothingCountedTwice` | `Spec => []NoDoubleCount` |
| `PresenceEvident` | `Spec => []PresenceEvidence` |
| `SilenceCovered` | `Spec => []GapCoversSilence` |

The argument. What is on record lags behind what the engine knows by the events
on their way, so none of the three is inductive; each invariant says what is
recorded together with what is about to be, for every place of the engine.

`CreditInv` bounds `Claimed`, the bytes on record and the delta on its way, by
the reading the engine will subtract next: that of the active connection, or of
the tombstone of the same incarnation. With no such reading and no eviction
nothing is claimed yet, and so it is after an epoch break. `OutboxInv` says that of a
section only the last event credits bytes, so that a refusal loses a credit and
never half of one. `CreditStays` and `CreditParts` say once what a step must
leave alone; each section then shows its own delta.

`EvidenceInv` ties `evidenceAt` in the engine's map to the record: either the
record has the event, or it is on its way, and what was processed of a frame
already has evidence younger than the interval. Without the middle of a frame the
property does not follow, since the frame's time is not yet the last healthy one.

`GapInv` has three parts. `LifeInv` relates the engine's flags (a session that was never
healthy is in its bootstrap frame and has no open gap). `NoticesInv` says what a notice on its way
can be: a closed gap is of this frame or of the session that ends, and one that is opened in
a frame is closed after it. `SilenceInv` follows the silence from the loss through the
frame that ends it, whose gap is on record or on its way before the frame's
residual is, to the moment the auditor sees the frame.

`CollectorProofs` proves, for any connections, metadata, limits and bounds:

| Theorem | Statement |
|---|---|
| `NothingRefused` | `Spec => []NoContractViolation` |
| `FramesAreWhole` | `Spec => []FrameComplete` |
| `JournalGrows` | `Spec => GrowsAsPromised` |

`JournalGrows` is the refinement: the journal and the status of the sessions, seen
through `Told`, are a behaviour of `JournalGrowth`, which `Accounting` is written
against.

The argument. All three are about the order of events, so the proof first
forgets the bytes: each section of the engine is shown to be one of five kinds of
step (`QuietStep`, `BeginStep`, `ConnStep`, `GoneStep`, `EndStep`) that say what types of events it
emits, of which connection and with which numbers. It then speaks of one sequence, the
stream: the journal, and after it what is on its way there (`Entry`). A transaction leaves the
stream as it was, a section extends it, and a kill or a refusal cuts its end off
(`Extends`, `Cut`), so an invariant about the stream has three cases and not twenty. The
inductive invariant (`StreamInOrder` states it) has five parts: the shape of
sessions, journal and outbox; `NumberInv`, the numbers of the stream rise and the
engine's own lead; `FrameInv`, every frame but the one in work has its residual and nothing
follows it; `LifeInv`, the active connections of the engine are those that live in the
stream, and what it buries is known there; and `StoreInv`, what began in
the journal has a row, and a gap the engine has open is open in the store or about to be. `LifeInv`
must speak of tombstones because a health event may name a connection that has gone and not yet
begun again, and `StoreInv` of the outbox because the frame that closes a gap may find it
still on its way.

`CollectorRowProofs` goes on to what the projections hold:

| Theorem | Statement |
|---|---|
| `RowsAreTheEngines` | `Spec => []RowsFollowEngine` |
| `ClosedWithItsSession` | `Spec => []ClosedWithSession` |
| `GapsAreTruthful` | `Spec => []GapsHoldNoWatchedTime` |
| `SilenceIsOnRecord` | `Spec => []SilenceRecorded` |

The argument. Here the order of events is not enough, so each kind of section is taken
up again with what its events say (`ConnValues`, `GoneValues`, `BegunValues`,
`EndValues`, `QuietValues`): the bytes, base and class of a delta, a change of class or a
start are those the engine's map has after the section. `ValueInv` is inductive relative to
the invariant of `CollectorProofs`. Its main parts are `Sending`, an event on its way speaks of
the connections as the engine has them now; `EngineInRows`, an active connection has its row,
and the row agrees but for what is on its way (`Coming`); `RowsInEngine`, the converse, where an
open row without a connection is about to be closed (`Closing`); and `RowTimes`.
`RowTaken` says once what the transaction of an event makes of each row: it begins, a bootstrap
meets it, its epoch breaks, it changes or it is kept. `EngineInRows` is also needed for
`ClosedWithSession`: a delta may move the last observation of a row only because that row
is open, which holds only while the engine works.

The two theorems about gaps hold over any number of sessions. `GapTimes` is the invariant of the
first: of the running session at most one gap is open or on its way, and the engine
knows of it (`OneGap`); since when, it knows as well (`LossKnown`); what is on its way comes
after everything its session began with (`SessionTimes`); and a moment a frame
watched lies before whatever may still be said to have been lost after it (`WatchedTimes`).
`SilenceTimes` is that of the second. Everything since the first session began is on record up to
the last frame of the session that runs (`UpToNow`), or up to what the dead one says of its end
(`UpToDeath`); `SinceFrame` and `BeforeFrame` are what the engine holds open after its last frame
or before its first. The record only grows (`RecordGrows`), so a step has
to account only for the moments it adds.

`AccountingProofs` proves, for any connections, roles, chunk limits, workers,
generations and length of the journal (`BoundsAssumption`, `RolesAssumption`):

| Theorem | Statement |
|---|---|
| `StateIsTheJournals` | `Spec => []StateFollowsJournal` |
| `RowsAreTheJournals` | `Spec => []RowsFollowClasses` |
| `HoursAreTheRows` | `Spec => []HoursFollowRows` |
| `PublishesWholeFrames` | `Spec => []FramesWhole` |
| `ClosureDecides` | `Spec => []ClosureIsEnough` |

The argument. `AccountingInv` has a part for the journal (`JournalInv`: order, and a
connection at most once in a frame), the types, what a worker has read and measured outside the
transactions (`JobInv`, `PlaceInv`), and what is stored (`StateInv`, `RowsInv`, `TotalsInv`,
`HoursFollowRows`). What a worker measured stays true of the prefix it measured
while others append and publish; the version it carries says whether the generation is still the
one it read, which is why `Commit` may publish it. `MergeRange` and `Total` run
along the journal, whatever its length. The induction theorems of the library
are of no use here, so the proofs take the least length at which a claim fails
(`Least`, from the well-foundedness of `<` on the naturals) and show that it
holds there. That gives the lemmas that everything else cites: one event more is
one `Merge` more (`AfterSteps`), a sum grows by what is added.

`ClosureDecides` compares two classifications of the same group, one of everything and
one of what a plan chose. Where partners end together the overlap of two connections is no longer
a matter of when: no connection is first seen after it is last seen, nor after the last
frame of the prefix (`Timely`), so two that ended together overlap (`TogetherOverlap`) and bytes alone
decide (`ByteClass`). A plan's scope holds, with every connection it names, all that could be
its partner (`PlanIs`, `ClosedIn`), so the classes within it are those of a rebuild and the
classes outside it are undisturbed (`PlanDecides`). The inductive invariant is `DecidedInv`: the classes of a
classified generation are right, and what a worker has prepared would leave them right
as long as nobody has published since, which the version of the generation tells `Commit`. The
hypothesis was first stated of the time a connection was found gone. The proof did not go
through, for a reason: a connection may be seen again after that, is then live to
`effectiveLastObs`, and the two classifications differ in a journal longer than
the run's. `PairsEndTogether` therefore compares `EndOf`.

`AccountingRunsProofs` proves, for any rebuilders, cleaners, runs, batches and runs to keep:

| Theorem | Statement |
|---|---|
| `ReadersSeeAWholeRun` | `Spec => []LatestIsWhole` |
| `AnswersHold` | `Spec => []AnswerHolds` |
| `NoRowsLeftBehind` | `Spec => []RowsHaveRun` |
| `BoundaryNeverBack` | `Spec => BoundaryForward` |

The argument. No run is locked, so the invariant says whose a run is: of the one
rebuild that works on it (`OwnerInv`), with exactly the rows that rebuild has come
to (`ProgressInv`), or of nobody. `AgeInv` has what the two assumptions on time give:
what a cleanup may take for dead is not going to be written. `RisingInv` is needed for
`BoundaryForward`: of two rebuilds that overlap the later run has the later boundary,
though not the later publication.

`RunnerProofs` proves, for a queue of any capacity and any number of connections:

| Theorem | Statement |
|---|---|
| `AcceptedIsProcessed` | `Spec => []AcceptedInTimeIsProcessed` |
| `LossIsAnnounced` | `Spec => []LossBetweenConnections` |
| `ResultsAgree` | `Spec => []ResultAgrees` |
| `EndStaysLast` | `Spec => []EndIsLast` |

The argument. `PlaceInv` relates the places of the goroutines to the flags: the
worker leaves for a refused event or when nothing accepted in time is left, and the runner writes the
session's end only after it left. The other part is about the sequence in the
queue: the frame that may be pushed next is of the connection of the last frame in it, or a notice of loss
stands between (`ClearFor`, `Told`), which depends on where the stream loop stands.

`SettingsProofs` proves, for any addresses, secrets, failures and commands:

| Theorem | Statement |
|---|---|
| `NothingByHalves` | `Spec => []AllOrNothing` |
| `OwnerFollowsFile` | `Spec => []EnsureHeals` |

The argument. For every place of `apply` the invariant says how the three stores differ
from those it began with, provided no other command has touched them: what has been changed on
the way forward, and what has been put back on the way back. `EnsureHeals`, which
only the theorem states, is about `ensure-owner`: undisturbed, it ends with the task the file asks for.

`SupervisorProofs` proves, for any supervisors, runtimes, delays and bounds that
meet `SupervisorAssumption` (processes and the names used for nobody and for the
command are distinct):

| Theorem | Statement |
|---|---|
| `OneWriter` | `Spec => []OneAuthority` |
| `NoOrphanByExit` | `Spec => []NoChildLeft` |
| `StopIsQuiet` | `Spec => StopMeansQuiet` |
| `ShutdownInOrder` | `Spec => []FlushAlone` |
| `TripIsQuiet` | `Spec => []QuiescentAfterTrip` |
| `DelaysDouble` | `Spec => []RestartsBackOff` |

The argument. The inductive invariant `IInv` has six parts. `LocalInv` is what a
process's own state rules out (`Sound`): an open database outside the places between
open and close, a goroutine outside the places that join it. `OwnerInv` and `SupInv`
name the holder of either mutex in every place where there is one, the moments of
a probe included: a probe gives up the mutex, and only `OwnerInv` says that it was its own.
`ChildInv` is what `NoChildLeft` needs of the places in between: a
runtime whose parent lives is the one its parent minds. `ControlInv` carries what `control stop`
learns from the absence of a supervisor to its answer: no runtime seen at first has
a living parent any more, and none comes back. Most steps change one process;
`RuntimeStep` and `SupervisorStep` say once what such a step must do to keep the
invariant, and `RuntimeActions` and `SupervisorActions` that each action does it.
`DelaysDouble` has an invariant of its own, `DelayInv`: the next delay is the initial one
doubled once for each failure so far, or the greatest. `Doubled` is a recursive function, and what is claimed of
it for every number follows from the least number for which it fails.

Left to TLC:

- liveness (`LagCloses`, `RunEnds`, `RuntimeReturns`, `StopEnds`), which needs ENABLED;
- `ResidualBalances` and `RebuildIsIdentity`. A sum over a frame and the rebuild are
  folds over the journal by a recursive operator, which is out of the provers' reach.

## 5. What is not modelled, and the plan

Not modelled: query and intelligence services, the query API, the interfaces and
the command-line drivers (read side and presentation, without state of their own);
metadata columns, quality flags and the copies of events in traffic and residual
tables (they repeat the journal); SQLite, its pragmas and migrations (a transaction
is one step); console, JSONL and memory sinks; the forced-disconnect mode that
validation uses; the printed form of states, telemetry and reasons; upgrade checks of
the installed layout; the desktop shell, which starts processes and calls the
commands of `Settings`.

Modelled in part, and what would complete it:

- a duplicate delivery to the journal after an uncertain commit. This sink makes a new
  event for each position of the cursor, so the duplicate branch is not reached from it;
- the structural choice of relay pairs, which `Connections` leaves open;
- the sums and lists of a usage summary: `AccountingRuns` follows the run and its rows;
- the order in which a runtime resolves address and credential from flags,
  environment and file.

Planned, in order of weight:

1. The operators of classification and interval allocation against reference
   definitions over bounded inputs, in a module of their own.
2. Theorems for `ResidualBalances` and `RebuildIsIdentity`, with the sum over a frame and the
   rebuild as recursive functions along the journal, as `MergeRange` is.
