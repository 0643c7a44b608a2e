# TLA+ verification of data-lakehouse

The repository is a small lakehouse. A producer sends JSON events to Kafka, a
Spark Structured Streaming job appends them to a Delta table on MinIO, and a
compactor rewrites the many small Parquet files of a partition into few large
ones. Several compactors (the daemon, cron jobs, targeted runs) may work on one
table while the stream writes; partition locks in the object store keep them
apart. This directory holds the specifications of that system, the instances
that TLC checks, and the proofs.

Paths below are relative to `src/src/` unless they start with `src/`.

## 1. The system

| Part | State it keeps | Operations | Talks to |
|---|---|---|---|
| Lock manager, `compactor/lock_manager.py` | one JSON object per partition, `locks/compaction/<partition>.lock`; per instance an owner id | `acquire` (cleanup of a stale lock, check, write), `release`, `is_stale`, `is_held_by_self` | the store: plain GET, PUT, DELETE |
| Delta table (library) | `_delta_log` and Parquet objects | append, overwrite with `replaceWhere`, `OPTIMIZE` | Spark |
| Scanner, `compactor/file_scanner.py` | none | `verify_delta_table_exists`, `scan_partitions` | lists the bucket, not the log |
| Selection and sizing, `compactor/partition_selection.py`, `target_sizing.py` | none | `evaluate_partition`, `select_partitions`, `estimate_output_file_count` | pure |
| Compaction run, `compactor/compaction_daemon.py` with `delta_compactor.py` and `metrics.py` | `CompactionRunMetrics`; one line per run in the metrics file | `run_compaction_cycle`, `compact_partition`, `_finalize_run`, `run_dry_run` | scanner, locks, Spark |
| Daemon, `main`, `run_daemon` | `_running` | loop, sleep, signals, restart by Docker | compaction run |
| Dry run, `run_dry_run` | none; writes nothing | report of what a run would do | scanner |
| Streaming job, `streaming/spark_streaming_job.py` | Kafka offsets in the checkpoint | `process_batch` (classify, append, quarantine, metrics) | Kafka, both tables |
| Data quality, `streaming/data_quality.py` | none | the validator used by the tests; the job has a second set of rules in Spark columns | pure |
| Producer, `producer/` | none | loop of `produce` and `poll`, `flush`; signals; bad events on purpose | Kafka client |
| Benchmark, `benchmark/` | a file of saved runs, a report | counts files, times queries, labels runs before or after compaction, compares two of them | reads the bucket (DuckDB) or the snapshot (Spark) |
| Configuration, logging | environment | parsing, formatting | all |

What is hard about it:

* **The lock is not atomic.** `acquire` decides on a GET and writes with an
  unconditional PUT; `cleanup_stale_lock` and `release` decide on a GET and
  delete unconditionally. Anything may happen between the two calls.
* **The lease is fixed.** It starts when `acquire` starts, is never renewed, and
  a rewrite does not stop when it runs out. Each reader judges staleness by the
  writer's expiry *and* by its own timeout.
* **Calls fail in different ways**: refused (a refused DELETE is swallowed), lost
  on the way there, lost on the way back, or the process is killed.
* **The compactor decides on a listing of the bucket**, taken once per run before
  any lock; the listing holds replaced and uncommitted files as well, and is old
  by the time a partition is rewritten.
* **A rewrite may happen twice**: `OPTIMIZE` commits, the listing after it fails,
  and the fallback rewrites the partition again.
* **The log is not atomic between drivers.** The stream and each compactor are Spark
  drivers of their own on s3a, and no log store is configured
  (`delta_compactor.py:20`, `src/scripts/spark-streaming-submit.sh:9-20`). Delta's
  default there asks whether a version exists and then PUTs it: one driver's entry
  may replace another's.
* **Clocks differ.** Expiries are written by one host's clock and judged by
  another's.
* **A micro-batch is not a transaction.** `process_batch` counts, appends to one
  table, appends to another, writes a line; the engine then records completion.
  A failure between any two repeats all of them, each use of the batch reads the
  topic again, and the topic forgets.
* **The producer's queue is lost with it**: `flush` has a time limit, a full queue
  raises after the event got its number, an answer may be lost and the event sent
  twice.
* **Two sets of record rules** must agree, one in Spark columns and one in Python;
  the tests exercise the second, the job runs the first.
* **Nothing vacuums the table**, so whoever counts the bucket's files counts the
  replaced ones.
* **Errors take many paths** out of `run_compaction_cycle`, each updating other
  counters, and the process exit code and the metrics line are made from them.

What makes it correct: readers of the table notice compaction only where a log entry
was replaced, and then lose no other batch than that entry's; a lease in
force is exclusive as far as the store allows; an orphaned lock does not block
its partition for good; the age guard holds; a run always ends; its counters, its
exit code and the metrics file tell the truth; the daemon goes on until asked to
stop, at its pace; an event is lost by the producer only at its limits, and every event published is
stored at least once or accounted for;
what a benchmark compares is what it says it compares. Section 5 lists where the
code does not deliver what its documents say.

## 2. Modules

```
LockManager     PartitionSelection     EventTable          EventProducer
     \                  |                  ^ implemented by       |
      \                 |                  |                      |
       +--- CompactionRun ---------- DeltaTable      StreamingJob  |
                 |                          |               \      |
               DryRun                   Benchmark            Pipeline

       Daemon                RecordRules          (stand alone)
```

* **LockManager**: one action per storage call. `pc[m]` is the call manager `m`
  makes next, `ref[m]` is `reference` of `acquire`, read from the manager's own
  clock: `Now(m)` is the store's time plus the constant `Ahead[m]`, of any sign.
  `StartAcquire`, `CleanupGet`, `CleanupDelete`, `GetRefused`, `GetFree`, `Put`
  are `acquire`; `StartRelease`, `ReleaseGet`, `ReleaseDelete` are `release`;
  `DeleteRefused`, `CallFails`, `AnswerLost` are the failures, `Tick` is time. The
  history variable `contested` holds the managers whose PUT went out while another
  manager's PUT or DELETE of the same object was already decided.
* **DeltaTable**: the table as its writers use it. A writer puts its files into
  the bucket (`WriteAppend`, `WriteRewrite`), then commits, loses a conflict, or
  gives up. `objects` is the bucket, `log` the entries of `_delta_log`, each with the
  files it removes and adds, and `live` the snapshot the log replays to. Delta Lake is
  a library: its protocol is modelled as far as the code relies on it. A rewrite reads
  and replaces the live files of its partition as of its beginning, and commits only
  if no entry since then removes one of them; blind appends never conflict. File names
  carry the transaction, so a file is never overwritten. `Commit` is `AddEntry`, where
  no driver comes in between, or `OverwriteEntry`: the writer has found a version
  missing, another driver has written it since, and the PUT replaces that entry. Any
  later version, too, may be replaced, by a writer that looked long ago. The history
  variable `overwritten` holds the entries that are gone.
* **EventTable**: what readers are promised. Batches arrive whole and in all
  their partitions at once; what was seen goes away only as a whole batch, when its
  own log entry is replaced. Compaction does not exist.
* **PartitionSelection**: the pure decisions on a listing.
* **CompactionRun**: `run_compaction_cycle`, with the locks and the table as
  instances `L` and `T`. `phase[r]` is the run's place in the function; where it
  calls the lock manager or Spark its step is a step of that module. Partitions
  are numbers, in the order of `scan_partitions`; a row counts one byte.
* **DryRun**: `run_dry_run` as a function of the state, next to a run with the
  same argument. It takes no lock and writes nothing, so it has no actions; its
  properties say what its report is worth.
* **Daemon**: `main`, `run_daemon` and the signal handler, with `time.sleep`,
  `SIGKILL` and Docker's restart. A cycle is reduced to what the loop can see of
  it, an end by return or by exception after any time, and to its lock on one
  partition. `sinceStart` is `time.monotonic() - start`, capped at the interval.
* **StreamingJob**: `process_batch`, one action per statement that reads or
  writes, inside Spark's micro-batch engine (`PlanBatch`, `CommitBatch`,
  `Restart`), which is external and modelled from its contract with
  `foreachBatch`: the offsets of a batch are logged before it runs and its
  completion afterwards. `topic` is one Kafka partition, `raw` and `quarantine`
  count the copies of each offset in the two tables. `Batch` is evaluated at each
  use, as the code does not cache it.
* **EventProducer**: the producer's loop, its signal handler and `flush`, over the
  Kafka client's queue, which is external. An event is numbered before `produce()` may
  raise `BufferError` (`QueueFull`); `waited` is the time `flush` has waited of its ten
  seconds; what the client holds is gone when `main` ends, in whichever way. No variable
  records what is lost: `Missing` are the numbers that are in no place.
* **Pipeline**: producer and job, which share only the topic.
* **RecordRules**: `rejection_reason_column` and `validate_json_string` on classes
  of values, with the producer's good and bad events. A payload is judged once by
  each.
* **Benchmark**: file counts, the phase of a run, the pair a report compares, and
  which files each engine reads, while `DeltaTable`'s writers go on.
* **LockManagerProofs**, **DeltaTableProofs**, **CompactionRunProofs** (its second
  part: what a run reports, the dry run, and that it ends), **DaemonProofs**,
  **PipelineProofs** (the job, the producer and both together),
  **RecordRulesProofs**, **BenchmarkProofs**: theorems (section 4). **FiniteSums**: lemmas about
  induction over finite sets and sums over them.
* **MCLockManager**, **MCCompactionRun**, **MCDryRun**, **MCPipeline**,
  **MCBenchmark**: instances for TLC; the other modules need none.

Definitions named `Wrong...` stand beside the definition they differ from. They
are plausible bugs of the code; no specification uses them. Put in place of the
right definition, each makes a property of the run it belongs to fail, which
shows that the property depends on that line of the code.

## 3. Runs

| Run | Configuration | Shows |
|---|---|---|
| `lock` | `MCLockManager.cfg` | Two workers with timeouts 3 and 2 and clocks one tick apart, one partition. `LeaseInForce`, `LeaseExclusion`, `UncontestedNeverStolen`, and under fairness `OrphanFreed` |
| `lock_mutex` | `MCLockMutex.cfg` | Plain `MutualExclusion` fails (finding 1) |
| `benchmark` | `MCBenchmark.cfg` | Three writers, two partitions, two benchmark runs, one replaced log entry. `RowsExactlyOnce`, and no smaller file count is ever due to a compaction: `AutoIsBefore`, `ReductionOnlyBackwards` |
| `glob` | `MCGlob.cfg` | `EachRowReadOnce` fails (finding 5) |
| `compaction_pair` | `MCCompactionPair.cfg` | Two runs, one with `OPTIMIZE`, on one partition with the stream, their clocks one tick apart, one log entry replaced. The table implements `EventTable` whatever the runs do (`ReadersLoseOnlyOverwritten`); wasted rewrites need a lost or contested lease; the age guard; one metrics line per run that changed something; a partition is split into more files than it needs only where the listing held dead ones (`FragmentsOnlyFromDeadFiles`) |
| `compaction_cycle` | `MCDryRun.cfg` | One run over two partitions, untargeted or started for partition 2, against a dry run: `RunTakesForecast`, `RunKeepsForecast`; its counters, its exit code, `files_reduced`; that it names what it has committed (`WorkIsReported`); that each of its steps brings it closer to its end (`RunAdvances`), and that it ends |
| `lost_append` | `MCLostAppend.cfg` | `OtherPartitionsUnaffected` fails (finding 2) |
| `fragments` | `MCFragments.cfg` | `RewriteNeverFragments` fails (finding 3) |
| `pipeline` | `MCPipeline.cfg` | Producer, topic, job; good and bad events, resends, expiry, two failures. `LossOnlyAtLimits`, `AtLeastOnce`, `CopiesOnlyByReplay`, `MetricsBacked`, `EveryBatchLogged`, and under fairness `EventsArrive` |
| `replay` | `MCReplay.cfg` | `AppendIdempotent` fails (finding 4) |
| `record_rules` | `MCRecordRules.cfg` | Every payload of the value classes. `RulesAgree`, `SparkLaxOnlyHere`, `ProducerJudged` |
| `daemon` | `MCDaemon.cfg` | Every command line, cycles of any length, signals, kills, restarts. `CyclesSpaced`, `BlockedByDeadLock`, and under fairness `LockComesBack`, `StopsWhenAsked` |

**Bounds.** `MaxClock`, `MaxTxns`, `MaxFiles`, `MaxOffset`, `MaxCrashes`,
`MaxSequence`, `MaxRuns` and `MaxOverwrites` bound the models; the code has no such
limits. `QueueLimit` and `FlushTimeout` are limits of the code, made small.

* `lock`: clock 5 and leases of 3 and 2, so that a lock written after an expired
  one expires too; different timeouts meet the asymmetric staleness test, and the
  clocks one tick apart let each side judge the other's lease too early. All
  properties relate two workers on one partition, and an action reads one lock
  object only, so a third worker or a second partition adds no new situation; the
  theorems cover them.
* `MaxOverwrites` is 1 where the table's own properties are checked: what is lost is
  counted per entry, and one entry may be an append or a rewrite, first, last or in
  the middle of the log. It is 0 in `fragments` and `glob`, which fail without it.
  The theorems cover any number.
* `benchmark`: three transactions allow an append and two rewrites that race, or two
  appends and a rewrite; two saved runs are what a comparison needs. Symmetric in
  the writers, whose names occur in no formula (the temporal property of this run
  is an action property, for which symmetry is sound).
* `compaction_pair`: four transactions are two appends and the two runs' rewrites,
  or a rewrite that fails, its second attempt and another run's; the second of two
  rewrites plans with the files the first one replaced, which is where fragments come
  from. At clock 1 a file has passed the age guard, and as the runs' clocks are one
  tick apart one of them sees the other's lease expire. A partition is selected with
  more than one small file, so that rewrites come after two appends or a failed one.
* `compaction_cycle`: an append to both partitions and a rewrite of each, or a
  failed and a repeated one.
* `pipeline`: two events, one good and one bad; a topic of two lets one be sent
  twice and the other not at all, or each once; two failures make a batch run
  three times. The client's queue takes one event, so that the second may find it
  full; a flush waits one unit of time, so that it may or may not run out.
* `daemon`: the interval is 3 and the lease 7, no multiple of it. Time is counted
  down, so nothing bounds how long the daemon runs.
* `record_rules`: no bound; the classes are finite.

Deadlock is not checked where a model stops when its runs are over and its bounds
are reached, or when the daemon or the producer has ended.

**Fairness.** `LockManager!FairSpec`: time passes; a worker that lives goes on with
the call and the work it has begun; and the scheduler (the daemon's loop, cron)
keeps starting acquires of every partition it may start one for. That is strong
fairness, as a worker that is busy with another partition is not always idle.
Failures are never fair. `DryRun!FairSpec`: a run whose process lives makes
its next step; nothing is assumed of the stream, of other runs or of time.
`Pipeline!Spec`: the engine goes on with its batch, starts one at every trigger,
and is restarted (`restart: unless-stopped` of the service in
`src/docker-compose.yml`); the client's thread goes on with every event it holds.
Nothing has to be produced, no signal has to come, and failures are bounded
because a job that fails for ever delivers nothing. `Daemon!Spec`: statements are
executed, cycles end, time passes, and Docker restarts the container. A cycle may
end before it reaches the lock, but not every one of infinitely many: strong
fairness of `TryLock`.

## 4. Proofs

`tlapm` checks the eight proof modules, for any set of managers, writers or runs,
any partitions, timeouts, clocks, policy, interval, events and bounds.

**LockManager.** Assumptions: every timeout is a positive number, the clocks are
ahead of the store's by integers, the clock's bound is a natural number, and the
value for "no object" is not a lock. The inductive invariant is
`TypeOK /\ RefPast /\ LeaseInForce`. `LeaseExclusion` is
not inductive: that two workers do not both hold depends on what each may still
do to the lock object. `LeaseInForce` says that: while an uncontested lease is in
force, the bucket holds its lock and *no other manager has a write or delete of
it pending*. It is kept by `CleanupGet` and `GetFree` because a lock in force is
stale to nobody (`InForce` counts every reader's timeout and clock), by
`ReleaseGet` because the lock has another owner, and it begins with `Put` because
that is what uncontested means. `RefPast` makes a decision taken with an older
clock reading no more eager than one taken now. `LeaseExclusionHolds` and
`UncontestedNeverStolenHolds` follow. Skew thus costs a part of the lease, not
exclusion.
`OrphanWearsOffHolds` is the safety half of `OrphanFreed`: the lock of a manager that
makes no more calls is never renewed, by anyone's cleanup or lost answer; it expires
within its owner's timeout from now; and it refuses only an acquire that began before
that and at most the reader's own timeout after the lock was taken. It needs `Dated`: a
lock carries a reading that its owner's clock has passed, and lasts as long as the
owner's timeout says. What remains for fairness is that time passes and somebody tries.

**DeltaTable.** Assumptions: the bounds are natural numbers, times are natural
numbers, and the value for "no transaction" is not one. No commit is taken to be
atomic between drivers: any entry may be replaced at any time, any number of times.
The argument is about the log alone. An entry either brings the rows of one batch, or
brings back exactly the rows of the files it removes (`Formed`); so if any entry brings
a row, the last one to do so is followed by none that removes the file it put the row
in, as that one would bring the row back later still. Hence the latest snapshot has
precisely the rows that some entry brings (`RowsOfLog`), whichever entries are missing.
The other parts of the invariant say where a rewrite has its rows from: from an append
in the log, or from one that is lost (`Known`); that a number given to a transaction is
pending, in the log or lost, but only one of these, and once (`IdsDistinct`); and,
while nothing has been replaced, that the files a pending rewrite removes are those of
the snapshot it has read (`ReadFrom`), so that two rewrites of a file conflict.
`RowsExactlyOnceHolds` follows from the last. For `TableImplementsEventTable` the
content is the rows of the appends in the log (`ContentIsAppended`): an entry added is an
`Append`, of no partitions if it is a rewrite's; an entry replaced is a `Replace`; all
else is a stutter. `NamesUniqueHolds` says that no file name is ever used twice.

**CompactionRun.** Assumptions: those of the two modules, that the stream is not a
run, that partitions are finitely many numbers, and that the thresholds are natural
numbers. The proof is compositional.
`RunsUseLocks` and `RunsUseTable` show that every step of the system maps to a
step, or to a stutter, of LockManager and of DeltaTable; the only invariant they
need is that clock, partitions and the loop's list have their types. So the
theorems about the two modules carry over: `RunsExclude`,
`RunsNeverStolen`, `DeadRunsLockWearsOff` (of a killed run's lock), `RowsExactlyOnceHolds`,
`ReadersLoseOnlyOverwrittenHolds`. Three properties belong to the composition itself:

* `DoomedOnlyWithoutLeaseHolds` rests on `WorksUnderLock`: a run has a pending
  rewrite only between its acquire and its release, and only of files of the
  partition its lock is for. Two rewrites in each other's way are then two
  holders of one lock, which `LeaseExclusion` excludes while leases are in force.
* `YoungFilesOnlyIfUnseenHolds` rests on `AgeGuard`: whatever a run has still to do
  consists, as far as it knows, of files older than the guard, and stays so, as
  files only age and a name never gets a new file.
* `WorkIsLoggedOnceHolds` rests on `LoggedSoFar`: no line before the end, and no
  rewrite in the one phase whose failure is not logged.

**What a run reports** (second part of `CompactionRunProofs`). The counters are sizes of sets of
files, so the first lemma is that the bucket stays finite; with it `TypeCorrect`.
`SummaryAddsUp` and `ExitCodeHonest` speak of the end of a run; the invariant
`Summary` states them for its middle. `Books`: the partitions still open, those
compacted and those failed are disjoint and together as many as were eligible; lock
conflicts are among the failed. `Backed`: without `OPTIMIZE`, a partition counts as
compacted only once a rewrite of it has been committed in this run (`OPTIMIZE` finds
nothing to do in a partition without live files), so exit code 0 is backed by the
table.
`WorkIsReportedHolds` rests on `ToldInv`: in the middle of a run only the partition in
hand may be rewritten and not yet be among the compacted or failed ones, and whatever
raises, the fallback or the end of the partition puts it there.
`FilesReducedOnlyByFailureHolds` compares two listings of different times:
`Grown` and `Filed` say that every partition the run has counted holds at least as
many objects as when it was listed, as a rewrite adds objects and removes none.
`RunTakesForecastHolds` needs two invariants: `Untouched`, that a run has counted
nothing before its scan, and `Seen`, that a table once found stays there. The
second rests on the log, which never gets shorter.
`RunKeepsForecastHolds` compares `files_before`, which the loop adds to partition by
partition, with a sum over the listing. `Tallied` says it for the middle of a
run in which nothing has failed yet: the counter is the sum over the partitions
*charged* so far, those compacted and the one under work. It is kept because a
retry with the other method does not charge the partition again, because a partition
never comes back on the list, and because what is charged is in the listing
(`Covered`).

`FragmentsOnlyFromDeadFilesHolds` relates the plan of a rewrite to the rows it finds.
`StillListed` says that what the scan saw is still in the bucket, under names that are
unique (`NamesUniqueHolds`), so a listed file that is in the snapshot now is the file
that was listed. If all of them are, their sizes add up to no more than the rows of the
partition, as no row is in two files while no log entry was replaced (`LiveBytes`, from
`SumOfParts`), and
`estimate_output_file_count` gives at most one file more than the bytes fill
(`EstimateIsTight`). Batches that arrive after the scan only add rows. So the finding
about fragments has one cause, dead files in the listing.

**That a run ends** has a safety half that needs no fairness. `StepsLeft(r)` counts,
from the run's place and the partitions on its list, the steps it may still take:
at most 14 for a partition (a stale lock cleaned up and a new one written, an
`OPTIMIZE` and a fallback, a release), and four around the loop. `RunAdvancesHolds`
says that every step of the run decreases that number and no step of another run, of
the stream or of the clock increases it. So a run neither polls for a lock, nor
retries more than once, nor goes back to a partition. `StepsBounded` adds that the
number is between 0 and 14 times the number of partitions plus 4. The invariant
behind both is `CallsInPhase`: in the phases of a lock call the lock manager is inside
that call. What TLC adds with `RunTerminates` is that a step is always possible.

**Daemon.** Assumption: the interval is positive and the timeout a number. `Paced`:
a process that is about to loop has either let an interval pass or is sleeping the
rest of it; hence `CyclesSpaced`. `Worn`: each cycle that found the lock has used up
an interval of its lease, the one under way as much as has passed since it began;
hence `BlockedByDeadLock`.
`WayOutIsShort` is the safety half of `StopsWhenAsked`: the flag is cleared only in a
process that loops and that Docker will not restart (`AskedInLoop`); from then on
`WayOut`, the statements and the rest of the sleep before the exit, is at most four more
than the interval, is shortened by every statement and every moment of a sleep, and is
lengthened by nothing, not by another signal; no new cycle begins. What remains
for fairness is that the cycle under way ends, time passes and statements are executed.

**StreamingJob.** Assumption: bad events are events, bounds are numbers. `SoFar`
strengthens `AtLeastOnce` by where `process_batch` stands: after a count, the count
covers what the topic still holds of the batch; after an append, those rows are
stored; at the end, both. It survives expiry between two reads, since expired rows
are excused, and failures, since they only forget the counts. `CopyBounds` bounds
the copies of an event by the failures so far, less one before the batch's own
append; `LineWritten` does the same for the metrics line.
`MetricsBackedHolds` compares two sums: the rows all lines of the metrics file claim,
a sum over the log, and the copies stored, a sum over the topic, with the events
that expired between the count of a batch and its append. The invariant
(`ValidBacked`, `BadBacked`) accounts for the batch under work: before its append,
log and count together are covered by what is stored, what has expired and what the
topic still holds of the batch; after it, by the first two.

**Pipeline.** Assumption: the limits are natural numbers. `LossOnlyAtLimitsHolds` from
`ProducerInv`: as long as `main` lives every number given out is queued, reported or in
the topic, which only grows, and the queue holds no more than its limit; so the end of
`main` makes at most a queue of events disappear, a full queue one more, and a flush
that ends in time finds the queue empty.
`PipelineImplementsJob` maps a send to `Publish` and the producer's other steps to
stutters, and carries the job's invariants over (`PipelineKeepsEvents`).
`EventsAccountedFor` joins the two halves of the way of an event, and is the safety half
of `EventsArrive`: at every moment an event that was ever produced is with the client,
reported failed, gone at an end of `main` that may cost events, ahead of the checkpoint, dropped by the topic,
older than the job's first start, or in a table.

**RecordRules.** No assumptions. `Judged` says that what is known so far is what the
two sides say of the payload. `RulesAgreeHolds`, `SparkLaxOnlyHereHolds` and
`ProducerJudgedHolds` then compare the two sets of flags, field by field, instead of
enumerating payloads: on values that are not disputed the flags are equal
(`FlagsAgree`), both sides report the first flagged field of one order
(`ReasonIsFlagged`), and what `from_json` makes of a text is null or one record
(`Structs`).

**Benchmark.** Assumption: finitely many partitions. `BenchInv`: the bucket only
grows, so the saved counts ascend (`Ascending`), and a count is never smaller than
the largest before it. `AutoIsBeforeHolds` follows at once;
`ReductionOnlyBackwardsHolds` needs also that the baseline is a maximum of a
nonempty set. `BenchmarkKeepsTable` carries the table's theorems over.

**Sums** (`FiniteSums`). The models add up with `SumFunctionOnSet`, a fold, and the
library's induction theorems take an operator, which the provers cannot
instantiate. `SubsetInduction` states induction over a finite set `S` for a *set* of
subsets instead of a predicate, which is a first-order formula: a set of subsets of
`S` that holds each subset all of whose proper subsets it holds, holds `S`. It
follows from the library's theorem that the proper subset order on a finite set is
well founded. With it the function the fold chooses is shown to exist and to be
unique (`SumExists`, `SumsAgree`); so the sum can be taken apart at any element
(`SumRemove`), and it stays, or rises, with its terms (`SumSame`, `SumRaised`).
`SumOfParts`: the sizes of disjoint finite sets add up to that of their union.

**Only model-checked.** `OrphanFreed`, `RunTerminates`, `EventsArrive`,
`LockComesBack` and `StopsWhenAsked` are liveness properties under fairness, which
`tlapm` cannot prove. Each has a safety half that is a theorem: in this order
`OrphanWearsOffHolds`, `RunAdvancesHolds` with `StepsBounded`, `EventsAccountedFor`,
`BlockedByDeadLockHolds` and `WayOutIsShort`. Every other property of the passing runs is a theorem.

## 5. Findings

1. `lock_mutex`: two workers that start together both get the lock.
   `lock_manager.py:201` reads, `:226` writes without a condition.
   `src/docs/ARCHITECTURE.md:180` promises "Prevent two workers from compacting the
   same partition concurrently". What does hold is `LeaseExclusion`.
2. `lost_append`: a rewrite of one partition and an append to another look at the same
   version of the log, the append commits, and the rewrite's PUT replaces its entry: the
   rows appended are in no snapshot, and nobody is told. `src/docs/ARCHITECTURE.md:349`
   says "**Other partitions:** Unaffected. Appends proceed normally.", and `:184`
   "Correctness comes from Delta ACID overwrite semantics, not from the lock itself".
   The documents do know of the danger for one partition: `:350` says of an append
   during a rewrite "last commit wins for overlapping writes", `:308` of two rewrites
   "last writer wins". The partition does not matter, though. Where log entries do not
   collide, a rewrite removes only files it has read and loses a conflict with another
   one (`CanCommit`), so that a committed append stays, in the same partition too; where
   they collide, the last PUT wins over whatever was in the entry. What does hold is
   `ReadersLoseOnlyOverwritten`: a collision costs the commit it replaces, and nothing
   else. A log store with put-if-absent (`spark.delta.logStore.s3a.impl`) rules
   it out; so does `MaxOverwrites = 0`.
3. `fragments`: `scan_partitions` counts the bytes of replaced and of uncommitted
   files, so a second compaction plans for more output than there is data and
   splits a full file. `src/docs/ARCHITECTURE.md:80` says "fewer, larger files". What
   does hold is `FragmentsOnlyFromDeadFiles`: with live files alone it never happens.
4. `replay`: the append of `process_batch` carries no batch id, and a batch that
   fails after it is appended again. `src/docs/ARCHITECTURE.md:127` says "idempotent
   append". What does hold is `AtLeastOnce` with `CopiesOnlyByReplay`.
5. `glob`: DuckDB reads every Parquet object under the table's path, so after a
   compaction it sees rewritten rows twice. `src/docs/ARCHITECTURE.md:143` says
   "Physical files in S3 are never the authority on their own", of DuckDB by name.

Seen while modelling, and stated by properties that hold or by the actions themselves:

* `AutoIsBefore`, `ReductionOnlyBackwards`: nothing in the repository removes
  replaced files, so the hint at `benchmark_queries.py:427` (that `--phase auto`
  after a compaction gives a comparison) never comes true, and a report that shows
  fewer files has its two runs in the wrong order.
* `FilesReducedOnlyByFailure`: for the same reason a clean run never reports fewer
  files after than before, while `src/README.md:202` shows `"files_before": 87,
  "files_after": 4`.
* `ProducerJudged`: a truncated JSON text is quarantined under the reason of its
  first missing field; `src/docs/ARCHITECTURE.md:365` says `malformed_json`. The
  tests that give that reason call the Python validator, which the job does not.
* `VerifyFails`: an error of the store in `verify_delta_table_exists` (other than an
  empty listing) leaves `run_compaction_cycle` at `compaction_daemon.py:214`, before the
  `try` that writes metrics. `src/docs/ARCHITECTURE.md:377` says "error logged to
  metrics".
* `CountFiles`, `SparkFails`: a listing that fails after the second method's commit
  makes a compacted partition a failed one in the summary (`delta_compactor.py:115`).
  `WorkIsReported` is what is left.
* `QueueFull`: `produce()` raises `BufferError` at a full queue, which nothing catches.
  The producer ends without `flush`, after it has numbered the event.
* `src/docs/ARCHITECTURE.md:200` lists a breakdown by rejection reason among the
  metrics of a batch; `process_batch` passes counts only.
* `Daemon`'s `Once`: `--daemon --partition p` runs one cycle and exits.

## 6. Abstractions, and what is not modelled

* **The lock object** always parses; locks of the older format without
  `expires_at` and the local-file variant used by the unit tests are left out.
  Clocks differ by a constant; they do not drift.
* **The listing** is one step, as the bucket is strongly consistent and the
  paginated calls are short; the paginator is not modelled.
* **The rows** a batch has in one partition are one element until a rewrite, and
  weigh one byte. `math.ceil` on floats is exact division here.
* **The log**: that a driver may replace another's entry is Delta's default log store
  as the code configures it. A driver goes on with the true log; that its cached
  snapshot may still show an entry of its own that was replaced is left out, as are
  checkpoints of the log, which would keep a replaced entry's effect. Whether the
  conflict check saw the old or the new entry of a version is open (`Found`), for each
  version on its own. A rewrite takes rows as a set, so that a row that a replaced
  entry has left in two files is written once.
* **`OPTIMIZE`** rewrites the partition into one file; that it may leave a single
  file alone is not modelled, that it does nothing without live files is.
* **Writing the metrics line** of a compaction run does not fail; that of a batch
  may.
* **DeltaTable's stream and StreamingJob** are two views of one append: the first
  counts every append as a new batch, since rows have no identity in the table;
  the second counts copies, and leaves the files out.
* **Spark's engine**: one Kafka partition, one batch at a time; the empty first
  batch and the log compaction of the checkpoint are left out. A retry of single
  Spark tasks is inside a statement.
* **The Kafka client** reports nothing late: an event whose answer was lost stays
  queued and is sent again.
* **The daemon** and the run are separate modules; what connects them is that a run
  ends (`RunTerminates`), by return or exception, and gives its lock back or loses
  the call.
* **A signal during `flush`** only sets the flag again; it is no step.
* **Values of records** are the classes the rules tell apart. How many fields
  Spark keeps of a broken text is left open.
* **Not modelled**: the parsing of configuration, environment and command lines and
  the defaults (no state), logging and tables of output (formatting), the timing,
  the SQL and the Markdown of the benchmark (their results depend on data the model
  does not hold), percentages of `QualityMetrics`, the producer's rate and bad-event
  rate (arithmetic on wall time and chance), scripts and container definitions
  except for the restart policies.

## 7. State of the plan

Done: all modules of the plan, and the proofs above: every property of a passing run
is proved but for liveness, and each liveness property has a proved safety half. What
could follow:

1. How often a batch may be repeated before its events are stored: the one bound
   on the pipeline's way of an event that is not stated as a number of steps.
2. The daemon's cycle as an abstraction of a run, proved as a refinement, and with it
   that successive runs of one process compact, in the end, a partition that stays
   eligible.
3. Clocks that drift or are set while a lease is held.
