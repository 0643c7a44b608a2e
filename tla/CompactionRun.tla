---------------------------- MODULE CompactionRun ----------------------------
(***************************************************************************)
(* run_compaction_cycle of src/src/compactor/compaction_daemon.py with     *)
(* everything it calls: the scanner, the selection policy, the lock        *)
(* manager, the two ways of rewriting a partition and the run's metrics.   *)
(* Several runs work on one table and one set of locks while the streaming *)
(* job appends. The locks and the table are the modules LockManager and    *)
(* DeltaTable; a step of a run that calls them is one of their steps.      *)
(*                                                                         *)
(* Partitions are numbers in listing order, which is the order of the      *)
(* loop. One row counts one byte.                                          *)
(***************************************************************************)
EXTENDS PartitionSelection

CONSTANTS
    Runs,          \* compaction runs: processes that run one cycle each
    Stream,        \* the streaming job
    Partitions,
    All,           \* no --partition argument
    Targets,       \* Targets[r]: the arguments run r may be started with
    UsesOptimize,  \* runs configured with USE_DELTA_OPTIMIZE
    Timeout,       \* lock_timeout_seconds of each run
    Ahead,         \* the clock of each run's host, relative to the store's
    MaxClock, MaxTxns, MaxFiles, MaxOverwrites,    \* bounds of the model
    NoLock, NoTxn

ASSUME RunsAssumption ==
    /\ Stream \notin Runs
    /\ Partitions \subseteq Nat /\ IsFiniteSet(Partitions)
    /\ All \notin Partitions
    /\ Targets \in [Runs -> SUBSET (Partitions \cup {All})]
    /\ UsesOptimize \subseteq Runs

VARIABLES
    lock, clock, pc, part, ref, contested,   \* the locks
    objects, log, live, overwritten, txn, nextTxn,    \* the table
    target,     \* target[r]: the --partition argument of run r, or All
    phase,      \* phase[r]: where run r is in its cycle
    listing,    \* listing[r]: what its scan found, by partition
    todo,       \* todo[r]: eligible partitions the loop has not reached
    method,     \* method[r]: how it rewrites the current partition
    metrics,    \* metrics[r]: its CompactionRunMetrics
    summaries,  \* summaries[r]: lines it has written to the metrics file
    rewritten   \* ghost: partitions of which r has committed a rewrite

lockVars == <<lock, clock, pc, part, ref, contested>>
tableVars == <<objects, log, live, overwritten, txn, nextTxn>>
runVars == <<target, phase, listing, todo, method, metrics, summaries, rewritten>>
vars == <<lockVars, tableVars, runVars>>

L == INSTANCE LockManager WITH Managers <- Runs
T == INSTANCE DeltaTable
        WITH Writers <- Runs \cup {Stream}, Times <- 0..MaxClock

\* What the two instances assume of their constants.
ASSUME BoundsAssumption == {MaxClock, MaxTxns, MaxFiles, MaxOverwrites} \subseteq Nat
ASSUME TimeoutAssumption == Timeout \in [Runs -> Nat \ {0}]
ASSUME AheadAssumption == Ahead \in [Runs -> Int]
ASSUME NothingAssumption == NoLock \notin L!Lock /\ NoTxn \notin T!Txn

-----------------------------------------------------------------------------

Metrics == [partitions_scanned    : Nat,
            eligible_partitions   : Nat,
            skipped_partitions    : Nat,
            compacted_partitions  : SUBSET Partitions,
            failed_partitions     : SUBSET Partitions,
            lock_conflicts        : Nat,
            files_before          : Nat,
            files_after           : Nat,
            error                 : BOOLEAN]

NoMetrics == [partitions_scanned |-> 0, eligible_partitions |-> 0,
              skipped_partitions |-> 0, compacted_partitions |-> {},
              failed_partitions |-> {}, lock_conflicts |-> 0,
              files_before |-> 0, files_after |-> 0, error |-> FALSE]

\* A run that returned its metrics, one that left by an exception, one killed.
Over == {"done", "raised", "dead"}
Working == {"rewrite", "commit", "count"}
Phases == {"verify", "scan", "spark", "loop", "acquire", "release"}
              \cup Working \cup Over

TypeOK ==
    /\ L!TypeOK
    /\ T!TypeOK
    /\ target \in [Runs -> Partitions \cup {All}]
    /\ phase \in [Runs -> Phases]
    /\ \A r \in Runs : /\ DOMAIN listing[r] \subseteq Partitions
                       /\ \A p \in DOMAIN listing[r] : listing[r][p] \subseteq FileInfo
    /\ todo \in [Runs -> SUBSET Partitions]
    /\ method \in [Runs -> {"delta_optimize", "zorder_inspired"}]
    /\ metrics \in [Runs -> Metrics]
    /\ summaries \in [Runs -> Nat]
    /\ rewritten \in [Runs -> SUBSET Partitions]

Init ==
    /\ L!Init
    /\ T!Init
    /\ target \in [Runs -> Partitions \cup {All}]
    /\ \A r \in Runs : target[r] \in Targets[r]
    /\ phase = [r \in Runs |-> "verify"]
    /\ listing = [r \in Runs |-> <<>>]
    /\ todo = [r \in Runs |-> {}]
    /\ method = [r \in Runs |-> "zorder_inspired"]
    /\ metrics = [r \in Runs |-> NoMetrics]
    /\ summaries = [r \in Runs |-> 0]
    /\ rewritten = [r \in Runs |-> {}]

-----------------------------------------------------------------------------
(* Steps shared by the actions                                             *)

GoTo(r, p) == phase' = [phase EXCEPT ![r] = p]

\* One line is appended to the metrics file.
WriteRunSummary(r) == summaries' = [summaries EXCEPT ![r] = @ + 1]

\* _finalize_run, then return the metrics or let the exception go on.
Finalize(r, end) == WriteRunSummary(r) /\ GoTo(r, end)

SetError(r) == metrics' = [metrics EXCEPT ![r].error = TRUE]

\* Wrong: the exception goes on before the summary is written.
WrongRaiseOut(r) ==
    /\ SetError(r)
    /\ GoTo(r, "raised")
    /\ UNCHANGED <<target, listing, todo, method, summaries, rewritten>>

\* The outer except clause: an exception that no inner one has caught.
RaiseOut(r) ==
    /\ SetError(r)
    /\ Finalize(r, "raised")
    /\ UNCHANGED <<target, listing, todo, method, rewritten>>

\* Wrong: the failure is forgotten.
WrongFailPartition(r) == UNCHANGED metrics

FailPartition(r) ==
    metrics' = [metrics EXCEPT ![r].failed_partitions = @ \cup {part[r]}]

-----------------------------------------------------------------------------
(* Verify, scan, select                                                    *)

\* _delta_log is there from the first commit on.
Verify(r) ==
    /\ phase[r] = "verify"
    /\ log # <<>>
    /\ GoTo(r, "scan")
    /\ UNCHANGED <<lockVars, tableVars, target, listing, todo, method, metrics,
                   summaries, rewritten>>

TableNotFound(r) ==
    /\ phase[r] = "verify"
    /\ log = <<>>
    /\ SetError(r)
    /\ Finalize(r, "done")
    /\ UNCHANGED <<lockVars, tableVars, target, listing, todo, method, rewritten>>

\* Only TableNotFoundError is caught around verify_delta_table_exists: any
\* other error leaves the cycle before the try block that writes metrics.
VerifyFails(r) ==
    /\ phase[r] = "verify"
    /\ GoTo(r, "raised")
    /\ UNCHANGED <<lockVars, tableVars, target, listing, todo, method, metrics,
                   summaries, rewritten>>

\* scan_partitions lists objects, whether or not the log refers to them.
Listed(p) ==
    {[key |-> <<f.txn, f.idx>>, size_bytes |-> Cardinality(f.rows),
      last_modified |-> f.at] : f \in T!StoredIn(p)}

ScanPartitions ==
    [p \in {q \in Partitions : T!StoredIn(q) # {}} |-> Listed(p)]

\* The age of a file is the store's time of it against the run's own clock.
EligibleFor(r) ==
    IF target[r] = All THEN Selected(ScanPartitions, L!Now(r)) ELSE {target[r]}

\* Wrong: the subtraction is turned around.
WrongSelectedMetrics(r) ==
    LET scanned == Cardinality(DOMAIN ScanPartitions)
        eligible == Cardinality(EligibleFor(r))
    IN  [metrics EXCEPT
            ![r].partitions_scanned = scanned,
            ![r].eligible_partitions = eligible,
            ![r].skipped_partitions = IF target[r] = All THEN eligible - scanned ELSE 0]

\* A targeted run takes its partition whatever the policy says, and skips none.
SelectedMetrics(r) ==
    LET scanned == Cardinality(DOMAIN ScanPartitions)
        eligible == Cardinality(EligibleFor(r))
    IN  [metrics EXCEPT
            ![r].partitions_scanned = scanned,
            ![r].eligible_partitions = eligible,
            ![r].skipped_partitions = IF target[r] = All THEN scanned - eligible ELSE 0]

Scan(r) ==
    /\ phase[r] = "scan"
    /\ target[r] \in DOMAIN ScanPartitions \cup {All}
    /\ metrics' = SelectedMetrics(r)
    /\ listing' = [listing EXCEPT ![r] = ScanPartitions]
    /\ todo' = [todo EXCEPT ![r] = EligibleFor(r)]
    /\ \/ EligibleFor(r) # {} /\ GoTo(r, "spark") /\ UNCHANGED summaries
       \/ EligibleFor(r) = {} /\ Finalize(r, "done")
    /\ UNCHANGED <<lockVars, tableVars, target, method, rewritten>>

TargetNotFound(r) ==
    /\ phase[r] = "scan"
    /\ target[r] \notin DOMAIN ScanPartitions \cup {All}
    /\ metrics' = [metrics EXCEPT
            ![r].partitions_scanned = Cardinality(DOMAIN ScanPartitions),
            ![r].error = TRUE]
    /\ Finalize(r, "done")
    /\ UNCHANGED <<lockVars, tableVars, target, listing, todo, method, rewritten>>

ScanFails(r) ==
    /\ phase[r] = "scan"
    /\ RaiseOut(r)
    /\ UNCHANGED <<lockVars, tableVars>>

CreateSparkSession(r) ==
    /\ phase[r] = "spark"
    /\ \/ GoTo(r, "loop") /\ UNCHANGED <<metrics, summaries>>
       \/ SetError(r) /\ Finalize(r, "done")
    /\ UNCHANGED <<lockVars, tableVars, target, listing, todo, method, rewritten>>

-----------------------------------------------------------------------------
(* The loop over the eligible partitions: acquire                          *)

NextPartition(r) ==
    /\ phase[r] = "loop"
    /\ \E p \in todo[r] :
          /\ \A q \in todo[r] : p <= q
          /\ L!StartAcquire(r, p)
          /\ todo' = [todo EXCEPT ![r] = @ \ {p}]
    /\ GoTo(r, "acquire")
    /\ UNCHANGED <<tableVars, target, listing, method, metrics, summaries,
                   rewritten>>

FinishRun(r) ==
    /\ phase[r] = "loop"
    /\ todo[r] = {}
    /\ Finalize(r, "done")
    /\ UNCHANGED <<lockVars, tableVars, target, listing, todo, method, metrics,
                   rewritten>>

AcquireCall(r) ==
    /\ phase[r] = "acquire"
    /\ L!CleanupGet(r) \/ L!CleanupDelete(r) \/ L!GetFree(r) \/ L!DeleteRefused(r)
    /\ UNCHANGED <<tableVars, runVars>>

\* Wrong: the answer False is ignored.
WrongLockRefused(r) ==
    /\ phase[r] = "acquire"
    /\ L!GetRefused(r)
    /\ GoTo(r, "rewrite")
    /\ UNCHANGED <<tableVars, target, listing, todo, method, metrics, summaries,
                   rewritten>>

LockRefused(r) ==
    /\ phase[r] = "acquire"
    /\ L!GetRefused(r)
    /\ metrics' = [metrics EXCEPT ![r].lock_conflicts = @ + 1,
                                  ![r].failed_partitions = @ \cup {part[r]}]
    /\ GoTo(r, "loop")
    /\ UNCHANGED <<tableVars, target, listing, todo, method, summaries, rewritten>>

\* The files are counted as "before" now, from the scan, compacted or not.
LockAcquired(r) ==
    /\ phase[r] = "acquire"
    /\ L!Put(r)
    /\ metrics' = [metrics EXCEPT
            ![r].files_before = @ + Cardinality(listing[r][part[r]])]
    /\ method' = [method EXCEPT ![r] =
            IF r \in UsesOptimize THEN "delta_optimize" ELSE "zorder_inspired"]
    /\ GoTo(r, "rewrite")
    /\ UNCHANGED <<tableVars, target, listing, todo, summaries, rewritten>>

\* Neither acquire nor the release in the finally clause has a handler of its
\* own: what they raise ends the run.
LockCallRaises(r) ==
    /\ phase[r] \in {"acquire", "release"}
    /\ L!CallFails(r) \/ L!AnswerLost(r)
    /\ RaiseOut(r)
    /\ UNCHANGED tableVars

-----------------------------------------------------------------------------
(* compact_partition                                                       *)

\* The number of files comes from the bytes the scan saw in the bucket;
\* OPTIMIZE packs a partition of this size into one file.
OutputFiles(r) ==
    IF method[r] = "delta_optimize"
    THEN 1
    ELSE EstimateOutputFileCount(TotalBytes(listing[r][part[r]]))

BeginRewrite(r) ==
    /\ phase[r] = "rewrite"
    /\ OutputFiles(r) \in 1..MaxFiles
    /\ T!WriteRewrite(r, part[r], OutputFiles(r), clock)
    /\ GoTo(r, "commit")
    /\ UNCHANGED <<lockVars, target, listing, todo, method, metrics, summaries,
                   rewritten>>

\* OPTIMIZE of a partition without live files commits nothing and succeeds.
OptimizeNothing(r) ==
    /\ phase[r] = "rewrite"
    /\ method[r] = "delta_optimize"
    /\ T!LiveIn(part[r]) = {}
    /\ GoTo(r, "count")
    /\ UNCHANGED <<lockVars, tableVars, target, listing, todo, method, metrics,
                   summaries, rewritten>>

CommitRewrite(r) ==
    /\ phase[r] = "commit"
    /\ T!Commit(r)
    /\ rewritten' = [rewritten EXCEPT ![r] = @ \cup {part[r]}]
    /\ GoTo(r, "count")
    /\ UNCHANGED <<lockVars, target, listing, todo, method, metrics, summaries>>

\* _count_partition_files lists the bucket again.
CountFiles(r) ==
    /\ phase[r] = "count"
    /\ metrics' = [metrics EXCEPT
            ![r].compacted_partitions = @ \cup {part[r]},
            ![r].files_after = @ + Cardinality(T!StoredIn(part[r]))]
    /\ GoTo(r, "release")
    /\ UNCHANGED <<lockVars, tableVars, target, listing, todo, method,
                   summaries, rewritten>>

\* Wrong: OPTIMIZE is tried again.
WrongRetryOrFail(r) ==
    /\ \/ /\ method[r] = "delta_optimize"
          /\ GoTo(r, "rewrite")
          /\ UNCHANGED metrics
       \/ /\ method[r] = "zorder_inspired"
          /\ FailPartition(r)
          /\ GoTo(r, "release")
    /\ UNCHANGED <<lockVars, target, listing, todo, method, summaries, rewritten>>

\* Wrong: the files are counted as "before" for each of the two methods.
WrongRetryCounts(r) ==
    /\ \/ /\ method[r] = "delta_optimize"
          /\ method' = [method EXCEPT ![r] = "zorder_inspired"]
          /\ metrics' = [metrics EXCEPT
                ![r].files_before = @ + Cardinality(listing[r][part[r]])]
          /\ GoTo(r, "rewrite")
       \/ /\ method[r] = "zorder_inspired"
          /\ FailPartition(r)
          /\ GoTo(r, "release")
          /\ UNCHANGED method
    /\ UNCHANGED <<lockVars, target, listing, todo, summaries, rewritten>>

\* Whatever goes wrong in OPTIMIZE, the count after its commit included, is
\* tried again by the other method; that one's errors fail the partition.
RetryOrFail(r) ==
    /\ \/ /\ method[r] = "delta_optimize"
          /\ method' = [method EXCEPT ![r] = "zorder_inspired"]
          /\ GoTo(r, "rewrite")
          /\ UNCHANGED metrics
       \/ /\ method[r] = "zorder_inspired"
          /\ FailPartition(r)
          /\ GoTo(r, "release")
          /\ UNCHANGED method
    /\ UNCHANGED <<lockVars, target, listing, todo, summaries, rewritten>>

\* Spark fails before the commit, the rewrite loses a conflict, there are no
\* rows to rewrite (EmptyPartitionError), or the listing after the commit fails.
SparkFails(r) ==
    /\ phase[r] \in Working
    /\ IF T!Writing(r) THEN T!Conflict(r) \/ T!Abandon(r) ELSE UNCHANGED tableVars
    /\ RetryOrFail(r)

-----------------------------------------------------------------------------
(* release, in the finally clause                                          *)

StartRelease(r) ==
    /\ phase[r] = "release"
    /\ L!StartRelease(r)
    /\ UNCHANGED <<tableVars, runVars>>

ReleaseCall(r) ==
    /\ phase[r] = "release"
    /\ L!ReleaseStep(r) \/ L!DeleteRefused(r)
    /\ IF pc'[r] = "idle" THEN GoTo(r, "loop") ELSE UNCHANGED phase
    /\ UNCHANGED <<tableVars, target, listing, todo, method, metrics, summaries,
                   rewritten>>

-----------------------------------------------------------------------------
(* The process is killed; the streaming job; time                          *)

Crash(r) ==
    /\ phase[r] \notin Over
    /\ GoTo(r, "dead")
    /\ IF T!Writing(r) THEN T!Abandon(r) ELSE UNCHANGED tableVars
    /\ IF pc[r] = "idle" THEN UNCHANGED lockVars ELSE L!CallFails(r) \/ L!AnswerLost(r)
    /\ UNCHANGED <<target, listing, todo, method, metrics, summaries, rewritten>>

StreamAppends ==
    /\ \/ \E P \in SUBSET Partitions : T!WriteAppend(Stream, P, clock)
       \/ T!Commit(Stream)
       \/ T!Abandon(Stream)
    /\ UNCHANGED <<lockVars, runVars>>

Tick == L!Tick /\ UNCHANGED <<tableVars, runVars>>

-----------------------------------------------------------------------------

Prepare(r) ==
    \/ Verify(r)
    \/ TableNotFound(r)
    \/ Scan(r)
    \/ TargetNotFound(r)
    \/ CreateSparkSession(r)

LockWork(r) ==
    \/ NextPartition(r)
    \/ AcquireCall(r)
    \/ LockRefused(r)
    \/ LockAcquired(r)
    \/ StartRelease(r)
    \/ ReleaseCall(r)

SparkWork(r) ==
    \/ BeginRewrite(r)
    \/ OptimizeNothing(r)
    \/ CommitRewrite(r)
    \/ CountFiles(r)
    \/ SparkFails(r)

Error(r) ==
    \/ VerifyFails(r)
    \/ ScanFails(r)
    \/ LockCallRaises(r)
    \/ Crash(r)

RunStep(r) == Prepare(r) \/ LockWork(r) \/ SparkWork(r) \/ FinishRun(r)

Next ==
    \/ \E r \in Runs : RunStep(r) \/ Error(r)
    \/ StreamAppends
    \/ Tick

Spec == Init /\ [][Next]_vars

\* A process that runs gets on with what it is doing.
Fairness == \A r \in Runs : WF_vars(RunStep(r))

-----------------------------------------------------------------------------
(* Properties                                                              *)

\* Races, conflicts, retries and crashes of the runs are invisible to a reader:
\* the table gains whole batches and loses none but those whose own log entries
\* another driver has replaced, wherever rewrites have moved their rows.
ReadersLoseOnlyOverwritten == T!ImplementsEventTable

\* While no log entry has been replaced no two files of the snapshot hold the
\* same row, although runs may rewrite one partition at the same time, or twice
\* when OPTIMIZE fails late; and every row stays in its partition.
RowsExactlyOnce == T!RowsExactlyOnce

\* One run's commit makes another's rewrite worthless only if one of the two
\* had lost its lease or got its lock in a race: the locks prevent duplicate
\* effort as far as LockManager prevents shared leases.
DoomedOnlyWithoutLease ==
    [][\A r, s \in Runs :
          (/\ T!CanCommit(r) /\ ~T!CanCommit(r)' /\ T!Writing(r)'
           /\ r # s /\ T!Writing(s) /\ ~T!Writing(s)')
          => \E q \in {r, s} : ~L!InForce(q) \/ q \in contested]_vars

\* The age guard: an untargeted run rewrites a file that is, by the run's own
\* clock, younger than the guard only if the file was not there yet when the
\* run scanned the bucket.
YoungFilesOnlyIfUnseen ==
    \A r \in Runs : T!Writing(r) /\ target[r] = All =>
        \A f \in txn[r].base :
            \/ f.at <= L!Now(r) - partition_age_skip
            \/ \A g \in listing[r][part[r]] : g.key # <<f.txn, f.idx>>

\* Wrong: a run that compacted nothing had nothing to do.
WrongExitCode(m) ==
    CASE m.error                                    -> 1
      [] ~m.error /\ m.compacted_partitions = {}    -> 2
      [] OTHER                                      -> 0

\* CompactionRunMetrics.exit_code
ExitCode(m) ==
    CASE m.error                                                   -> 1
      [] ~m.error /\ m.compacted_partitions = {}
                  /\ m.eligible_partitions = 0                     -> 2
      [] ~m.error /\ m.compacted_partitions = {}
                  /\ m.eligible_partitions # 0
                  /\ m.failed_partitions # {}                      -> 1
      [] OTHER                                                     -> 0

\* The exit code a scheduler branches on is true of the table: 2 is returned
\* only by a run that changed nothing, 0 only by one that compacted something
\* and, unless OPTIMIZE may have found nothing to do, committed it.
ExitCodeHonest ==
    \A r \in Runs : phase[r] = "done" =>
        /\ ExitCode(metrics[r]) = 2 => rewritten[r] = {}
        /\ ExitCode(metrics[r]) = 0 => metrics[r].compacted_partitions # {}
        /\ metrics[r].compacted_partitions \ rewritten[r] # {} => r \in UsesOptimize

\* The counters of a run that ends without an error add up: every scanned
\* partition is selected or skipped, every selected one compacted or failed,
\* none both; lock conflicts are among the failures.
SummaryAddsUp ==
    \A r \in Runs : phase[r] = "done" /\ ~metrics[r].error =>
        /\ metrics[r].compacted_partitions \cap metrics[r].failed_partitions = {}
        /\ metrics[r].eligible_partitions =
              Cardinality(metrics[r].compacted_partitions
                             \cup metrics[r].failed_partitions)
        /\ target[r] = All => metrics[r].partitions_scanned =
              metrics[r].eligible_partitions + metrics[r].skipped_partitions
        /\ metrics[r].lock_conflicts <= Cardinality(metrics[r].failed_partitions)

\* What files_reduced is worth: a run that reports fewer files than before has
\* failed on a partition whose files it had already counted. Where it succeeds
\* the replaced files are still in the bucket and are counted again.
FilesReducedOnlyByFailure ==
    \A r \in Runs : phase[r] = "done" /\ metrics[r].files_after < metrics[r].files_before =>
        metrics[r].failed_partitions # {}

\* A run that changed the table and was not killed has written one line of
\* metrics, whichever call it failed in.
WorkIsLoggedOnce ==
    \A r \in Runs : phase[r] \in {"done", "raised"} =>
        /\ summaries[r] <= 1
        /\ rewritten[r] # {} => summaries[r] = 1

\* A run that was not killed names every partition it has changed, as compacted
\* or as failed: also when the files cannot be counted after the commit, and
\* when the release of the lock raises and the rest of the loop is dropped.
WorkIsReported ==
    \A r \in Runs : phase[r] \in {"done", "raised"} =>
        rewritten[r] \subseteq metrics[r].compacted_partitions
                                   \cup metrics[r].failed_partitions

\* The longest way through one partition, counted from its end: every call of
\* acquire and release, and both methods, each failing as late as it can.
StepsOfCall == [cleanup_get |-> 13, cleanup_delete |-> 12, get |-> 11, put |-> 10,
                held |-> 3, release_get |-> 2, release_delete |-> 1]
StepsOfWork == [rewrite |-> 6, commit |-> 5, count |-> 4]
StepsPerPartition == 14

\* The steps r has left at most, its finish included.
StepsLeft(r) ==
    LET toCome(P) == StepsPerPartition * Cardinality(P)
    IN  CASE phase[r] \in Over -> 0
          [] phase[r] = "verify" -> toCome(Partitions) + 4
          [] phase[r] = "scan" -> toCome(Partitions) + 3
          [] phase[r] = "spark" -> toCome(todo[r]) + 2
          [] phase[r] = "loop" -> toCome(todo[r]) + 1
          [] phase[r] \in {"acquire", "release"} -> toCome(todo[r]) + 1 + StepsOfCall[pc[r]]
          [] phase[r] \in Working ->
                toCome(todo[r]) + 1 + StepsOfWork[phase[r]]
                    + IF method[r] = "delta_optimize" THEN 3 ELSE 0

\* A run never starts over, polls or tries a third time: each step of its own
\* brings it closer to its end, and nothing that others do, with the locks, the
\* table or the clock, makes its way longer.
RunAdvances ==
    [][\A r \in Runs :
          /\ StepsLeft(r)' <= StepsLeft(r)
          /\ RunStep(r) \/ Error(r) => StepsLeft(r)' < StepsLeft(r)]_vars

\* A run never waits for another one or for a lock: if its process lives, it
\* comes to an end.
RunTerminates == \A r \in Runs : <>(phase[r] \in Over)

\* A rewrite leaves a partition with fewer, larger files: no more of them than
\* it had, or than its live bytes need at the target size. The code plans with
\* the bytes of replaced and uncommitted files as well.
RewriteNeverFragments ==
    \A r \in Runs : T!Writing(r) =>
        \/ Cardinality(txn[r].out) <= Cardinality(txn[r].base)
        \/ Cardinality(txn[r].out)
              <= EstimateOutputFileCount(Cardinality(T!RowsOf(txn[r].base)))

\* And only because of those: if every file the run planned with is in the
\* snapshot it rewrites, it writes no more files than are needed, so that one
\* less at the target size would not hold the rows; also when batches arrive
\* or a first attempt of its own fails between its scan and the rewrite. (A
\* snapshot with a replaced entry may hold a row twice.)
FragmentsOnlyFromDeadFiles ==
    \A r \in Runs : T!Writing(r) =>
        \/ (Cardinality(txn[r].out) - 1) * target_file_size_bytes
              < Cardinality(T!RowsOf(txn[r].base))
        \/ \E l \in listing[r][part[r]] : \A f \in txn[r].base : l.key # <<f.txn, f.idx>>
        \/ overwritten # {}

\* Appends to other partitions than the one that is compacted are unaffected.
\* They are not: a rewrite may replace the log entry of an append.
OtherPartitionsUnaffected ==
    [][\A r \in Runs : CommitRewrite(r) =>
          \A row \in T!RowsOf(live) : row[2] # part[r] => row \in T!RowsOf(live')]_vars
=============================================================================
