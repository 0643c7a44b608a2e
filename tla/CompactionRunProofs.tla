------------------------ MODULE CompactionRunProofs ------------------------
(***************************************************************************)
(* Proofs about CompactionRun, for any number of runs, any partitions and  *)
(* any policy. Every step of the system is a step of LockManager and a     *)
(* step of DeltaTable, or leaves them alone; so what is proved of those    *)
(* two modules holds while the runs use them.                              *)
(***************************************************************************)
EXTENDS DryRun, FiniteSums, SequenceTheorems

LP == INSTANCE LockManagerProofs WITH Managers <- Runs
TP == INSTANCE DeltaTableProofs
        WITH Writers <- Runs \cup {Stream}, Times <- 0..MaxClock

(***************************************************************************)
(* What the proofs say of the locks and of the table is said of L and of T *)
(***************************************************************************)

LEMMA SameLocks ==
  /\ L!Init <=> LP!Init
  /\ [L!Next]_(L!vars) <=> [LP!Next]_(LP!vars)
  /\ L!TypeOK <=> LP!TypeOK
  /\ L!LeaseExclusion <=> LP!LeaseExclusion
<1>1. L!Init <=> LP!Init
  BY DEF L!Init, LP!Init
<1>2. L!Next <=> LP!Next
  BY DEF L!Next, LP!Next, L!Tick, LP!Tick, L!StartAcquire, LP!StartAcquire,
     L!AcquireStep, LP!AcquireStep, L!CleanupGet, LP!CleanupGet,
     L!CleanupDelete, LP!CleanupDelete, L!GetRefused, LP!GetRefused,
     L!GetFree, LP!GetFree, L!Put, LP!Put, L!StartRelease, LP!StartRelease,
     L!ReleaseStep, LP!ReleaseStep, L!ReleaseGet, LP!ReleaseGet,
     L!ReleaseDelete, LP!ReleaseDelete, L!Fault, LP!Fault,
     L!DeleteRefused, LP!DeleteRefused, L!CallFails, LP!CallFails,
     L!AnswerLost, LP!AnswerLost, L!GoTo, LP!GoTo, L!Raise, LP!Raise,
     L!Held, LP!Held, L!IsStale, LP!IsStale, L!Refuses, LP!Refuses,
     L!LockOf, LP!LockOf, L!Contenders, LP!Contenders, L!Now, LP!Now, L!Deciding, LP!Deciding
<1>3. [L!Next]_(L!vars) <=> [LP!Next]_(LP!vars)
  BY <1>2 DEF L!vars, LP!vars
<1>4. L!TypeOK <=> LP!TypeOK
  BY DEF L!TypeOK, LP!TypeOK, L!Lock, LP!Lock, L!Acquiring, LP!Acquiring,
     L!Holding, LP!Holding, L!Releasing, LP!Releasing
<1>5. L!LeaseExclusion <=> LP!LeaseExclusion
  BY DEF L!LeaseExclusion, LP!LeaseExclusion, L!InForce, LP!InForce, L!Now, LP!Now,
     L!InCriticalSection, LP!InCriticalSection
<1> QED BY <1>1, <1>2, <1>3, <1>4, <1>5

LEMMA SameTable ==
  /\ T!Init <=> TP!Init
  /\ [T!Next]_(T!tableVars) <=> [TP!Next]_(TP!tableVars)
  /\ T!TypeOK <=> TP!TypeOK
  /\ T!RowsExactlyOnce <=> TP!RowsExactlyOnce
<1>1. T!Init <=> TP!Init
  BY DEF T!Init, TP!Init
<1>2. /\ \A S : T!Cardinality(S) = TP!Cardinality(S)
      /\ \A l : T!Snapshot(l) = TP!Snapshot(l)
      /\ \A w, v : T!Checked(w, v) <=> TP!Checked(w, v)
  BY DEF T!Cardinality, TP!Cardinality, T!Snapshot, TP!Snapshot, T!Checked,
     TP!Checked, T!Found, TP!Found
<1>3. \A w : T!Commit(w) <=> TP!Commit(w)
  BY <1>2 DEF T!Commit, TP!Commit, T!AddEntry, TP!AddEntry, T!OverwriteEntry,
     TP!OverwriteEntry, T!CanCommit, TP!CanCommit, T!Writing, TP!Writing,
     T!End, TP!End
<1>4. \A w : (T!Conflict(w) <=> TP!Conflict(w)) /\ (T!Abandon(w) <=> TP!Abandon(w))
  BY <1>2 DEF T!Conflict, TP!Conflict, T!Abandon, TP!Abandon, T!CanCommit,
     TP!CanCommit, T!Writing, TP!Writing, T!End, TP!End, T!logVars, TP!logVars
<1>5. \A w, base, out : T!Begin(w, base, out) <=> TP!Begin(w, base, out)
  BY DEF T!Begin, TP!Begin, T!Writing, TP!Writing, T!Transaction,
     TP!Transaction, T!logVars, TP!logVars
<1>6. \A w, P, now : T!WriteAppend(w, P, now) <=> TP!WriteAppend(w, P, now)
  BY <1>5 DEF T!WriteAppend, TP!WriteAppend, T!AppendFile, TP!AppendFile
<1>7. \A w, p, n, now : T!WriteRewrite(w, p, n, now) <=> TP!WriteRewrite(w, p, n, now)
  BY <1>5 DEF T!WriteRewrite, TP!WriteRewrite, T!LiveIn, TP!LiveIn, T!Rewritten,
     TP!Rewritten, T!RewrittenFile, TP!RewrittenFile, T!RowsOf, TP!RowsOf
<1>8. [T!Next]_(T!tableVars) <=> [TP!Next]_(TP!tableVars)
  BY <1>3, <1>4, <1>6, <1>7 DEF T!Next, TP!Next, T!tableVars, TP!tableVars
<1>9. T!TypeOK <=> TP!TypeOK
  BY <1>2 DEF T!TypeOK, TP!TypeOK, T!File, TP!File, T!Txn, TP!Txn, T!Rows, TP!Rows
<1>10. T!RowsExactlyOnce <=> TP!RowsExactlyOnce
  BY DEF T!RowsExactlyOnce, TP!RowsExactlyOnce
<1> QED BY <1>1, <1>8, <1>9, <1>10

(***************************************************************************)
(* Every step of the system is a step of the locks or leaves them alone    *)
(***************************************************************************)

\* The loop gets its partitions from a listing.
TodoOK == todo \in [Runs -> SUBSET Partitions]

LockInv == L!TypeOK /\ TodoOK

\* The steps of a run that make no call of the lock manager.
LEMMA NoLockCall ==
  ASSUME NEW r \in Runs,
         \/ Prepare(r) \/ SparkWork(r) \/ FinishRun(r)
         \/ VerifyFails(r) \/ ScanFails(r)
  PROVE  UNCHANGED lockVars
  BY DEF Prepare, Verify, TableNotFound, Scan, TargetNotFound,
     CreateSparkSession, SparkWork, BeginRewrite, OptimizeNothing,
     CommitRewrite, CountFiles, SparkFails, RetryOrFail, FinishRun, VerifyFails,
     ScanFails

LEMMA LockCall ==
  ASSUME LockInv, NEW r \in Runs, LockWork(r) \/ LockCallRaises(r) \/ Crash(r)
  PROVE  [L!Next]_(L!vars)
<1>1. CASE NextPartition(r)
  <2>1. PICK p \in todo[r] : L!StartAcquire(r, p)
    BY <1>1 DEF NextPartition
  <2>2. p \in Partitions
    BY DEF LockInv, TodoOK
  <2> QED BY <2>1, <2>2 DEF L!Next
<1>2. CASE AcquireCall(r) \/ LockRefused(r) \/ LockAcquired(r)
  <2>1. \/ L!CleanupGet(r) \/ L!CleanupDelete(r) \/ L!GetFree(r)
        \/ L!DeleteRefused(r) \/ L!GetRefused(r) \/ L!Put(r)
    BY <1>2 DEF AcquireCall, LockRefused, LockAcquired
  <2> QED BY <2>1 DEF L!Next, L!AcquireStep, L!Fault
<1>3. CASE StartRelease(r) \/ ReleaseCall(r)
  <2>1. L!StartRelease(r) \/ L!ReleaseStep(r) \/ L!DeleteRefused(r)
    BY <1>3 DEF StartRelease, ReleaseCall
  <2> QED BY <2>1 DEF L!Next, L!Fault
<1>4. CASE LockCallRaises(r) \/ Crash(r)
  <2>1. L!CallFails(r) \/ L!AnswerLost(r) \/ UNCHANGED lockVars
    BY <1>4 DEF LockCallRaises, Crash
  <2> QED BY <2>1 DEF L!Next, L!Fault, L!vars, lockVars
<1> QED BY <1>1, <1>2, <1>3, <1>4 DEF LockWork

LEMMA LockStep == LockInv /\ [Next]_vars => [L!Next]_(L!vars)
<1> SUFFICES ASSUME LockInv, [Next]_vars PROVE [L!Next]_(L!vars)
  OBVIOUS
<1>1. ASSUME NEW r \in Runs, RunStep(r) \/ Error(r) PROVE [L!Next]_(L!vars)
  BY <1>1, NoLockCall, LockCall DEF RunStep, Error, lockVars, L!vars
<1>2. CASE StreamAppends
  BY <1>2 DEF StreamAppends, lockVars, L!vars
<1>3. CASE Tick
  BY <1>3 DEF Tick, L!Next
<1>4. CASE UNCHANGED vars
  BY <1>4 DEF vars, lockVars, L!vars
<1> QED BY <1>1, <1>2, <1>3, <1>4 DEF Next

\* What the scan puts on the list is a set of partitions.
LEMMA EligibleType ==
  ASSUME NEW r \in Runs, target[r] \in DOMAIN ScanPartitions \cup {All}
  PROVE  EligibleFor(r) \subseteq Partitions
<1>1. DOMAIN ScanPartitions \subseteq Partitions
  BY DEF ScanPartitions
<1> QED BY <1>1 DEF EligibleFor, Selected

\* Only the scan and the loop change the list.
LEMMA TodoOnly ==
  ASSUME NEW r \in Runs, RunStep(r) \/ Error(r), ~Scan(r), ~NextPartition(r)
  PROVE  UNCHANGED todo
  BY DEF RunStep, Error, Prepare, LockWork, SparkWork, Verify,
     TableNotFound, TargetNotFound, CreateSparkSession, AcquireCall,
     LockRefused, LockAcquired, StartRelease, ReleaseCall, BeginRewrite,
     OptimizeNothing, CommitRewrite, CountFiles, SparkFails, RetryOrFail,
     FinishRun, VerifyFails, ScanFails, LockCallRaises, RaiseOut, Crash, runVars

LEMMA TodoStep == TodoOK /\ [Next]_vars => TodoOK'
<1> SUFFICES ASSUME TodoOK, [Next]_vars PROVE TodoOK'
  OBVIOUS
<1>1. ASSUME NEW r \in Runs, Scan(r) PROVE TodoOK'
  BY <1>1, EligibleType DEF Scan, TodoOK
<1>2. ASSUME NEW r \in Runs, NextPartition(r) PROVE TodoOK'
  BY <1>2 DEF NextPartition, TodoOK
<1>3. ASSUME NEW r \in Runs, RunStep(r) \/ Error(r), ~Scan(r), ~NextPartition(r)
      PROVE  UNCHANGED todo
  BY <1>3, TodoOnly
<1>4. CASE StreamAppends \/ Tick \/ UNCHANGED vars
  BY <1>4 DEF StreamAppends, Tick, vars, runVars, TodoOK
<1> QED BY <1>1, <1>2, <1>3, <1>4 DEF Next, TodoOK

LEMMA LockInvInit == Init => LockInv
  BY SameLocks, LP!TypeInit, BoundsAssumption, TimeoutAssumption, AheadAssumption,
     NothingAssumption DEF Init, LockInv, TodoOK, L!Lock, LP!Lock

LEMMA LockInvStep == LockInv /\ [Next]_vars => LockInv'
<1>1. LP!TypeOK /\ [LP!Next]_(LP!vars) => LP!TypeOK'
  BY LP!TypeStep, BoundsAssumption, TimeoutAssumption, AheadAssumption, NothingAssumption
     DEF L!Lock, LP!Lock
<1>2. LP!TypeOK' => L!TypeOK'
  BY DEF L!TypeOK, LP!TypeOK, L!Lock, LP!Lock, L!Acquiring, LP!Acquiring,
     L!Holding, LP!Holding, L!Releasing, LP!Releasing
<1> QED BY <1>1, <1>2, LockStep, SameLocks, TodoStep DEF LockInv

LEMMA LockInvHolds == Spec => []LockInv
  BY LockInvInit, LockInvStep, PTL DEF Spec

\* Whatever the runs do with their locks is something that the managers of
\* LockManager may do.
THEOREM RunsUseLocks == Spec => L!Spec
<1>1. Init => L!Init
  BY DEF Init
<1> QED BY <1>1, LockStep, LockInvHolds, PTL DEF Spec, L!Spec

\* Two runs are inside one partition at once only if one has outlived its
\* lease or got its lock in a race: the exclusion that is proved of the lock
\* manager alone holds for the runs that use it.
THEOREM RunsExclude == Spec => []L!LeaseExclusion
<1>1. LP!Spec => []LP!LeaseExclusion
  BY LP!LeaseExclusionHolds, BoundsAssumption, TimeoutAssumption, AheadAssumption,
     NothingAssumption DEF L!Lock, LP!Lock
<1>2. L!Spec => LP!Spec
  BY SameLocks, PTL DEF L!Spec, LP!Spec
<1>3. LP!LeaseExclusion => L!LeaseExclusion
  BY SameLocks
<1> QED BY <1>1, <1>2, <1>3, RunsUseLocks, PTL

\* Nor does a run ever lose a lock in force to another run: neither the cleanup
\* of stale locks nor a release that comes late, after a slow rewrite or in an
\* error's wake, removes a lock that is not the run's own.
THEOREM RunsNeverStolen == Spec => L!UncontestedNeverStolen
<1>1. LP!Spec => LP!UncontestedNeverStolen
  BY LP!UncontestedNeverStolenHolds, BoundsAssumption, TimeoutAssumption, AheadAssumption,
     NothingAssumption DEF L!Lock, LP!Lock
<1>2. L!Spec => LP!Spec
  BY SameLocks, PTL DEF L!Spec, LP!Spec
<1>3. LP!UncontestedNeverStolen => L!UncontestedNeverStolen
  <2>1. [\A m \in Runs :
            (/\ pc[m] \in LP!Holding /\ LP!InForce(m) /\ m \notin contested
             /\ lock'[part[m]] # lock[part[m]])
            => pc[m] = "release_delete" /\ pc'[m] # pc[m]]_(LP!vars)
        => [\A m \in Runs :
            (/\ pc[m] \in L!Holding /\ L!InForce(m) /\ m \notin contested
             /\ lock'[part[m]] # lock[part[m]])
            => pc[m] = "release_delete" /\ pc'[m] # pc[m]]_(L!vars)
    BY DEF L!Holding, LP!Holding, L!Releasing, LP!Releasing, L!InForce, LP!InForce,
       L!Now, LP!Now, L!vars, LP!vars
  <2> QED BY <2>1, PTL DEF LP!UncontestedNeverStolen, L!UncontestedNeverStolen
<1> QED BY <1>1, <1>2, <1>3, RunsUseLocks, PTL

\* The lock of a run that was killed, or that an exception ended before its
\* release, is never renewed and refuses no other run for longer than a lease.
THEOREM DeadRunsLockWearsOff == Spec => LP!OrphanWearsOff
<1>1. LP!Spec => LP!OrphanWearsOff
  BY LP!OrphanWearsOffHolds, BoundsAssumption, TimeoutAssumption, AheadAssumption,
     NothingAssumption DEF L!Lock, LP!Lock
<1>2. L!Spec => LP!Spec
  BY SameLocks, PTL DEF L!Spec, LP!Spec
<1> QED BY <1>1, <1>2, RunsUseLocks, PTL

(***************************************************************************)
(* Every step of the system is a step of the table or leaves it alone      *)
(***************************************************************************)

\* The steps of a run in which Spark does not touch the table.
LEMMA NoTableCall ==
  ASSUME NEW r \in Runs,
         \/ Prepare(r) \/ LockWork(r) \/ OptimizeNothing(r) \/ CountFiles(r)
         \/ FinishRun(r) \/ VerifyFails(r) \/ ScanFails(r) \/ LockCallRaises(r)
  PROVE  UNCHANGED tableVars
  BY DEF Prepare, Verify, TableNotFound, Scan, TargetNotFound,
     CreateSparkSession, LockWork, NextPartition, AcquireCall, LockRefused,
     LockAcquired, StartRelease, ReleaseCall, OptimizeNothing, CountFiles,
     FinishRun, VerifyFails, ScanFails, LockCallRaises

LEMMA TableCall ==
  ASSUME LockInv, NEW r \in Runs,
         BeginRewrite(r) \/ CommitRewrite(r) \/ SparkFails(r) \/ Crash(r)
  PROVE  [T!Next]_(T!tableVars)
<1>1. CASE BeginRewrite(r)
  <2>1. /\ T!WriteRewrite(r, part[r], OutputFiles(r), clock)
        /\ OutputFiles(r) \in 1..MaxFiles
    BY <1>1 DEF BeginRewrite
  <2>2. part[r] \in Partitions /\ clock \in 0..MaxClock
    BY DEF LockInv, L!TypeOK
  <2> QED BY <2>1, <2>2 DEF T!Next
<1>2. CASE CommitRewrite(r)
  BY <1>2 DEF CommitRewrite, T!Next
<1>3. CASE SparkFails(r) \/ Crash(r)
  <2>1. T!Conflict(r) \/ T!Abandon(r) \/ UNCHANGED tableVars
    BY <1>3 DEF SparkFails, Crash
  <2> QED BY <2>1 DEF T!Next, T!tableVars, tableVars
<1> QED BY <1>1, <1>2, <1>3

LEMMA TableStep == LockInv /\ [Next]_vars => [T!Next]_(T!tableVars)
<1> SUFFICES ASSUME LockInv, [Next]_vars PROVE [T!Next]_(T!tableVars)
  OBVIOUS
<1>1. ASSUME NEW r \in Runs, RunStep(r) \/ Error(r) PROVE [T!Next]_(T!tableVars)
  BY <1>1, NoTableCall, TableCall DEF RunStep, SparkWork, Error, tableVars,
     T!tableVars
<1>2. CASE StreamAppends
  <2>1. clock \in 0..MaxClock
    BY DEF LockInv, L!TypeOK
  <2> QED BY <1>2, <2>1 DEF StreamAppends, T!Next
<1>3. CASE Tick \/ UNCHANGED vars
  BY <1>3 DEF Tick, vars, tableVars, T!tableVars
<1> QED BY <1>1, <1>2, <1>3 DEF Next

\* Whatever the runs and the stream do to the table is something that the
\* writers of DeltaTable may do.
THEOREM RunsUseTable == Spec => T!Spec
<1>1. Init => T!Init
  BY DEF Init
<1> QED BY <1>1, TableStep, LockInvHolds, PTL DEF Spec, T!Spec

LEMMA TableSpecs == Spec => TP!Spec
  BY RunsUseTable, SameTable, PTL DEF T!Spec, TP!Spec

LEMMA TableAssumptions ==
  /\ {MaxTxns, MaxFiles, MaxOverwrites} \subseteq Nat /\ 0..MaxClock \subseteq Nat
  /\ NoTxn \notin TP!Txn
  BY BoundsAssumption, NothingAssumption DEF T!Txn, TP!Txn, T!File, TP!File,
     T!Rows, TP!Rows

\* No number of runs, rewriting one partition at the same time, twice, late or
\* in vain, makes a reader of the table see a row twice or in a wrong partition.
THEOREM RowsExactlyOnceHolds == Spec => []RowsExactlyOnce
<1>1. TP!Spec => []TP!RowsExactlyOnce
  BY TP!RowsExactlyOnceHolds, TableAssumptions DEF TP!Txn, TP!File, TP!Rows
<1>2. TP!RowsExactlyOnce => RowsExactlyOnce
  BY SameTable DEF RowsExactlyOnce
<1> QED BY <1>1, <1>2, TableSpecs, PTL

\* However many runs there are and whatever becomes of them, readers see whole
\* batches arrive, and lose none but those whose own log entries were replaced.
THEOREM ReadersLoseOnlyOverwrittenHolds == Spec => ReadersLoseOnlyOverwritten
<1>1. TP!Spec => TP!ImplementsEventTable
  BY TP!TableImplementsEventTable, TableAssumptions DEF TP!Txn, TP!File, TP!Rows
<1>2. TP!Events!Init => T!Events!Init
  BY DEF TP!Events!Init, T!Events!Init, T!RowsOf, TP!RowsOf, T!Lost, TP!Lost
<1>3. [TP!Events!Next]_(TP!Events!eventVars) => [T!Events!Next]_(T!Events!eventVars)
  BY DEF TP!Events!Next, T!Events!Next, TP!Events!Append, T!Events!Append,
     TP!Events!Replace, T!Events!Replace, TP!Events!New, T!Events!New,
     TP!Events!eventVars, T!Events!eventVars,
     T!RowsOf, TP!RowsOf, T!Lost, TP!Lost
<1>4. TP!Events!Spec => T!Events!Spec
  BY <1>2, <1>3, PTL DEF TP!Events!Spec, T!Events!Spec
<1> QED BY <1>1, <1>4, TableSpecs, PTL
        DEF ReadersLoseOnlyOverwritten, T!ImplementsEventTable, TP!ImplementsEventTable

(***************************************************************************)
(* A run rewrites a partition only between its acquire and its release     *)
(***************************************************************************)

PhaseOK == phase \in [Runs -> Phases]

\* The run works under its lock, and what it is about to replace are files of
\* the partition the lock is for.
WorksUnderLock ==
    \A r \in Runs :
        /\ phase[r] \in Working => pc[r] = "held"
        /\ T!Writing(r) => /\ phase[r] = "commit"
                           /\ \A f \in txn[r].base : f.part = part[r]

RunInv == LockInv /\ T!TypeOK /\ PhaseOK /\ WorksUnderLock


\* A call of one run's lock manager leaves those of the other runs alone.
LEMMA CallOfOne ==
  ASSUME LockInv, NEW q \in Runs, NEW r \in Runs \ {q},
         \/ LockWork(q) \/ LockCallRaises(q) \/ Crash(q)
  PROVE  pc'[r] = pc[r] /\ part'[r] = part[r]
<1> USE DEF LockInv, L!TypeOK, L!GoTo, L!Raise
<1>1. CASE NextPartition(q)
  BY <1>1 DEF NextPartition, L!StartAcquire
<1>2. CASE AcquireCall(q) \/ LockRefused(q) \/ LockAcquired(q)
  BY <1>2 DEF AcquireCall, LockRefused, LockAcquired, L!CleanupGet,
     L!CleanupDelete, L!GetFree, L!DeleteRefused, L!GetRefused, L!Put
<1>3. CASE StartRelease(q) \/ ReleaseCall(q)
  BY <1>3 DEF StartRelease, ReleaseCall, L!StartRelease, L!ReleaseStep,
     L!ReleaseGet, L!ReleaseDelete, L!DeleteRefused
<1>4. CASE LockCallRaises(q) \/ Crash(q)
  BY <1>4 DEF LockCallRaises, Crash, L!CallFails, L!AnswerLost, lockVars
<1> QED BY <1>1, <1>2, <1>3, <1>4 DEF LockWork

\* A transaction step of one run leaves those of the other writers alone.
LEMMA TxnOfOne ==
  ASSUME T!TypeOK, NEW q \in Runs, NEW r \in Runs \ {q},
         BeginRewrite(q) \/ CommitRewrite(q) \/ SparkFails(q) \/ Crash(q)
  PROVE  txn'[r] = txn[r]
  BY DEF T!TypeOK, BeginRewrite, CommitRewrite, SparkFails, Crash,
     T!WriteRewrite, T!Begin, T!Commit, T!AddEntry, T!OverwriteEntry,
     T!Conflict, T!Abandon, T!End, tableVars, T!logVars

LEMMA PhaseOfOne ==
  ASSUME PhaseOK, NEW q \in Runs, RunStep(q) \/ Error(q)
  PROVE  PhaseOK' /\ \A r \in Runs \ {q} : phase'[r] = phase[r]
<1> USE DEF PhaseOK, GoTo, Phases, Working, Over, Finalize
<1>1. CASE Prepare(q) \/ FinishRun(q)
  BY <1>1 DEF Prepare, Verify, TableNotFound, Scan, TargetNotFound,
     CreateSparkSession, FinishRun
<1>2. CASE LockWork(q)
  BY <1>2 DEF LockWork, NextPartition, AcquireCall, LockRefused, LockAcquired,
     StartRelease, ReleaseCall, runVars
<1>3. CASE SparkWork(q)
  BY <1>3 DEF SparkWork, BeginRewrite, OptimizeNothing, CommitRewrite,
     CountFiles, SparkFails, RetryOrFail
<1>4. CASE Error(q)
  BY <1>4 DEF Error, VerifyFails, ScanFails, LockCallRaises, RaiseOut, Crash
<1> QED BY <1>1, <1>2, <1>3, <1>4 DEF RunStep

\* What WorksUnderLock says of one run.
UnderLock(r) ==
    /\ phase[r] \in Working => pc[r] = "held"
    /\ T!Writing(r) => /\ phase[r] = "commit"
                       /\ \A f \in txn[r].base : f.part = part[r]

LEMMA OtherUnderLock ==
  ASSUME RunInv, NEW q \in Runs, RunStep(q) \/ Error(q), NEW r \in Runs \ {q}
  PROVE  UnderLock(r)'
<1>1. phase'[r] = phase[r]
  BY PhaseOfOne DEF RunInv
<1>2. pc'[r] = pc[r] /\ part'[r] = part[r]
  BY CallOfOne, NoLockCall DEF RunInv, RunStep, Error, lockVars
<1>3. txn'[r] = txn[r]
  BY TxnOfOne, NoTableCall DEF RunInv, RunStep, SparkWork, Error, tableVars
<1>4. UnderLock(r)
  BY DEF RunInv, WorksUnderLock, UnderLock
<1> QED BY <1>1, <1>2, <1>3, <1>4 DEF UnderLock, T!Writing

\* The steps of a run that end outside the rewrite of a partition.
LEMMA OwnOutside ==
  ASSUME RunInv, NEW q \in Runs,
         \/ Prepare(q) \/ FinishRun(q) \/ VerifyFails(q) \/ ScanFails(q)
         \/ LockWork(q) /\ ~LockAcquired(q)
         \/ CountFiles(q) \/ LockCallRaises(q)
  PROVE  UnderLock(q)'
<1> USE DEF PhaseOK, GoTo, Phases, Working, Over, Finalize, RaiseOut
<1>1. UNCHANGED tableVars
  BY NoTableCall
<1>2. phase[q] # "commit"
  BY DEF Prepare, Verify, TableNotFound, Scan, TargetNotFound,
     CreateSparkSession, FinishRun, VerifyFails, ScanFails, LockWork,
     NextPartition, AcquireCall, LockRefused, StartRelease, ReleaseCall,
     CountFiles, LockCallRaises
<1>3. ~T!Writing(q)
  BY <1>2 DEF RunInv, WorksUnderLock
<1>4. phase'[q] \notin Working
  <2> USE DEF RunInv
  <2>1. CASE Prepare(q) \/ FinishRun(q) \/ VerifyFails(q) \/ ScanFails(q)
    BY <2>1 DEF Prepare, Verify, TableNotFound, Scan, TargetNotFound,
       CreateSparkSession, FinishRun, VerifyFails, ScanFails
  <2>2. CASE LockWork(q) /\ ~LockAcquired(q)
    BY <2>2 DEF LockWork, NextPartition, AcquireCall, LockRefused,
       StartRelease, ReleaseCall, runVars
  <2>3. CASE CountFiles(q) \/ LockCallRaises(q)
    BY <2>3 DEF CountFiles, LockCallRaises
  <2> QED BY <2>1, <2>2, <2>3
<1> QED BY <1>1, <1>3, <1>4 DEF UnderLock, T!Writing, tableVars

LEMMA OwnInside ==
  ASSUME RunInv, NEW q \in Runs,
         \/ LockAcquired(q) \/ BeginRewrite(q) \/ OptimizeNothing(q)
         \/ CommitRewrite(q) \/ SparkFails(q) \/ Crash(q)
  PROVE  UnderLock(q)'
<1> USE DEF PhaseOK, GoTo, Phases, Working, Over, RunInv
<1>1. CASE LockAcquired(q)
  <2>1. ~T!Writing(q) /\ UNCHANGED tableVars
    BY <1>1 DEF WorksUnderLock, LockAcquired
  <2>2. pc'[q] = "held"
    BY <1>1 DEF LockAcquired, L!Put, L!GoTo, LockInv, L!TypeOK
  <2> QED BY <2>1, <2>2 DEF UnderLock, T!Writing, tableVars
<1>2. CASE BeginRewrite(q)
  <2>1. /\ phase'[q] = "commit" /\ pc' = pc /\ part' = part /\ pc[q] = "held"
    BY <1>2 DEF BeginRewrite, WorksUnderLock, lockVars
  <2>2. txn'[q].base = T!LiveIn(part[q])
    BY <1>2 DEF BeginRewrite, T!WriteRewrite, T!Begin, T!Transaction, T!TypeOK
  <2> QED BY <2>1, <2>2 DEF UnderLock, T!LiveIn
<1>3. CASE OptimizeNothing(q)
  <2>1. ~T!Writing(q) /\ pc[q] = "held"
    BY <1>3 DEF OptimizeNothing, WorksUnderLock
  <2> QED BY <1>3, <2>1 DEF OptimizeNothing, UnderLock, T!Writing, tableVars,
          lockVars
<1>4. CASE CommitRewrite(q)
  <2>1. ~T!Writing(q)'
    BY <1>4 DEF CommitRewrite, T!Commit, T!AddEntry, T!OverwriteEntry, T!End,
       T!Writing, T!TypeOK
  <2> QED BY <1>4, <2>1 DEF CommitRewrite, UnderLock, WorksUnderLock, lockVars
<1>5. CASE SparkFails(q)
  <2>1. ~T!Writing(q)'
    BY <1>5 DEF SparkFails, T!Conflict, T!Abandon, T!End, T!Writing, T!TypeOK,
       tableVars, T!logVars
  <2>2. pc[q] = "held" /\ pc' = pc
    BY <1>5 DEF SparkFails, RetryOrFail, WorksUnderLock, lockVars
  <2> QED BY <2>1, <2>2 DEF UnderLock
<1>6. CASE Crash(q)
  <2>1. ~T!Writing(q)'
    BY <1>6 DEF Crash, T!Abandon, T!End, T!Writing, T!TypeOK, tableVars,
       T!logVars
  <2> QED BY <1>6, <2>1 DEF UnderLock, Crash
<1> QED BY <1>1, <1>2, <1>3, <1>4, <1>5, <1>6

LEMMA StreamAndTime ==
  ASSUME RunInv, StreamAppends \/ Tick \/ UNCHANGED vars, NEW r \in Runs
  PROVE  PhaseOK' /\ UnderLock(r)'
<1>1. UNCHANGED <<phase, pc, part>>
  BY DEF StreamAppends, Tick, L!Tick, vars, lockVars, runVars
<1>2. txn'[r] = txn[r]
  BY RunsAssumption DEF RunInv, T!TypeOK, StreamAppends, Tick, vars,
     tableVars, T!WriteAppend, T!Begin, T!Commit, T!AddEntry,
     T!OverwriteEntry, T!Abandon, T!End, T!logVars
<1>3. UnderLock(r)
  BY DEF RunInv, WorksUnderLock, UnderLock
<1> QED BY <1>1, <1>2, <1>3 DEF RunInv, PhaseOK, UnderLock, T!Writing

LEMMA RunInvStep == RunInv /\ [Next]_vars => PhaseOK' /\ WorksUnderLock'
<1> SUFFICES ASSUME RunInv, [Next]_vars PROVE PhaseOK' /\ WorksUnderLock'
  OBVIOUS
<1>1. ASSUME NEW q \in Runs, RunStep(q) \/ Error(q)
      PROVE  PhaseOK' /\ \A r \in Runs : UnderLock(r)'
  <2>1. PhaseOK'
    BY <1>1, PhaseOfOne DEF RunInv
  <2>2. UnderLock(q)'
    BY <1>1, OwnOutside, OwnInside DEF RunStep, SparkWork, Error
  <2> QED BY <1>1, <2>1, <2>2, OtherUnderLock
<1>2. CASE StreamAppends \/ Tick \/ UNCHANGED vars
  <2>1. PhaseOK'
    BY <1>2 DEF RunInv, PhaseOK, StreamAppends, Tick, vars, runVars
  <2> QED BY <1>2, <2>1, StreamAndTime DEF WorksUnderLock, UnderLock
<1> QED BY <1>1, <1>2 DEF Next, WorksUnderLock, UnderLock

LEMMA TableTypeHolds == Spec => []T!TypeOK
<1>1. TP!Spec => []TP!TypeOK
  BY TP!TypeCorrect, TableAssumptions DEF TP!Txn, TP!File, TP!Rows
<1>2. TP!TypeOK => T!TypeOK
  BY SameTable
<1> QED BY <1>1, <1>2, TableSpecs, PTL

LEMMA RunInvHolds == Spec => []RunInv
<1>1. Init => PhaseOK /\ WorksUnderLock
  BY DEF Init, T!Init, PhaseOK, Phases, WorksUnderLock, Working, T!Writing
<1>2. /\ LockInv /\ T!TypeOK /\ PhaseOK /\ WorksUnderLock /\ [Next]_vars
      => PhaseOK' /\ WorksUnderLock'
  BY RunInvStep DEF RunInv
<1> QED BY <1>1, <1>2, LockInvHolds, TableTypeHolds, PTL DEF Spec, RunInv

\* Only a commit to the same partition can spoil what a run is about to commit.
LEMMA OnlySamePartitionDooms ==
  ASSUME RunInv, [Next]_vars, NEW r \in Runs, NEW s \in Runs, r # s,
         T!CanCommit(r), ~T!CanCommit(r)', T!Writing(r)',
         T!Writing(s), ~T!Writing(s)'
  PROVE  part[r] = part[s]
<1>1. PICK q \in Runs :
        BeginRewrite(q) \/ CommitRewrite(q) \/ SparkFails(q) \/ Crash(q)
  <2>1. txn'[s] # txn[s]
    BY DEF T!Writing
  <2>2. ~(StreamAppends \/ Tick \/ UNCHANGED vars)
    BY <2>1, RunsAssumption DEF RunInv, T!TypeOK, StreamAppends, Tick, vars,
       tableVars, T!WriteAppend, T!Begin, T!Commit, T!AddEntry, T!OverwriteEntry,
       T!Abandon, T!End
  <2> QED BY <2>1, <2>2, NoTableCall DEF Next, RunStep, SparkWork, Error, tableVars
<1>2. q = s
  BY <1>1, TxnOfOne DEF RunInv, T!Writing
<1>3. txn'[r] = txn[r] /\ T!Writing(r) /\ txn[r] \in T!Txn
  BY <1>1, <1>2, TxnOfOne DEF RunInv, T!CanCommit, T!TypeOK, T!Writing
<1>4. /\ txn[r].read \in Nat /\ log \in Seq(T!Txn) /\ Len(log) \in Nat
      /\ DOMAIN log = 1..Len(log) /\ txn[s] \in T!Txn
  BY <1>3, LenProperties DEF RunInv, T!TypeOK, T!Txn, T!Writing
<1>5. \A j \in (txn[r].read + 1)..Len(log) :
         \E e \in T!Found(j) : e.base \cap txn[r].base = {}
  BY <1>4 DEF T!CanCommit, T!Checked
<1>6. PICK j \in (txn[r].read + 1)..Len(log') :
         \A e \in T!Found(j)' : e.base \cap txn[r].base # {}
  BY <1>3 DEF T!CanCommit, T!Checked
<1>7. ~UNCHANGED <<log, overwritten>>
  BY <1>5, <1>6 DEF T!Found
<1>8. T!Commit(s)
  BY <1>1, <1>2, <1>7 DEF BeginRewrite, CommitRewrite, SparkFails, Crash,
     T!WriteRewrite, T!Begin, T!Conflict, T!Abandon, T!logVars, tableVars
<1>9. CASE T!AddEntry(s)
  <2>1. /\ log' = Append(log, txn[s]) /\ overwritten' = overwritten
        /\ Len(log') = Len(log) + 1 /\ log'[Len(log) + 1] = txn[s]
        /\ \A i \in DOMAIN log : log'[i] = log[i]
    BY <1>4, <1>9, AppendProperties DEF T!AddEntry
  <2>2. j = Len(log) + 1
    BY <1>4, <1>5, <1>6, <2>1 DEF T!Found
  <2>3. txn[s] \in T!Found(j)'
    BY <2>1, <2>2 DEF T!Found
  <2>4. PICK f \in txn[r].base : f \in txn[s].base
    BY <1>6, <2>3
  <2> QED BY <1>3, <1>8, <2>4 DEF RunInv, WorksUnderLock
<1>10. CASE T!OverwriteEntry(s)
  <2>1. PICK v \in (txn[s].read + 1)..Len(log) :
           /\ log' = [log EXCEPT ![v] = txn[s]]
           /\ overwritten' = overwritten \cup {[version |-> v, entry |-> log[v]]}
    BY <1>10 DEF T!OverwriteEntry
  <2> DEFINE o == [version |-> v, entry |-> log[v]]
  <2>2. o.version = v /\ o.entry = log[v] /\ overwritten' = overwritten \cup {o}
    BY <2>1
  <2> HIDE DEF o
  <2>3. txn[s].read \in Nat
    BY <1>4 DEF T!Txn
  <2>4. v \in 1..Len(log)
    BY <1>4, <2>3
  <2>5. Len(log') = Len(log) /\ \A i \in 1..Len(log) : i # v => log'[i] = log[i]
    BY <1>4, <2>1, <2>4, ExceptSeq
  <2>6. j \in 1..Len(log)
    BY <1>4, <2>5
  <2>7. T!Found(j) \subseteq T!Found(j)'
    BY <2>2, <2>5, <2>6 DEF T!Found
  <2> QED BY <1>4, <1>5, <1>6, <2>5, <2>7
<1> QED BY <1>8, <1>9, <1>10 DEF T!Commit

\* A run's work is wasted only if it or the other run had lost its lease or had
\* got its lock in a race: this is what the locks are worth to the compactor,
\* for any number of runs and partitions.
THEOREM DoomedOnlyWithoutLeaseHolds == Spec => DoomedOnlyWithoutLease
<1> DEFINE Excused ==
      \A r, s \in Runs :
          (/\ T!CanCommit(r) /\ ~T!CanCommit(r)' /\ T!Writing(r)'
           /\ r # s /\ T!Writing(s) /\ ~T!Writing(s)')
          => \E q \in {r, s} : ~L!InForce(q) \/ q \in contested
<1>1. RunInv /\ L!LeaseExclusion /\ [Next]_vars => [Excused]_vars
  <2> SUFFICES ASSUME RunInv, L!LeaseExclusion, [Next]_vars,
                      NEW r \in Runs, NEW s \in Runs, r # s,
                      T!CanCommit(r), ~T!CanCommit(r)', T!Writing(r)',
                      T!Writing(s), ~T!Writing(s)'
               PROVE  \E q \in {r, s} : ~L!InForce(q) \/ q \in contested
    OBVIOUS
  <2>1. pc[r] = "held" /\ pc[s] = "held"
    BY DEF RunInv, WorksUnderLock, Working, T!CanCommit
  <2>2. part[r] = part[s]
    BY OnlySamePartitionDooms
  <2> QED BY <2>1, <2>2 DEF L!LeaseExclusion, L!InCriticalSection
<1> QED BY <1>1, RunInvHolds, RunsExclude, PTL DEF Spec, DoomedOnlyWithoutLease

(***************************************************************************)
(* The metrics file                                                        *)
(***************************************************************************)

\* A run writes its line when it ends, and it rewrites nothing before its loop.
LoggedSoFar ==
    /\ summaries \in [Runs -> Nat]
    /\ rewritten \in [Runs -> SUBSET Partitions]
    /\ \A r \in Runs :
          /\ phase[r] \notin Over => summaries[r] = 0
          /\ phase[r] = "verify" => rewritten[r] = {}
          /\ phase[r] \in {"done", "raised"} =>
                /\ summaries[r] <= 1
                /\ rewritten[r] # {} => summaries[r] = 1

LEMMA LoggedStep ==
  RunInv /\ LoggedSoFar /\ [Next]_vars => LoggedSoFar'
<1> SUFFICES ASSUME RunInv, LoggedSoFar, [Next]_vars PROVE LoggedSoFar'
  OBVIOUS
<1> USE DEF RunInv, PhaseOK, LoggedSoFar, GoTo, Over, Finalize, WriteRunSummary
<1>1. ASSUME NEW q \in Runs, Prepare(q) PROVE LoggedSoFar'
  BY <1>1 DEF Prepare, Verify, TableNotFound, Scan, TargetNotFound,
     CreateSparkSession
<1>2. ASSUME NEW q \in Runs, LockWork(q) PROVE LoggedSoFar'
  BY <1>2 DEF LockWork, NextPartition, AcquireCall, LockRefused, LockAcquired,
     StartRelease, ReleaseCall, runVars
<1>3. ASSUME NEW q \in Runs, CommitRewrite(q) PROVE LoggedSoFar'
  <2>1. part[q] \in Partitions
    BY DEF LockInv, L!TypeOK
  <2> QED BY <1>3, <2>1 DEF CommitRewrite
<1>4. ASSUME NEW q \in Runs,
             BeginRewrite(q) \/ OptimizeNothing(q) \/ CountFiles(q) \/ SparkFails(q)
      PROVE  LoggedSoFar'
  BY <1>4 DEF BeginRewrite, OptimizeNothing, CountFiles, SparkFails, Working,
     RetryOrFail
<1>5. ASSUME NEW q \in Runs, FinishRun(q) PROVE LoggedSoFar'
  BY <1>5 DEF FinishRun
<1>6. ASSUME NEW q \in Runs, Error(q) PROVE LoggedSoFar'
  BY <1>6 DEF Error, VerifyFails, ScanFails, LockCallRaises, RaiseOut, Crash
<1>7. CASE StreamAppends \/ Tick \/ UNCHANGED vars
  BY <1>7 DEF StreamAppends, Tick, vars, runVars
<1> QED BY <1>1, <1>2, <1>3, <1>4, <1>5, <1>6, <1>7 DEF Next, RunStep, SparkWork

\* A run that changed the table and was not killed has left exactly one line in
\* the metrics file, whichever of its calls failed and whoever else was running.
THEOREM WorkIsLoggedOnceHolds == Spec => []WorkIsLoggedOnce
<1>1. Init => LoggedSoFar
  BY DEF Init, LoggedSoFar, Over
<1>2. LoggedSoFar => WorkIsLoggedOnce
  BY DEF LoggedSoFar, WorkIsLoggedOnce
<1> QED BY <1>1, <1>2, LoggedStep, RunInvHolds, PTL DEF Spec

(***************************************************************************)
(* The age guard                                                           *)
(***************************************************************************)

\* Every file that r's scan found in partition p is in the bucket and older
\* than the guard.
OldEnough(r, p) ==
    \A g \in listing[r][p] : \E h \in objects :
        /\ h.part = p
        /\ g.key = <<h.txn, h.idx>>
        /\ h.at <= L!Now(r) - partition_age_skip

\* The partition r has a lock for, or is getting one for.
Busy == {"acquire"} \cup Working

\* r has p still to do, or is doing it.
Due(r, p) ==
    \/ p \in todo[r]
    \/ phase[r] \in Busy /\ p = part[r]

AgeGuard ==
    /\ DOMAIN listing = Runs
    /\ \A r \in Runs :
          /\ target[r] = All =>
                \A p \in Partitions : Due(r, p) => OldEnough(r, p)
          /\ T!Writing(r) => txn[r].base \subseteq objects

\* Nothing leaves the bucket, time passes, and a run keeps its argument.
LEMMA OnlyForward ==
  ASSUME RunInv, [Next]_vars
  PROVE  /\ objects \subseteq objects'
         /\ clock \in Nat /\ clock' \in Nat /\ clock <= clock'
         /\ target' = target
<1>1. objects \subseteq objects'
  BY TableStep DEF RunInv, T!Next, T!WriteAppend, T!WriteRewrite, T!Begin,
     T!Commit, T!AddEntry, T!OverwriteEntry, T!Conflict, T!Abandon, T!End,
     T!tableVars, T!logVars
<1>2. clock \in Nat /\ clock' \in Nat /\ clock <= clock'
  BY LockStep, BoundsAssumption DEF RunInv, LockInv, L!TypeOK, L!Next, L!vars,
     L!Tick, L!StartAcquire, L!AcquireStep, L!StartRelease, L!ReleaseStep,
     L!Fault, L!CleanupGet, L!CleanupDelete, L!GetRefused, L!GetFree, L!Put,
     L!ReleaseGet, L!ReleaseDelete, L!DeleteRefused, L!CallFails, L!AnswerLost
<1>3. target' = target
  BY DEF Next, RunStep, Error, Prepare, Verify, TableNotFound, Scan,
     TargetNotFound, CreateSparkSession, LockWork, NextPartition, AcquireCall,
     LockRefused, LockAcquired, StartRelease, ReleaseCall, SparkWork,
     BeginRewrite, OptimizeNothing, CommitRewrite, CountFiles, SparkFails,
     RetryOrFail, FinishRun, VerifyFails, ScanFails, LockCallRaises, RaiseOut,
     Crash, StreamAppends, Tick, vars, runVars
<1> QED BY <1>1, <1>2, <1>3

LEMMA StaysOld ==
  ASSUME RunInv, [Next]_vars, NEW r \in Runs, NEW p,
         listing'[r] = listing[r], OldEnough(r, p)
  PROVE  OldEnough(r, p)'
<1>1. partition_age_skip \in Nat /\ \A h \in objects : h.at \in Nat
  BY PolicyAssumption DEF RunInv, T!TypeOK, T!File
<1>2. L!Now(r) \in Int /\ L!Now(r)' \in Int /\ L!Now(r) <= L!Now(r)'
  BY OnlyForward, AheadAssumption DEF L!Now
<1> QED BY <1>1, <1>2, OnlyForward DEF OldEnough

\* The scan selects a partition only if all it found there is old enough.
LEMMA ScanFindsOld ==
  ASSUME RunInv, AgeGuard, NEW r \in Runs, Scan(r), target[r] = All,
         NEW p \in todo'[r]
  PROVE  OldEnough(r, p)'
<1>1. /\ listing'[r] = ScanPartitions /\ todo'[r] = EligibleFor(r)
      /\ UNCHANGED <<objects, clock>>
  BY DEF Scan, AgeGuard, RunInv, LockInv, TodoOK, lockVars, tableVars
<1>2. p \in DOMAIN ScanPartitions /\ SkipReason(ScanPartitions[p], L!Now(r)) = "none"
  BY <1>1 DEF EligibleFor, Selected
<1>3. ~TooRecent(ScanPartitions[p], L!Now(r))
  <2> DEFINE files == ScanPartitions[p]
  <2>1. files # {}
    BY <1>2 DEF SkipReason
  <2> HIDE DEF files
  <2> QED BY <1>2, <2>1 DEF SkipReason, files
<1>4. ScanPartitions[p] = Listed(p)
  BY <1>2 DEF ScanPartitions
<1>5. ASSUME NEW f \in T!StoredIn(p) PROVE f.at <= L!Now(r) - partition_age_skip
  <2>1. f.at \in Nat /\ L!Now(r) \in Int /\ partition_age_skip \in Nat
    BY PolicyAssumption, BoundsAssumption, AheadAssumption DEF L!Now, RunInv, LockInv, L!TypeOK,
       T!TypeOK, T!File, T!StoredIn
  <2>2. ~(f.at > L!Now(r) - partition_age_skip)
    <3> DEFINE g == [key |-> <<f.txn, f.idx>>, size_bytes |-> Cardinality(f.rows),
                     last_modified |-> f.at]
    <3>1. g \in Listed(p) /\ g.last_modified = f.at
      BY DEF Listed
    <3> HIDE DEF g
    <3> QED BY <1>3, <1>4, <3>1 DEF TooRecent
  <2> QED BY <2>1, <2>2
<1> QED BY <1>1, <1>4, <1>5 DEF OldEnough, Listed, T!StoredIn, L!Now

\* Where a run's partition comes from.
LEMMA PartOfRun ==
  ASSUME RunInv, NEW q \in Runs, RunStep(q) \/ Error(q), ~Scan(q)
  PROVE  listing' = listing /\ \A p \in Partitions : Due(q, p)' => Due(q, p)
<1>1. /\ listing' = listing /\ todo'[q] \subseteq todo[q]
      /\ phase'[q] \in Busy =>
            \/ phase[q] \in Busy /\ part'[q] = part[q]
            \/ part'[q] \in todo[q]
  <2> USE DEF RunInv, PhaseOK, GoTo, Busy, Working, Over, Finalize
  <2>1. CASE Prepare(q) \/ FinishRun(q)
    BY <2>1 DEF Prepare, Verify, TableNotFound, TargetNotFound,
       CreateSparkSession, FinishRun
  <2>2. CASE NextPartition(q)
    BY <2>2 DEF NextPartition, L!StartAcquire, LockInv, L!TypeOK, TodoOK
  <2>3. CASE AcquireCall(q) \/ LockRefused(q) \/ LockAcquired(q)
    BY <2>3 DEF AcquireCall, LockRefused, LockAcquired, L!CleanupGet,
       L!CleanupDelete, L!GetFree, L!DeleteRefused, L!GetRefused, L!Put, runVars
  <2>4. CASE StartRelease(q) \/ ReleaseCall(q)
    BY <2>4 DEF StartRelease, ReleaseCall, runVars
  <2>5. CASE SparkWork(q)
    BY <2>5 DEF SparkWork, BeginRewrite, OptimizeNothing, CommitRewrite,
       CountFiles, SparkFails, RetryOrFail, lockVars
  <2>6. CASE Error(q)
    BY <2>6 DEF Error, VerifyFails, ScanFails, LockCallRaises, RaiseOut, Crash
  <2> QED BY <2>1, <2>2, <2>3, <2>4, <2>5, <2>6 DEF RunStep, LockWork
<1> QED BY <1>1 DEF Due

LEMMA AgeGuardStep == RunInv /\ AgeGuard /\ [Next]_vars => AgeGuard'
<1> SUFFICES ASSUME RunInv, AgeGuard, [Next]_vars PROVE AgeGuard'
  OBVIOUS
<1>1. /\ objects \subseteq objects' /\ target' = target
      /\ \A r \in Runs, p \in Partitions :
            listing'[r] = listing[r] /\ OldEnough(r, p) => OldEnough(r, p)'
  BY OnlyForward, StaysOld
<1>2. ASSUME NEW r \in Runs, T!Writing(r)' PROVE txn'[r].base \subseteq objects'
  <2>1. CASE T!Writing(r) /\ txn'[r] = txn[r]
    BY <1>1, <2>1 DEF AgeGuard
  <2>2. CASE ~(T!Writing(r) /\ txn'[r] = txn[r])
    <3>1. txn'[r] # txn[r]
      BY <1>2, <2>2 DEF T!Writing
    <3>2. PICK q \in Runs :
            BeginRewrite(q) \/ CommitRewrite(q) \/ SparkFails(q) \/ Crash(q)
      <4>1. ~(StreamAppends \/ Tick \/ UNCHANGED vars)
        BY <3>1, RunsAssumption DEF RunInv, T!TypeOK, StreamAppends, Tick,
           vars, tableVars, T!WriteAppend, T!Begin, T!Commit, T!AddEntry,
           T!OverwriteEntry, T!Abandon, T!End, T!logVars
      <4> QED BY <3>1, <4>1, NoTableCall DEF Next, RunStep, SparkWork, Error,
              tableVars
    <3>3. q = r
      BY <3>1, <3>2, TxnOfOne DEF RunInv
    <3>4. BeginRewrite(r)
      BY <1>2, <3>1, <3>2, <3>3 DEF CommitRewrite, SparkFails, Crash,
         T!Commit, T!AddEntry, T!OverwriteEntry, T!Conflict, T!Abandon, T!End,
         T!Writing, tableVars, RunInv, T!TypeOK, T!logVars
    <3>5. txn'[r].base = T!LiveIn(part[r])
      BY <3>4 DEF BeginRewrite, T!WriteRewrite, T!Begin, T!Transaction, RunInv,
         T!TypeOK
    <3> QED BY <1>1, <3>5 DEF T!LiveIn, RunInv, T!TypeOK
  <2> QED BY <2>1, <2>2
<1>3. ASSUME NEW q \in Runs, Scan(q)
      PROVE  /\ DOMAIN listing' = Runs
             /\ \A r \in Runs, p \in Partitions :
                   target[r] = All /\ Due(r, p)' => OldEnough(r, p)'
  <2>1. /\ DOMAIN listing' = Runs /\ phase'[q] \notin Busy
        /\ \A r \in Runs \ {q} : /\ listing'[r] = listing[r] /\ todo'[r] = todo[r]
                                 /\ phase'[r] = phase[r] /\ part'[r] = part[r]
    BY <1>3 DEF Scan, AgeGuard, RunInv, LockInv, TodoOK, PhaseOK, GoTo, Finalize,
       Busy, Working, lockVars
  <2>2. target[q] = All => \A p \in todo'[q] : OldEnough(q, p)'
    BY <1>3, ScanFindsOld
  <2>3. \A r \in Runs \ {q}, p \in Partitions : Due(r, p)' => Due(r, p)
    BY <2>1 DEF Due
  <2>4. \A r \in Runs \ {q}, p \in Partitions :
           target[r] = All /\ Due(r, p)' => OldEnough(r, p)'
    BY <1>1, <2>1, <2>3 DEF AgeGuard
  <2>5. \A p \in Partitions : Due(q, p)' => p \in todo'[q]
    BY <2>1 DEF Due
  <2> QED BY <2>1, <2>2, <2>4, <2>5
<1>4. ASSUME listing' = listing,
             \A r \in Runs, p \in Partitions : Due(r, p)' => Due(r, p)
      PROVE  /\ DOMAIN listing' = Runs
             /\ \A r \in Runs, p \in Partitions :
                   target[r] = All /\ Due(r, p)' => OldEnough(r, p)'
  BY <1>1, <1>4 DEF AgeGuard
<1>5. ASSUME NEW q \in Runs, RunStep(q) \/ Error(q), ~Scan(q)
      PROVE  /\ listing' = listing
             /\ \A r \in Runs, p \in Partitions : Due(r, p)' => Due(r, p)
  <2>1. ASSUME NEW r \in Runs \ {q}
        PROVE  phase'[r] = phase[r] /\ part'[r] = part[r] /\ todo'[r] = todo[r]
    <3>1. phase'[r] = phase[r] /\ part'[r] = part[r]
      BY <1>5, PhaseOfOne, CallOfOne, NoLockCall
         DEF RunInv, RunStep, Error, lockVars
    <3>2. todo'[r] = todo[r]
      <4>1. CASE NextPartition(q)
        BY <4>1 DEF NextPartition, RunInv, LockInv, TodoOK
      <4>2. CASE ~NextPartition(q)
        BY <1>5, <4>2, TodoOnly
      <4> QED BY <4>1, <4>2
    <3> QED BY <3>1, <3>2
  <2>2. \A r \in Runs \ {q}, p \in Partitions : Due(r, p)' => Due(r, p)
    BY <2>1 DEF Due
  <2> QED BY <1>5, <2>2, PartOfRun
<1>6. ASSUME StreamAppends \/ Tick \/ UNCHANGED vars
      PROVE  /\ listing' = listing
             /\ \A r \in Runs, p \in Partitions : Due(r, p)' => Due(r, p)
  <2>1. UNCHANGED <<listing, todo, phase, part>>
    BY <1>6 DEF StreamAppends, Tick, L!Tick, vars, lockVars, runVars
  <2> QED BY <2>1 DEF Due
<1>7. /\ DOMAIN listing' = Runs
      /\ \A r \in Runs, p \in Partitions :
            target[r] = All /\ Due(r, p)' => OldEnough(r, p)'
  <2>1. ASSUME NEW q \in Runs, RunStep(q) \/ Error(q) PROVE <1>7
    BY <1>3, <1>4, <1>5, <2>1
  <2>2. ASSUME StreamAppends \/ Tick \/ UNCHANGED vars PROVE <1>7
    BY <1>4, <1>6, <2>2
  <2> QED BY <2>1, <2>2 DEF Next
<1> QED BY <1>1, <1>2, <1>7 DEF AgeGuard

LEMMA TableNamesHold == Spec => []TP!NamesUnique
<1>1. TP!Spec => []TP!NamesUnique
  BY TP!NamesUniqueHolds, TableAssumptions DEF TP!Txn, TP!File, TP!Rows
<1> QED BY <1>1, TableSpecs, PTL

\* An untargeted run never rewrites a file that it has seen to be younger than
\* the guard, however long its cycle takes and whatever is appended meanwhile.
THEOREM YoungFilesOnlyIfUnseenHolds == Spec => []YoungFilesOnlyIfUnseen
<1>1. Init => AgeGuard
  BY DEF Init, T!Init, AgeGuard, Due, Busy, Working, T!Writing
<1>2. RunInv /\ AgeGuard /\ TP!NamesUnique => YoungFilesOnlyIfUnseen
  <2> SUFFICES ASSUME RunInv, AgeGuard, TP!NamesUnique,
                      NEW r \in Runs, T!Writing(r), target[r] = All,
                      NEW f \in txn[r].base, NEW g \in listing[r][part[r]],
                      g.key = <<f.txn, f.idx>>
               PROVE  f.at <= L!Now(r) - partition_age_skip
    BY DEF YoungFilesOnlyIfUnseen
  <2>1. part[r] \in Partitions /\ Due(r, part[r]) /\ f.part = part[r]
    BY DEF RunInv, LockInv, L!TypeOK, WorksUnderLock, Due, Busy, Working
  <2>2. PICK h \in objects : /\ h.part = part[r] /\ g.key = <<h.txn, h.idx>>
                             /\ h.at <= L!Now(r) - partition_age_skip
    BY <2>1 DEF AgeGuard, OldEnough
  <2>3. f \in objects
    BY DEF AgeGuard
  <2> QED BY <2>1, <2>2, <2>3 DEF TP!NamesUnique
<1> QED BY <1>1, <1>2, AgeGuardStep, RunInvHolds, TableNamesHold, PTL DEF Spec

(***************************************************************************)
(* WHAT A RUN REPORTS, AND THAT IT ENDS. From here on: the counters add    *)
(* up, the exit code is true of the table, a run takes on what a dry run   *)
(* foretells, plans with what the bucket holds, and shortens its way to    *)
(* the end with every step.                                                *)
(***************************************************************************)

(***************************************************************************)
(* The bucket holds finitely many files, each with finitely many rows      *)
(***************************************************************************)

FiniteTable == IsFiniteSet(objects) /\ \A f \in objects : IsFiniteSet(f.rows)

LEMMA FiniteAppend ==
  ASSUME FiniteTable, NEW w, NEW P \in SUBSET Partitions, NEW now, T!WriteAppend(w, P, now)
  PROVE  FiniteTable'
<1> DEFINE file == [p \in P |-> T!AppendFile(nextTxn, p, now)]
           out == {file[p] : p \in P}
<1>1. objects' = objects \cup out
  <2>1. out = {T!AppendFile(nextTxn, p, now) : p \in P}
    OBVIOUS
  <2> HIDE DEF out
  <2> QED BY <2>1 DEF T!WriteAppend, T!Begin, T!logVars
<1>2. IsFiniteSet(P)
  BY FS_Subset, RunsAssumption
<1>3. IsFiniteSet(out)
  <2> HIDE DEF file
  <2> QED BY <1>2, FiniteImage
<1>4. \A f \in out : IsFiniteSet(f.rows)
  <2> SUFFICES ASSUME NEW p \in P PROVE IsFiniteSet(T!AppendFile(nextTxn, p, now).rows)
    OBVIOUS
  <2>1. T!AppendFile(nextTxn, p, now).rows = {<<nextTxn, p>>}
    BY DEF T!AppendFile
  <2> QED BY <2>1, FS_Singleton
<1> HIDE DEF out
<1> QED BY <1>1, <1>3, <1>4, FS_Union DEF FiniteTable

LEMMA FiniteRows ==
  ASSUME FiniteTable, T!TypeOK, NEW p
  PROVE  IsFiniteSet(T!RowsOf(T!LiveIn(p)))
<1> DEFINE rows == {f.rows : f \in T!LiveIn(p)}
<1>1. T!LiveIn(p) \subseteq objects
  BY DEF T!LiveIn, T!TypeOK
<1>2. IsFiniteSet(T!LiveIn(p))
  BY <1>1, FS_Subset DEF FiniteTable
<1>3. IsFiniteSet(rows)
  <2> DEFINE rowsOf == [f \in T!LiveIn(p) |-> f.rows]
  <2>1. rows = {rowsOf[f] : f \in T!LiveIn(p)}
    OBVIOUS
  <2> HIDE DEF rowsOf, rows
  <2> QED BY <1>2, <2>1, FiniteImage
<1>4. \A R \in rows : IsFiniteSet(R)
  BY <1>1 DEF FiniteTable
<1>5. T!RowsOf(T!LiveIn(p)) = UNION rows
  BY DEF T!RowsOf
<1> HIDE DEF rows
<1> QED BY <1>3, <1>4, <1>5, FS_UNION

LEMMA FiniteRewrite ==
  ASSUME FiniteTable, T!TypeOK, NEW w, NEW p, NEW n \in Nat, NEW now, T!WriteRewrite(w, p, n, now)
  PROVE  FiniteTable'
<1> DEFINE file == [i \in 0..(n - 1) |-> T!RewrittenFile(p, n, i, now)]
           written == {file[i] : i \in 0..(n - 1)}
<1>1. objects' = objects \cup T!Rewritten(p, n, now)
  BY DEF T!WriteRewrite, T!Begin, T!logVars
<1>2. IsFiniteSet(T!RowsOf(T!LiveIn(p)))
  BY FiniteRows
<1>3. IsFiniteSet(written)
  <2>1. IsFiniteSet(0..(n - 1))
    BY FS_Interval
  <2> HIDE DEF file
  <2> QED BY <2>1, FiniteImage
<1>4. \A f \in written : IsFiniteSet(f.rows)
  <2> SUFFICES ASSUME NEW i \in 0..(n - 1)
               PROVE  IsFiniteSet(T!RewrittenFile(p, n, i, now).rows)
    OBVIOUS
  <2>1. T!RewrittenFile(p, n, i, now).rows \subseteq T!RowsOf(T!LiveIn(p))
    BY DEF T!RewrittenFile
  <2> QED BY <1>2, <2>1, FS_Subset
<1>5. T!Rewritten(p, n, now) \subseteq written
  BY DEF T!Rewritten
<1> HIDE DEF written
<1>6. IsFiniteSet(T!Rewritten(p, n, now))
  BY <1>3, <1>5, FS_Subset
<1> QED BY <1>1, <1>4, <1>5, <1>6, FS_Union DEF FiniteTable

LEMMA FiniteStep ==
  FiniteTable /\ T!TypeOK /\ [T!Next]_(T!tableVars) => FiniteTable'
<1> SUFFICES ASSUME FiniteTable, T!TypeOK, [T!Next]_(T!tableVars) PROVE FiniteTable'
  OBVIOUS
<1>1. ASSUME NEW w, NEW P \in SUBSET Partitions, NEW now, T!WriteAppend(w, P, now)
      PROVE  FiniteTable'
  BY <1>1, FiniteAppend
<1>2. ASSUME NEW w, NEW p, NEW n \in 1..MaxFiles, NEW now, T!WriteRewrite(w, p, n, now)
      PROVE  FiniteTable'
  BY <1>2, FiniteRewrite, BoundsAssumption
<1>3. ASSUME NEW w, T!Commit(w) \/ T!Conflict(w) \/ T!Abandon(w) PROVE FiniteTable'
  BY <1>3 DEF T!Commit, T!AddEntry, T!OverwriteEntry, T!Conflict, T!Abandon,
     T!End, FiniteTable, T!logVars
<1>4. CASE UNCHANGED T!tableVars
  BY <1>4 DEF T!tableVars, FiniteTable
<1> QED BY <1>1, <1>2, <1>3, <1>4 DEF T!Next

\* What a listing shows of a finite bucket.
LEMMA ListedType ==
  ASSUME FiniteTable, T!TypeOK, NEW p
  PROVE  /\ IsFiniteSet(T!StoredIn(p))
         /\ IsFiniteSet(Listed(p)) /\ Listed(p) \subseteq FileInfo
<1> DEFINE info == [f \in T!StoredIn(p) |-> [key |-> <<f.txn, f.idx>>,
                       size_bytes |-> Cardinality(f.rows), last_modified |-> f.at]]
<1>1. T!StoredIn(p) \subseteq objects
  BY DEF T!StoredIn
<1>2. IsFiniteSet(T!StoredIn(p))
  BY <1>1, FS_Subset DEF FiniteTable
<1>3. Listed(p) = {info[f] : f \in T!StoredIn(p)}
  BY DEF Listed
<1>4. IsFiniteSet(Listed(p))
  <2> HIDE DEF info
  <2> QED BY <1>2, <1>3, FiniteImage
<1>5. \A f \in T!StoredIn(p) : Cardinality(f.rows) \in Nat
  BY <1>1, FS_CardinalityType DEF FiniteTable
<1>6. Listed(p) \subseteq FileInfo
  BY <1>1, <1>5 DEF Listed, FileInfo, T!TypeOK, T!File
<1> QED BY <1>2, <1>4, <1>6

(***************************************************************************)
(* The run's state is well typed                                           *)
(***************************************************************************)

\* What the loop works on was found by the scan.
ListingOf(r) ==
    /\ DOMAIN listing[r] \subseteq Partitions
    /\ \A p \in DOMAIN listing[r] :
          listing[r][p] \subseteq FileInfo /\ IsFiniteSet(listing[r][p])
    /\ todo[r] \subseteq DOMAIN listing[r]
    /\ phase[r] \in Busy => part[r] \in DOMAIN listing[r]

RunTypes ==
    /\ DOMAIN listing = Runs
    /\ target \in [Runs -> Partitions \cup {All}]
    /\ method \in [Runs -> {"delta_optimize", "zorder_inspired"}]
    /\ metrics \in [Runs -> Metrics]
    /\ \A r \in Runs : ListingOf(r)

\* A step of one run leaves what the others have alone.
LEMMA OneRun ==
  ASSUME RunInv, RunTypes, NEW q \in Runs, RunStep(q) \/ Error(q), NEW r \in Runs \ {q}
  PROVE  /\ phase'[r] = phase[r] /\ part'[r] = part[r] /\ todo'[r] = todo[r]
         /\ listing'[r] = listing[r] /\ method'[r] = method[r]
         /\ metrics'[r] = metrics[r]
<1>1. phase'[r] = phase[r]
  BY PhaseOfOne DEF RunInv
<1>2. part'[r] = part[r]
  BY CallOfOne, NoLockCall DEF RunInv, RunStep, Error, lockVars
<1>3. todo'[r] = todo[r]
  BY TodoOnly DEF Scan, NextPartition, RunInv, LockInv, TodoOK
<1>4. listing'[r] = listing[r] /\ method'[r] = method[r] /\ metrics'[r] = metrics[r]
  <2> USE DEF RunTypes
  <2>1. CASE Prepare(q) \/ FinishRun(q)
    BY <2>1 DEF Prepare, Verify, TableNotFound, Scan, SelectedMetrics, TargetNotFound,
       CreateSparkSession, SetError, FinishRun
  <2>2. CASE LockWork(q)
    BY <2>2 DEF LockWork, NextPartition, AcquireCall, LockRefused, LockAcquired,
       StartRelease, ReleaseCall, runVars
  <2>3. CASE SparkWork(q)
    BY <2>3 DEF SparkWork, BeginRewrite, OptimizeNothing, CommitRewrite, CountFiles,
       SparkFails, RetryOrFail, FailPartition
  <2>4. CASE Error(q)
    BY <2>4 DEF Error, VerifyFails, ScanFails, LockCallRaises, RaiseOut, SetError, Crash
  <2> QED BY <2>1, <2>2, <2>3, <2>4 DEF RunStep
<1> QED BY <1>1, <1>2, <1>3, <1>4

\* The loop takes its next partition; nothing else changes the one it has.
LEMMA PartKept ==
  ASSUME RunInv, NEW q \in Runs, RunStep(q) \/ Error(q), ~NextPartition(q)
  PROVE  part'[q] = part[q]
<1> USE DEF RunInv, LockInv, L!TypeOK
<1>1. CASE LockWork(q)
  BY <1>1 DEF LockWork, AcquireCall, LockRefused, LockAcquired, StartRelease, ReleaseCall,
     L!CleanupGet, L!CleanupDelete, L!GetFree, L!DeleteRefused, L!GetRefused, L!Put,
     L!StartRelease, L!ReleaseStep, L!ReleaseGet, L!ReleaseDelete
<1>2. CASE LockCallRaises(q) \/ Crash(q)
  BY <1>2 DEF LockCallRaises, Crash, L!CallFails, L!AnswerLost, lockVars
<1> QED BY <1>1, <1>2, NoLockCall DEF RunStep, Error, lockVars

LEMMA ScanCounts ==
  ASSUME FiniteTable, T!TypeOK, NEW r \in Runs, target[r] \in DOMAIN ScanPartitions \cup {All}
  PROVE  /\ EligibleFor(r) \subseteq DOMAIN ScanPartitions
         /\ DOMAIN ScanPartitions \subseteq Partitions
         /\ IsFiniteSet(EligibleFor(r))
         /\ Cardinality(EligibleFor(r)) \in Nat
         /\ Cardinality(DOMAIN ScanPartitions) \in Nat
         /\ Cardinality(EligibleFor(r)) <= Cardinality(DOMAIN ScanPartitions)
         /\ \A p \in DOMAIN ScanPartitions :
               ScanPartitions[p] \subseteq FileInfo /\ IsFiniteSet(ScanPartitions[p])
<1>1. DOMAIN ScanPartitions \subseteq Partitions
  BY DEF ScanPartitions
<1>2. EligibleFor(r) \subseteq DOMAIN ScanPartitions
  <2>1. CASE target[r] = All
    BY <2>1 DEF EligibleFor, Selected
  <2>2. CASE target[r] # All
    BY <2>2 DEF EligibleFor
  <2> QED BY <2>1, <2>2
<1>3. IsFiniteSet(DOMAIN ScanPartitions)
  BY <1>1, FS_Subset, RunsAssumption
<1>4. \A p \in DOMAIN ScanPartitions : ScanPartitions[p] = Listed(p)
  BY DEF ScanPartitions
<1> QED BY <1>1, <1>2, <1>3, <1>4, ListedType, FS_Subset, FS_CardinalityType

\* Every step of a run but the scan, the count and the steps of the loop.
LEMMA TypesOfPlainStep ==
  ASSUME RunInv, RunTypes, NEW q \in Runs,
         \/ Verify(q) \/ TableNotFound(q) \/ CreateSparkSession(q) \/ FinishRun(q)
         \/ AcquireCall(q) \/ StartRelease(q) \/ ReleaseCall(q)
         \/ BeginRewrite(q) \/ OptimizeNothing(q) \/ CommitRewrite(q) \/ Error(q)
  PROVE  /\ RunTypes'
         /\ part'[q] = part[q] /\ UNCHANGED <<listing, todo, method>>
<1>1. part'[q] = part[q]
  <2>1. \/ phase[q] # "loop" \/ todo[q] = {} \/ phase'[q] = "dead"
    BY DEF RunInv, PhaseOK, GoTo, Verify, TableNotFound, CreateSparkSession, FinishRun,
       AcquireCall, StartRelease, ReleaseCall, BeginRewrite, OptimizeNothing, CommitRewrite,
       Error, VerifyFails, ScanFails, LockCallRaises, Crash
  <2>2. ~NextPartition(q)
    BY <2>1 DEF NextPartition, GoTo, RunInv, PhaseOK
  <2>3. RunStep(q) \/ Error(q)
    BY DEF RunStep, Prepare, LockWork, SparkWork
  <2> QED BY <2>2, <2>3, PartKept
<1>2. UNCHANGED <<listing, todo, method, target>>
  BY DEF Verify, TableNotFound, CreateSparkSession, FinishRun, AcquireCall, StartRelease,
     ReleaseCall, BeginRewrite, OptimizeNothing, CommitRewrite, Error, VerifyFails, ScanFails,
     LockCallRaises, RaiseOut, Crash, runVars
<1>3. phase'[q] \in Busy => phase[q] \in Busy
  BY DEF RunInv, PhaseOK, GoTo, Finalize, Busy, Working, Verify, TableNotFound,
     CreateSparkSession, FinishRun, AcquireCall, StartRelease, ReleaseCall, BeginRewrite,
     OptimizeNothing, CommitRewrite, Error, VerifyFails, ScanFails, LockCallRaises, RaiseOut,
     Crash, runVars
<1>4. metrics' = metrics \/ SetError(q)
  BY DEF Verify, TableNotFound, CreateSparkSession, FinishRun, AcquireCall, StartRelease,
     ReleaseCall, BeginRewrite, OptimizeNothing, CommitRewrite, Error, VerifyFails, ScanFails,
     LockCallRaises, RaiseOut, Crash, runVars
<1>5. metrics' \in [Runs -> Metrics]
  <2>1. ASSUME NEW m \in Metrics PROVE [m EXCEPT !.error = TRUE] \in Metrics
    BY DEF Metrics
  <2> QED BY <1>4, <2>1 DEF RunTypes, SetError
<1>6. ASSUME NEW r \in Runs PROVE ListingOf(r)'
  <2>1. CASE r = q
    BY <1>1, <1>2, <1>3, <2>1 DEF RunTypes, ListingOf
  <2>2. CASE r # q
    <3>1. RunStep(q) \/ Error(q)
      BY DEF RunStep, Prepare, LockWork, SparkWork
    <3>2. phase'[r] = phase[r] /\ part'[r] = part[r]
      BY <2>2, <3>1, OneRun
    <3> QED BY <1>2, <3>2 DEF RunTypes, ListingOf
  <2> QED BY <2>1, <2>2
<1> QED BY <1>1, <1>2, <1>5, <1>6 DEF RunTypes

\* The steps that compute metrics or go on to another partition or method.
LEMMA TypesOfCountingStep ==
  ASSUME RunInv, RunTypes, FiniteTable, NEW q \in Runs,
         \/ Scan(q) \/ TargetNotFound(q) \/ NextPartition(q) \/ LockRefused(q)
         \/ LockAcquired(q) \/ CountFiles(q) \/ SparkFails(q)
  PROVE  metrics' \in [Runs -> Metrics] /\ method' \in [Runs -> {"delta_optimize", "zorder_inspired"}]
         /\ DOMAIN listing' = Runs /\ UNCHANGED target /\ ListingOf(q)'
<1> USE DEF RunTypes
<1>0. part[q] \in Partitions /\ phase \in [Runs -> Phases] /\ todo \in [Runs -> SUBSET Partitions]
      /\ T!TypeOK
  BY DEF RunInv, LockInv, L!TypeOK, PhaseOK, TodoOK
<1>a. ASSUME NEW m \in Metrics, NEW n \in Nat
      PROVE  /\ [m EXCEPT !.files_before = @ + n] \in Metrics
             /\ [m EXCEPT !.lock_conflicts = @ + 1,
                          !.failed_partitions = @ \cup {part[q]}] \in Metrics
             /\ [m EXCEPT !.failed_partitions = @ \cup {part[q]}] \in Metrics
             /\ [m EXCEPT !.compacted_partitions = @ \cup {part[q]},
                          !.files_after = @ + n] \in Metrics
  <2> USE <1>0 DEF Metrics
  <2>1. m.files_before + n \in Nat /\ m.files_after + n \in Nat /\ m.lock_conflicts + 1 \in Nat
        /\ m.failed_partitions \cup {part[q]} \in SUBSET Partitions
        /\ m.compacted_partitions \cup {part[q]} \in SUBSET Partitions
    OBVIOUS
  <2>2. [m EXCEPT !.files_before = @ + n] \in Metrics
    BY <2>1
  <2>3. [m EXCEPT !.lock_conflicts = @ + 1,
                  !.failed_partitions = @ \cup {part[q]}] \in Metrics
    BY <2>1
  <2>4. [m EXCEPT !.failed_partitions = @ \cup {part[q]}] \in Metrics
    BY <2>1
  <2>5. [m EXCEPT !.compacted_partitions = @ \cup {part[q]}, !.files_after = @ + n] \in Metrics
    BY <2>1
  <2> QED BY <2>2, <2>3, <2>4, <2>5
<1>1. CASE Scan(q)
  <2>1. target[q] \in DOMAIN ScanPartitions \cup {All}
    BY <1>1 DEF Scan
  <2>2. metrics' \in [Runs -> Metrics]
    <3> DEFINE scanned == Cardinality(DOMAIN ScanPartitions)
               eligible == Cardinality(EligibleFor(q))
               skipped == IF target[q] = All THEN scanned - eligible ELSE 0
    <3>1. scanned \in Nat /\ eligible \in Nat /\ skipped \in Nat
      BY <1>0, <2>1, ScanCounts
    <3>2. metrics' = [metrics EXCEPT ![q].partitions_scanned = scanned,
                                     ![q].eligible_partitions = eligible,
                                     ![q].skipped_partitions = skipped]
      BY <1>1 DEF Scan, SelectedMetrics
    <3>3. ASSUME NEW m \in Metrics, NEW a \in Nat, NEW b \in Nat, NEW c \in Nat
          PROVE  [m EXCEPT !.partitions_scanned = a, !.eligible_partitions = b,
                           !.skipped_partitions = c] \in Metrics
      BY DEF Metrics
    <3> HIDE DEF scanned, eligible, skipped
    <3> QED BY <3>1, <3>2, <3>3
  <2>3. listing'[q] = ScanPartitions /\ todo'[q] = EligibleFor(q) /\ phase'[q] \notin Busy
    BY <1>0, <1>1 DEF Scan, GoTo, Finalize, Busy, Working
  <2>4. ListingOf(q)'
    BY <1>0, <2>1, <2>3, ScanCounts DEF ListingOf
  <2> QED BY <1>1, <2>2, <2>4 DEF Scan
<1>2. CASE TargetNotFound(q)
  <2>1. metrics' \in [Runs -> Metrics]
    <3>1. Cardinality(DOMAIN ScanPartitions) \in Nat
      BY RunsAssumption, FS_Subset, FS_CardinalityType DEF ScanPartitions
    <3>2. ASSUME NEW m \in Metrics, NEW n \in Nat
          PROVE  [m EXCEPT !.partitions_scanned = n, !.error = TRUE] \in Metrics
      BY DEF Metrics
    <3> QED BY <1>2, <3>1, <3>2 DEF TargetNotFound
  <2>2. phase'[q] \notin Busy /\ UNCHANGED <<listing, todo, method, target>>
    BY <1>0, <1>2 DEF TargetNotFound, Finalize, GoTo, Busy, Working
  <2> QED BY <2>1, <2>2 DEF ListingOf
<1>3. CASE NextPartition(q)
  <2>1. PICK p \in todo[q] : L!StartAcquire(q, p) /\ todo' = [todo EXCEPT ![q] = @ \ {p}]
    BY <1>3 DEF NextPartition
  <2>2. part'[q] = p
    BY <2>1 DEF L!StartAcquire, RunInv, LockInv, L!TypeOK
  <2>3. UNCHANGED <<listing, method, target, metrics>>
    BY <1>3 DEF NextPartition
  <2>4. ListingOf(q)'
    BY <1>0, <2>1, <2>2, <2>3 DEF ListingOf
  <2> QED BY <2>3, <2>4
<1>4. CASE LockRefused(q)
  <2>1. phase'[q] \notin Busy /\ UNCHANGED <<listing, todo, method, target>>
    BY <1>0, <1>4 DEF LockRefused, GoTo, Busy, Working
  <2>2. metrics' \in [Runs -> Metrics]
    BY <1>4, <1>a DEF LockRefused
  <2> QED BY <2>1, <2>2 DEF ListingOf
<1>5. CASE LockAcquired(q)
  <2>1. part'[q] = part[q] /\ phase[q] \in Busy
    BY <1>5, PartKept DEF RunStep, LockWork, LockAcquired, NextPartition, Busy, Working
  <2>2. Cardinality(listing[q][part[q]]) \in Nat
    BY <2>1, FS_CardinalityType DEF ListingOf
  <2>3. metrics' \in [Runs -> Metrics]
    BY <1>5, <1>a, <2>2 DEF LockAcquired
  <2> QED BY <1>5, <2>1, <2>3 DEF LockAcquired, ListingOf
<1>6. CASE CountFiles(q)
  <2>1. phase'[q] \notin Busy /\ UNCHANGED <<listing, todo, method, target>>
    BY <1>0, <1>6 DEF CountFiles, GoTo, Busy, Working
  <2>2. Cardinality(T!StoredIn(part[q])) \in Nat
    BY <1>0, ListedType, FS_CardinalityType
  <2>3. metrics' \in [Runs -> Metrics]
    BY <1>6, <1>a, <2>2 DEF CountFiles
  <2> QED BY <2>1, <2>3 DEF ListingOf
<1>7. CASE SparkFails(q)
  <2>1. part'[q] = part[q]
    BY <1>0, <1>7, PartKept DEF RunStep, SparkWork, SparkFails, NextPartition, Working
  <2>2. phase[q] \in Busy /\ UNCHANGED <<listing, todo, target>>
    BY <1>7 DEF SparkFails, RetryOrFail, Busy
  <2>3. metrics' \in [Runs -> Metrics]
    BY ZenonT(30), <1>7, <1>a DEF SparkFails, RetryOrFail, FailPartition
  <2>4. method' \in [Runs -> {"delta_optimize", "zorder_inspired"}]
    BY <1>7 DEF SparkFails, RetryOrFail
  <2> QED BY <2>1, <2>2, <2>3, <2>4 DEF ListingOf
<1> QED BY <1>1, <1>2, <1>3, <1>4, <1>5, <1>6, <1>7

LEMMA RunTypesStep ==
  RunInv /\ RunTypes /\ FiniteTable /\ [Next]_vars => RunTypes'
<1> SUFFICES ASSUME RunInv, RunTypes, FiniteTable, [Next]_vars PROVE RunTypes'
  OBVIOUS
<1>1. ASSUME NEW q \in Runs,
             \/ Scan(q) \/ TargetNotFound(q) \/ NextPartition(q) \/ LockRefused(q)
             \/ LockAcquired(q) \/ CountFiles(q) \/ SparkFails(q)
      PROVE  RunTypes'
  <2>1. RunStep(q) \/ Error(q)
    BY <1>1 DEF RunStep, Prepare, LockWork, SparkWork
  <2>2. \A r \in Runs \ {q} : ListingOf(r)'
    BY <2>1, OneRun DEF RunTypes, ListingOf
  <2> QED BY <1>1, <2>2, TypesOfCountingStep DEF RunTypes
<1>2. ASSUME NEW q \in Runs,
             \/ Verify(q) \/ TableNotFound(q) \/ CreateSparkSession(q) \/ FinishRun(q)
             \/ AcquireCall(q) \/ StartRelease(q) \/ ReleaseCall(q)
             \/ BeginRewrite(q) \/ OptimizeNothing(q) \/ CommitRewrite(q) \/ Error(q)
      PROVE  RunTypes'
  BY <1>2, TypesOfPlainStep
<1>3. CASE StreamAppends \/ Tick \/ UNCHANGED vars
  <2>1. UNCHANGED <<runVars, part>>
    BY <1>3 DEF StreamAppends, Tick, L!Tick, vars, lockVars
  <2> QED BY <2>1 DEF runVars, RunTypes, ListingOf
<1> QED BY <1>1, <1>2, <1>3 DEF Next, RunStep, Prepare, LockWork, SparkWork

\* The state of the whole system is well typed: the locks, the table and what
\* each run keeps, for any number of runs and any partitions.
THEOREM TypeCorrect == Spec => []TypeOK
<1>1. Init => RunTypes /\ FiniteTable
  BY FS_EmptySet DEF Init, T!Init, RunTypes, ListingOf, Busy, Working, FiniteTable, NoMetrics, Metrics
<1>2. RunInv /\ FiniteTable /\ [Next]_vars => FiniteTable'
  BY TableStep, FiniteStep DEF RunInv
<1>3. RunInv /\ RunTypes /\ LoggedSoFar => TypeOK
  BY DEF RunInv, RunTypes, ListingOf, LoggedSoFar, TypeOK, LockInv, TodoOK, PhaseOK
<1>4. Init => LoggedSoFar
  BY DEF Init, LoggedSoFar, Over
<1> QED BY <1>1, <1>2, <1>3, <1>4, RunTypesStep, LoggedStep, RunInvHolds, PTL DEF Spec

(***************************************************************************)
(* The counters and the exit code                                          *)
(***************************************************************************)

\* The partitions r was to compact: those it has not finished with, those done.
Open(r) == IF phase[r] \in Busy THEN todo[r] \cup {part[r]} ELSE todo[r]
Handled(r) == metrics[r].compacted_partitions \cup metrics[r].failed_partitions

\* The run goes on, or ended without an error.
Counted(r) == phase[r] \notin Over \/ (phase[r] = "done" /\ ~metrics[r].error)

Books(r) ==
    /\ metrics[r].compacted_partitions \cap metrics[r].failed_partitions = {}
    /\ Open(r) \cap Handled(r) = {}
    /\ phase[r] \in Busy => part[r] \notin todo[r]
    /\ metrics[r].eligible_partitions = Cardinality(Open(r) \cup Handled(r))
    /\ target[r] = All => metrics[r].partitions_scanned =
          metrics[r].eligible_partitions + metrics[r].skipped_partitions
    /\ metrics[r].lock_conflicts <= Cardinality(metrics[r].failed_partitions)
    /\ rewritten[r] \subseteq Open(r) \cup Handled(r)

\* What is compacted without a commit was left to OPTIMIZE.
Backed(r) ==
    /\ metrics[r].compacted_partitions \subseteq rewritten[r] \/ r \in UsesOptimize
    /\ method[r] = "delta_optimize" => r \in UsesOptimize
    /\ phase[r] = "count" => part[r] \in rewritten[r] \/ r \in UsesOptimize

Fresh(r) ==
    /\ todo[r] = {} /\ rewritten[r] = {} /\ Handled(r) = {}
    /\ metrics[r].lock_conflicts = 0

Summary(r) ==
    /\ Counted(r) => Books(r)
    /\ Backed(r)
    /\ phase[r] \in {"verify", "scan"} => Fresh(r)
    /\ phase[r] = "done" /\ ~metrics[r].error => todo[r] = {}

\* All that the following lemmas need of the state's types.
Typed == RunInv /\ RunTypes /\ LoggedSoFar

LEMMA FiniteBooks ==
  ASSUME Typed, NEW r \in Runs
  PROVE  /\ todo[r] \subseteq Partitions /\ part[r] \in Partitions /\ rewritten[r] \subseteq Partitions
         /\ metrics[r] \in Metrics
         /\ \A S \in SUBSET Partitions : IsFiniteSet(S) /\ Cardinality(S) \in Nat
<1>1. \A S \in SUBSET Partitions : IsFiniteSet(S) /\ Cardinality(S) \in Nat
  BY RunsAssumption, FS_Subset, FS_CardinalityType
<1> QED BY <1>1 DEF Typed, RunInv, LockInv, L!TypeOK, TodoOK, RunTypes, LoggedSoFar

\* Steps in which the run does not finish with a partition.
LEMMA BooksKept ==
  ASSUME Typed, NEW q \in Runs, Summary(q), Counted(q),
         part'[q] = part[q], todo'[q] = todo[q], target' = target, rewritten'[q] = rewritten[q],
         phase'[q] \in Busy <=> phase[q] \in Busy,
         metrics'[q].partitions_scanned = metrics[q].partitions_scanned,
         metrics'[q].eligible_partitions = metrics[q].eligible_partitions,
         metrics'[q].skipped_partitions = metrics[q].skipped_partitions,
         metrics'[q].compacted_partitions = metrics[q].compacted_partitions,
         metrics'[q].failed_partitions = metrics[q].failed_partitions,
         metrics'[q].lock_conflicts = metrics[q].lock_conflicts
  PROVE  Books(q)'
<1>1. Open(q)' = Open(q) /\ Handled(q)' = Handled(q)
  BY DEF Open, Handled
<1> QED BY <1>1 DEF Summary, Books

\* The run is done with the partition it holds: it goes to one side of the books.
LEMMA BooksClosed ==
  ASSUME Typed, NEW q \in Runs, Summary(q), phase[q] \in Busy, phase'[q] \notin Busy,
         todo'[q] = todo[q], target' = target, rewritten'[q] = rewritten[q],
         metrics'[q].partitions_scanned = metrics[q].partitions_scanned,
         metrics'[q].eligible_partitions = metrics[q].eligible_partitions,
         metrics'[q].skipped_partitions = metrics[q].skipped_partitions,
         \/ /\ metrics'[q].compacted_partitions = metrics[q].compacted_partitions \cup {part[q]}
            /\ metrics'[q].failed_partitions = metrics[q].failed_partitions
            /\ metrics'[q].lock_conflicts = metrics[q].lock_conflicts
         \/ /\ metrics'[q].compacted_partitions = metrics[q].compacted_partitions
            /\ metrics'[q].failed_partitions = metrics[q].failed_partitions \cup {part[q]}
            /\ metrics'[q].lock_conflicts \in
                  {metrics[q].lock_conflicts, metrics[q].lock_conflicts + 1}
  PROVE  Books(q)'
<1>1. Books(q)
  BY DEF Summary, Counted, Over, Busy, Working
<1>2. part[q] \notin todo[q] \cup Handled(q)
  BY <1>1 DEF Books, Open
<1>3. Open(q)' = todo[q] /\ Handled(q)' = Handled(q) \cup {part[q]}
  BY DEF Open, Handled
<1>4. Open(q)' \cup Handled(q)' = Open(q) \cup Handled(q)
  BY <1>3 DEF Open
<1>5. metrics'[q].lock_conflicts <= Cardinality(metrics'[q].failed_partitions)
  <2>1. metrics[q].failed_partitions \in SUBSET Partitions /\ metrics[q].lock_conflicts \in Nat
        /\ Cardinality(metrics[q].failed_partitions) \in Nat
    BY FiniteBooks DEF Metrics
  <2>2. Cardinality(metrics[q].failed_partitions \cup {part[q]})
            = Cardinality(metrics[q].failed_partitions) + 1
    BY <1>2, <2>1, FiniteBooks, FS_AddElement DEF Handled
  <2>3. metrics[q].lock_conflicts <= Cardinality(metrics[q].failed_partitions)
    BY <1>1 DEF Books
  <2>4. CASE /\ metrics'[q].failed_partitions = metrics[q].failed_partitions
             /\ metrics'[q].lock_conflicts = metrics[q].lock_conflicts
    BY <2>3, <2>4
  <2>5. CASE /\ metrics'[q].failed_partitions = metrics[q].failed_partitions \cup {part[q]}
             /\ metrics'[q].lock_conflicts \in
                   {metrics[q].lock_conflicts, metrics[q].lock_conflicts + 1}
    <3> DEFINE n == Cardinality(metrics[q].failed_partitions)
               k == metrics[q].lock_conflicts
    <3>1. Cardinality(metrics'[q].failed_partitions) = n + 1
      BY <2>2, <2>5
    <3>2. metrics'[q].lock_conflicts \in {k, k + 1}
      BY <2>5
    <3>3. n \in Nat /\ k \in Nat /\ k <= n
      BY <2>1, <2>3
    <3> HIDE DEF n, k
    <3> QED BY <3>1, <3>2, <3>3
  <2> QED BY <2>4, <2>5
<1>6. metrics'[q].compacted_partitions \cap metrics'[q].failed_partitions = {}
  BY <1>1, <1>2 DEF Books, Handled
<1>7. Open(q)' \cap Handled(q)' = {}
  BY <1>1, <1>2, <1>3 DEF Books, Open
<1> QED BY <1>1, <1>4, <1>5, <1>6, <1>7 DEF Books

\* What the steps of one run leave alone of the others' books.
LEMMA OthersBooks ==
  ASSUME Typed, NEW q \in Runs, RunStep(q) \/ Error(q), NEW r \in Runs \ {q}, Summary(r)
  PROVE  Summary(r)'
<1>1. rewritten'[r] = rewritten[r] /\ target' = target
  <2>1. rewritten' = rewritten \/ CommitRewrite(q)
    BY DEF RunStep, Error, Prepare, LockWork, SparkWork, Verify, TableNotFound, Scan,
       TargetNotFound, CreateSparkSession, NextPartition, AcquireCall, LockRefused, LockAcquired,
       StartRelease, ReleaseCall, BeginRewrite, OptimizeNothing, CountFiles, SparkFails,
       RetryOrFail, FinishRun, VerifyFails, ScanFails, LockCallRaises, RaiseOut, Crash, runVars
  <2>2. rewritten'[r] = rewritten[r]
    BY <2>1 DEF CommitRewrite, Typed, LoggedSoFar
  <2>3. target' = target
    BY OnlyForward DEF Typed, Next
  <2> QED BY <2>2, <2>3
<1> QED BY <1>1, OneRun DEF Typed, Summary, Counted, Books, Backed, Fresh, Open, Handled

LEMMA SummaryOfErrors ==
  ASSUME Typed, NEW q \in Runs, Summary(q),
         Error(q) \/ TableNotFound(q) \/ TargetNotFound(q)
  PROVE  Summary(q)'
<1> USE DEF Typed, RunInv, PhaseOK, RunTypes, GoTo, Finalize
<1>1. UNCHANGED <<todo, method, rewritten>>
  BY DEF Error, TableNotFound, TargetNotFound, VerifyFails, ScanFails, LockCallRaises, RaiseOut,
     Crash
<1>2. metrics'[q].compacted_partitions = metrics[q].compacted_partitions
  BY DEF Error, TableNotFound, TargetNotFound, VerifyFails, ScanFails, LockCallRaises, RaiseOut,
     Crash, SetError, Metrics
<1>3. phase'[q] \in {"raised", "dead"} \/ (phase'[q] = "done" /\ metrics'[q].error)
  <2>1. CASE Error(q)
    BY <2>1 DEF Error, VerifyFails, ScanFails, LockCallRaises, RaiseOut, Crash
  <2>2. CASE TableNotFound(q)
    BY <2>2 DEF TableNotFound, SetError, Metrics
  <2>3. CASE TargetNotFound(q)
    BY <2>3 DEF TargetNotFound, Metrics
  <2> QED BY <2>1, <2>2, <2>3
<1> QED BY <1>1, <1>2, <1>3 DEF Summary, Counted, Backed, Over

LEMMA SummaryOfScan ==
  ASSUME Typed, FiniteTable, NEW q \in Runs, Summary(q), Scan(q)
  PROVE  Summary(q)'
<1> USE DEF Typed, RunInv, PhaseOK, RunTypes
<1>1. Fresh(q) /\ phase[q] = "scan" /\ target[q] \in DOMAIN ScanPartitions \cup {All}
  BY DEF Scan, Summary
<1>2. metrics[q] \in Metrics
  BY FiniteBooks
<1> DEFINE scanned == Cardinality(DOMAIN ScanPartitions)
           eligible == Cardinality(EligibleFor(q))
<1>3. scanned \in Nat /\ eligible \in Nat /\ eligible <= scanned
  BY <1>1, ScanCounts
<1>4. /\ metrics'[q].partitions_scanned = scanned
      /\ metrics'[q].eligible_partitions = eligible
      /\ target[q] = All => metrics'[q].skipped_partitions = scanned - eligible
      /\ metrics'[q].compacted_partitions = metrics[q].compacted_partitions
      /\ metrics'[q].failed_partitions = metrics[q].failed_partitions
      /\ metrics'[q].lock_conflicts = metrics[q].lock_conflicts
      /\ metrics'[q].error = metrics[q].error
  BY <1>2 DEF Scan, SelectedMetrics, Metrics
<1>5. /\ phase'[q] \in {"spark", "done"} /\ phase'[q] \notin Busy
      /\ phase'[q] = "done" => EligibleFor(q) = {}
      /\ todo'[q] = EligibleFor(q) /\ UNCHANGED <<target, method, rewritten>>
  BY DEF Scan, GoTo, Finalize, Busy, Working, LockInv, TodoOK
<1>6. Handled(q)' = {} /\ Open(q)' = EligibleFor(q)
  BY <1>1, <1>4, <1>5 DEF Handled, Open, Fresh
<1> HIDE DEF scanned, eligible
<1>7. Books(q)'
  <2>1. metrics'[q].compacted_partitions = {} /\ metrics'[q].failed_partitions = {}
    BY <1>6 DEF Handled
  <2>2. metrics'[q].eligible_partitions = Cardinality(Open(q)' \cup Handled(q)')
    BY <1>4, <1>6 DEF eligible
  <2>3. metrics'[q].lock_conflicts <= Cardinality(metrics'[q].failed_partitions)
    BY <1>1, <1>4, <2>1, FS_EmptySet DEF Fresh
  <2>4. rewritten'[q] = {}
    BY <1>1, <1>5 DEF Fresh
  <2>5. target'[q] = All => metrics'[q].partitions_scanned =
           metrics'[q].eligible_partitions + metrics'[q].skipped_partitions
    BY <1>3, <1>4, <1>5
  <2> QED BY <1>5, <1>6, <2>1, <2>2, <2>3, <2>4, <2>5 DEF Books
<1> QED BY <1>1, <1>4, <1>5, <1>7 DEF Summary, Backed

LEMMA SummaryOfLoop ==
  ASSUME Typed, NEW q \in Runs, Summary(q), NextPartition(q) \/ FinishRun(q)
  PROVE  Summary(q)'
<1> USE DEF Typed, RunInv, PhaseOK, RunTypes, GoTo, Finalize
<1>1. /\ phase[q] = "loop" /\ Counted(q)
      /\ metrics' = metrics /\ UNCHANGED <<target, method, rewritten>>
  BY DEF NextPartition, FinishRun, Counted, Over
<1>2. phase[q] \notin Busy /\ Books(q) /\ Backed(q)
  BY <1>1 DEF Summary, Busy, Working
<1>3. CASE FinishRun(q)
  <2>1. phase'[q] = "done" /\ UNCHANGED todo /\ todo[q] = {} /\ part'[q] = part[q]
    BY <1>3, PartKept DEF FinishRun, RunStep, NextPartition
  <2>2. Open(q)' = Open(q) /\ Handled(q)' = Handled(q)
    BY <1>1, <1>2, <2>1 DEF Open, Handled, Busy, Working
  <2> QED BY <1>1, <1>2, <2>1, <2>2 DEF Summary, Books, Backed, Busy, Working
<1>4. CASE NextPartition(q)
  <2>1. PICK p \in todo[q] : L!StartAcquire(q, p) /\ todo' = [todo EXCEPT ![q] = @ \ {p}]
    BY <1>4 DEF NextPartition
  <2>2. /\ part'[q] = p /\ todo'[q] = todo[q] \ {p}
        /\ phase'[q] = "acquire" /\ phase'[q] \in Busy
    BY <1>4, <2>1 DEF NextPartition, L!StartAcquire, LockInv, L!TypeOK, TodoOK, Busy
  <2>3. Open(q)' = Open(q) /\ Handled(q)' = Handled(q)
    BY <1>1, <1>2, <2>2 DEF Open, Handled
  <2> QED BY <1>1, <1>2, <2>2, <2>3 DEF Summary, Books, Backed
<1> QED BY <1>3, <1>4

\* From the lock to its release the run is done with its partition in three ways.
LEMMA SummaryOfOutcome ==
  ASSUME Typed, NEW q \in Runs, Summary(q),
         \/ LockRefused(q) \/ CountFiles(q)
         \/ SparkFails(q) /\ method[q] = "zorder_inspired"
  PROVE  Summary(q)'
<1> USE DEF Typed, RunInv, PhaseOK, RunTypes, GoTo
<1>1. metrics[q] \in Metrics
  BY FiniteBooks
<1>2. /\ phase[q] \in Busy /\ phase[q] \notin {"verify", "scan"}
      /\ phase'[q] \in {"loop", "release"} /\ phase'[q] \notin Busy
      /\ UNCHANGED <<todo, target, rewritten, method>>
  BY DEF LockRefused, CountFiles, SparkFails, RetryOrFail, Busy, Working
<1>3. /\ metrics'[q].partitions_scanned = metrics[q].partitions_scanned
      /\ metrics'[q].eligible_partitions = metrics[q].eligible_partitions
      /\ metrics'[q].skipped_partitions = metrics[q].skipped_partitions
  BY <1>1 DEF LockRefused, CountFiles, SparkFails, RetryOrFail, FailPartition, Metrics
<1>4. CASE LockRefused(q) \/ (SparkFails(q) /\ method[q] = "zorder_inspired")
  <2>1. /\ metrics'[q].compacted_partitions = metrics[q].compacted_partitions
        /\ metrics'[q].failed_partitions = metrics[q].failed_partitions \cup {part[q]}
        /\ metrics'[q].lock_conflicts \in
              {metrics[q].lock_conflicts, metrics[q].lock_conflicts + 1}
    BY <1>1, <1>4 DEF LockRefused, SparkFails, RetryOrFail, FailPartition, Metrics
  <2>2. Books(q)'
    BY <1>2, <1>3, <2>1, BooksClosed
  <2> QED BY <1>2, <2>1, <2>2 DEF Summary, Backed
<1>5. CASE CountFiles(q)
  <2>1. /\ metrics'[q].compacted_partitions = metrics[q].compacted_partitions \cup {part[q]}
        /\ metrics'[q].failed_partitions = metrics[q].failed_partitions
        /\ metrics'[q].lock_conflicts = metrics[q].lock_conflicts
    BY <1>1, <1>5 DEF CountFiles, Metrics
  <2>2. Books(q)'
    BY <1>2, <1>3, <2>1, BooksClosed
  <2>3. phase[q] = "count"
    BY <1>5 DEF CountFiles
  <2> QED BY <1>2, <2>1, <2>2, <2>3 DEF Summary, Backed
<1> QED BY <1>4, <1>5

\* The commit: the partition the run holds is now among the rewritten ones.
LEMMA SummaryOfCommit ==
  ASSUME Typed, NEW q \in Runs, Summary(q), CommitRewrite(q)
  PROVE  Summary(q)'
<1> USE DEF Typed, RunInv, PhaseOK, RunTypes, GoTo
<1>1. /\ phase[q] = "commit" /\ phase'[q] = "count" /\ metrics' = metrics
      /\ rewritten'[q] = rewritten[q] \cup {part[q]}
      /\ UNCHANGED <<todo, target, method>>
  BY DEF CommitRewrite, LoggedSoFar
<1>2. part'[q] = part[q]
  BY PartKept DEF RunStep, SparkWork, CommitRewrite, NextPartition
<1>3. phase[q] \in Busy /\ phase'[q] \in Busy /\ Books(q) /\ Backed(q)
  BY <1>1 DEF Summary, Counted, Over, Busy, Working
<1>4. Open(q)' = Open(q) /\ Handled(q)' = Handled(q) /\ part[q] \in Open(q)
  BY <1>1, <1>2, <1>3 DEF Open, Handled
<1>5. Books(q)'
  BY <1>1, <1>2, <1>3, <1>4 DEF Books
<1> QED BY <1>1, <1>2, <1>3, <1>5 DEF Summary, Backed

\* The steps that leave the books as they are.
LEMMA SummaryOfRest ==
  ASSUME Typed, NEW q \in Runs, Summary(q),
         \/ Verify(q) \/ CreateSparkSession(q) \/ AcquireCall(q) \/ LockAcquired(q)
         \/ StartRelease(q) \/ ReleaseCall(q) \/ BeginRewrite(q) \/ OptimizeNothing(q)
         \/ SparkFails(q) /\ method[q] = "delta_optimize"
  PROVE  Summary(q)'
<1> USE DEF Typed, RunInv, PhaseOK, RunTypes, GoTo, Finalize
<1>1. metrics[q] \in Metrics
  BY FiniteBooks
<1>2. phase[q] \notin Over /\ UNCHANGED <<todo, target, rewritten>>
  BY DEF Verify, CreateSparkSession, AcquireCall, LockAcquired, StartRelease, ReleaseCall,
     BeginRewrite, OptimizeNothing, SparkFails, RetryOrFail, Over, Working, runVars
<1>3. part'[q] = part[q]
  <2>1. RunStep(q) /\ phase[q] # "loop"
    BY DEF RunStep, Prepare, LockWork, SparkWork, Verify, CreateSparkSession, AcquireCall,
       LockAcquired, StartRelease, ReleaseCall, BeginRewrite, OptimizeNothing, SparkFails, Working
  <2> QED BY <2>1, PartKept DEF NextPartition
<1>4. phase'[q] \in Busy <=> phase[q] \in Busy
  BY DEF Verify, CreateSparkSession, AcquireCall, LockAcquired, StartRelease, ReleaseCall,
     BeginRewrite, OptimizeNothing, SparkFails, RetryOrFail, Busy, Working, runVars
<1>5. /\ metrics'[q].partitions_scanned = metrics[q].partitions_scanned
      /\ metrics'[q].eligible_partitions = metrics[q].eligible_partitions
      /\ metrics'[q].skipped_partitions = metrics[q].skipped_partitions
      /\ metrics'[q].compacted_partitions = metrics[q].compacted_partitions
      /\ metrics'[q].failed_partitions = metrics[q].failed_partitions
      /\ metrics'[q].lock_conflicts = metrics[q].lock_conflicts
  BY <1>1 DEF Verify, CreateSparkSession, AcquireCall, LockAcquired, StartRelease, ReleaseCall,
     BeginRewrite, OptimizeNothing, SparkFails, RetryOrFail, SetError, Metrics, runVars
<1>6. Books(q)'
  BY <1>2, <1>3, <1>4, <1>5, BooksKept DEF Counted
<1>7. Backed(q)'
  <2>1. method'[q] = "delta_optimize" => method[q] = "delta_optimize" \/ q \in UsesOptimize
    BY DEF Verify, CreateSparkSession, AcquireCall, LockAcquired, StartRelease, ReleaseCall,
       BeginRewrite, OptimizeNothing, SparkFails, RetryOrFail, runVars
  <2>2. phase'[q] = "count" => OptimizeNothing(q)
    BY DEF Verify, CreateSparkSession, AcquireCall, LockAcquired, StartRelease, ReleaseCall,
       BeginRewrite, SparkFails, RetryOrFail, runVars
  <2> QED BY <1>2, <1>3, <1>5, <2>1, <2>2 DEF Summary, Backed, OptimizeNothing
<1>8. phase'[q] \in {"verify", "scan"} => Fresh(q)'
  <2>1. phase'[q] \in {"verify", "scan"} => phase[q] \in {"verify", "scan"}
    BY DEF Verify, CreateSparkSession, AcquireCall, LockAcquired, StartRelease, ReleaseCall,
       BeginRewrite, OptimizeNothing, SparkFails, RetryOrFail, runVars
  <2> QED BY <1>2, <1>5, <2>1 DEF Summary, Fresh, Handled
<1>9. phase'[q] = "done" => metrics'[q].error
  BY <1>1, <1>2 DEF Verify, CreateSparkSession, AcquireCall, LockAcquired, StartRelease,
     ReleaseCall, BeginRewrite, OptimizeNothing, SparkFails, RetryOrFail, SetError, Over, Metrics,
     runVars
<1> QED BY <1>6, <1>7, <1>8, <1>9 DEF Summary

Summaries == \A r \in Runs : Summary(r)

LEMMA SummariesStep ==
  Typed /\ FiniteTable /\ Summaries /\ [Next]_vars => Summaries'
<1> SUFFICES ASSUME Typed, FiniteTable, Summaries, [Next]_vars PROVE Summaries'
  OBVIOUS
<1>1. ASSUME NEW q \in Runs, RunStep(q) \/ Error(q) PROVE Summaries'
  <2>1. Summary(q)
    BY DEF Summaries
  <2>2. SparkFails(q) => method[q] \in {"delta_optimize", "zorder_inspired"}
    BY DEF Typed, RunTypes
  <2>3. Summary(q)'
    BY <1>1, <2>1, <2>2, SummaryOfErrors, SummaryOfScan, SummaryOfLoop, SummaryOfOutcome,
       SummaryOfCommit, SummaryOfRest DEF RunStep, Prepare, LockWork, SparkWork
  <2>4. \A r \in Runs \ {q} : Summary(r)'
    BY <1>1, OthersBooks DEF Summaries
  <2> QED BY <2>3, <2>4 DEF Summaries
<1>2. CASE StreamAppends \/ Tick \/ UNCHANGED vars
  <2>1. UNCHANGED <<runVars, part>>
    BY <1>2 DEF StreamAppends, Tick, L!Tick, vars, lockVars
  <2> QED BY ZenonT(30), <2>1 DEF runVars, Summaries, Summary, Counted, Books, Backed, Fresh, Open, Handled
<1> QED BY <1>1, <1>2 DEF Next

LEMMA SummariesHold == Spec => [](Typed /\ Summaries)
<1>1. Init => RunTypes /\ FiniteTable
  BY FS_EmptySet DEF Init, T!Init, RunTypes, ListingOf, Busy, Working, FiniteTable, NoMetrics, Metrics
<1>2. RunInv /\ FiniteTable /\ [Next]_vars => FiniteTable'
  BY TableStep, FiniteStep DEF RunInv
<1>3. Init => LoggedSoFar
  BY DEF Init, LoggedSoFar, Over
<1>4. Init => Summaries
  <2> SUFFICES ASSUME Init, NEW r \in Runs PROVE Summary(r)
    BY DEF Summaries
  <2>1. /\ phase[r] = "verify" /\ metrics[r] = NoMetrics /\ todo[r] = {} /\ rewritten[r] = {}
        /\ method[r] = "zorder_inspired"
    BY DEF Init
  <2>2. Open(r) = {} /\ Handled(r) = {} /\ Open(r) \cup Handled(r) = {}
    BY <2>1 DEF Open, Handled, Busy, Working, NoMetrics
  <2>3. Books(r)
    BY <2>1, <2>2, FS_EmptySet DEF Books, NoMetrics, Busy, Working
  <2> QED BY <2>1, <2>2, <2>3 DEF Summary, Backed, Fresh, NoMetrics
<1> QED BY <1>1, <1>2, <1>3, <1>4, RunTypesStep, LoggedStep, RunInvHolds, SummariesStep, PTL
        DEF Spec, Typed

\* The counters of a run that ends without an error add up, whichever locks it
\* was refused and whichever rewrites failed, fell back or were done twice.
THEOREM SummaryAddsUpHolds == Spec => []SummaryAddsUp
<1>1. Typed /\ Summaries => SummaryAddsUp
  <2>1. ASSUME Typed, Summaries, NEW r \in Runs, phase[r] = "done", ~metrics[r].error
        PROVE  Books(r) /\ Open(r) = {}
    BY <2>1 DEF Summaries, Summary, Counted, Open, Busy, Working
  <2>2. ASSUME NEW r \in Runs, Books(r), Open(r) = {}
        PROVE  metrics[r].eligible_partitions =
                  Cardinality(metrics[r].compacted_partitions \cup metrics[r].failed_partitions)
    <3>1. Open(r) \cup Handled(r)
             = metrics[r].compacted_partitions \cup metrics[r].failed_partitions
      BY <2>2 DEF Handled
    <3> QED BY <2>2, <3>1 DEF Books
  <2> QED BY <2>1, <2>2 DEF SummaryAddsUp, Books
<1> QED BY <1>1, SummariesHold, PTL

\* The exit code is true of the table: 2 only if the run changed nothing, 0 only
\* if it compacted something, by a commit of its own or by OPTIMIZE's judgement.
THEOREM ExitCodeHonestHolds == Spec => []ExitCodeHonest
<1>1. Typed /\ Summaries => ExitCodeHonest
  <2> SUFFICES ASSUME Typed, Summaries, NEW r \in Runs, phase[r] = "done"
               PROVE  /\ ExitCode(metrics[r]) = 2 => rewritten[r] = {}
                      /\ ExitCode(metrics[r]) = 0 => metrics[r].compacted_partitions # {}
                      /\ metrics[r].compacted_partitions \ rewritten[r] # {} => r \in UsesOptimize
    BY DEF ExitCodeHonest
  <2>1. Backed(r)
    BY DEF Summaries, Summary
  <2>2. CASE metrics[r].error
    BY <2>1, <2>2 DEF ExitCode, Backed
  <2>3. CASE ~metrics[r].error
    <3>1. Books(r) /\ Open(r) = {}
      BY <2>3 DEF Summaries, Summary, Counted, Open, Busy, Working
    <3>2. /\ Handled(r) \in SUBSET Partitions
          /\ metrics[r].eligible_partitions = Cardinality(Handled(r))
          /\ rewritten[r] \subseteq Handled(r)
      BY <3>1, FiniteBooks DEF Books, Handled, Metrics
    <3>3. metrics[r].eligible_partitions = 0 <=> Handled(r) = {}
      BY <3>2, FiniteBooks, FS_EmptySet
    <3> QED BY <2>1, <2>3, <3>2, <3>3 DEF ExitCode, Backed, Handled
  <2> QED BY <2>2, <2>3
<1> QED BY <1>1, SummariesHold, PTL

(***************************************************************************)
(* What is committed is reported                                           *)
(***************************************************************************)

\* Only the partition in hand may be rewritten and not yet be named.
Told(r) ==
    rewritten[r] \subseteq Handled(r) \cup IF phase[r] \in Working THEN {part[r]} ELSE {}

\* A run that was killed tells nothing.
ToldInv == \A r \in Runs : phase[r] # "dead" => Told(r)

LEMMA ToldOwn ==
  ASSUME Typed, NEW q \in Runs, RunStep(q) \/ Error(q), Told(q), phase[q] \notin Over
  PROVE  Told(q)' \/ phase'[q] = "dead"
<1> USE DEF Typed, RunInv, PhaseOK, RunTypes, LoggedSoFar, GoTo, Finalize
<1>1. metrics[q] \in Metrics
  BY FiniteBooks
<1>2. CASE LockRefused(q) \/ LockAcquired(q)
  <2>1. /\ phase[q] \notin Working /\ rewritten'[q] = rewritten[q]
        /\ metrics'[q].compacted_partitions = metrics[q].compacted_partitions
        /\ metrics[q].failed_partitions \subseteq metrics'[q].failed_partitions
    BY <1>1, <1>2 DEF LockRefused, LockAcquired, Metrics, Working
  <2> QED BY <2>1 DEF Told, Handled
<1>3. CASE BeginRewrite(q) \/ OptimizeNothing(q) \/ CommitRewrite(q)
  <2>1. /\ phase[q] \in Working /\ phase'[q] \in Working /\ metrics' = metrics
        /\ rewritten'[q] \subseteq rewritten[q] \cup {part[q]}
    BY <1>3 DEF BeginRewrite, OptimizeNothing, CommitRewrite, Working
  <2>2. part'[q] = part[q]
    BY <2>1, PartKept DEF NextPartition, Working
  <2> QED BY <2>1, <2>2 DEF Told, Handled
<1>4. CASE CountFiles(q)
  <2>1. /\ phase[q] = "count" /\ phase'[q] = "release" /\ rewritten'[q] = rewritten[q]
        /\ metrics'[q].compacted_partitions = metrics[q].compacted_partitions \cup {part[q]}
        /\ metrics'[q].failed_partitions = metrics[q].failed_partitions
    BY <1>1, <1>4 DEF CountFiles, Metrics
  <2> QED BY <2>1 DEF Told, Handled, Working
<1>5. CASE SparkFails(q)
  <2>1. phase[q] \in Working /\ rewritten'[q] = rewritten[q] /\ RetryOrFail(q)
    BY <1>5 DEF SparkFails, RetryOrFail
  <2>2. part'[q] = part[q]
    BY <1>5, <2>1, PartKept DEF NextPartition, Working
  <2>3. CASE metrics' = metrics /\ phase'[q] = "rewrite"
    BY <2>1, <2>2, <2>3 DEF Told, Handled, Working
  <2>4. CASE FailPartition(q) /\ phase'[q] = "release"
    <3>1. /\ metrics'[q].compacted_partitions = metrics[q].compacted_partitions
          /\ metrics'[q].failed_partitions = metrics[q].failed_partitions \cup {part[q]}
      BY <1>1, <2>4 DEF FailPartition, Metrics
    <3> QED BY <2>1, <2>4, <3>1 DEF Told, Handled
  <2> QED BY <2>1, <2>3, <2>4 DEF RetryOrFail
<1>6. CASE \/ Prepare(q) \/ FinishRun(q) \/ NextPartition(q) \/ AcquireCall(q)
           \/ StartRelease(q) \/ ReleaseCall(q)
  <2>1. /\ phase[q] \notin Working /\ rewritten' = rewritten
        /\ metrics'[q].compacted_partitions = metrics[q].compacted_partitions
        /\ metrics'[q].failed_partitions = metrics[q].failed_partitions
    <3>1. CASE Prepare(q)
      <4>1. phase[q] \notin Working /\ rewritten' = rewritten
        BY <3>1 DEF Prepare, Verify, TableNotFound, Scan, TargetNotFound, CreateSparkSession,
           Working
      <4>2. CASE metrics' = metrics \/ SetError(q)
        BY <1>1, <4>1, <4>2 DEF SetError, Metrics
      <4>3. CASE Scan(q)
        BY <1>1, <4>1, <4>3 DEF Scan, SelectedMetrics, Metrics
      <4>4. CASE TargetNotFound(q)
        BY <1>1, <4>1, <4>4 DEF TargetNotFound, Metrics
      <4> QED BY <3>1, <4>2, <4>3, <4>4 DEF Prepare, Verify, TableNotFound, CreateSparkSession
    <3>2. CASE \/ FinishRun(q) \/ NextPartition(q) \/ AcquireCall(q)
               \/ StartRelease(q) \/ ReleaseCall(q)
      BY <3>2 DEF FinishRun, NextPartition, AcquireCall, StartRelease, ReleaseCall, Working, runVars
    <3> QED BY <1>6, <3>1, <3>2
  <2> QED BY <2>1 DEF Told, Handled
<1>7. CASE VerifyFails(q) \/ ScanFails(q) \/ LockCallRaises(q)
  <2>1. phase[q] \notin Working /\ rewritten' = rewritten
    BY <1>7 DEF VerifyFails, ScanFails, LockCallRaises, RaiseOut, Working
  <2>2. metrics' = metrics \/ SetError(q)
    BY <1>7 DEF VerifyFails, ScanFails, LockCallRaises, RaiseOut
  <2>3. /\ metrics'[q].compacted_partitions = metrics[q].compacted_partitions
        /\ metrics'[q].failed_partitions = metrics[q].failed_partitions
    BY <1>1, <2>2 DEF SetError, Metrics
  <2> QED BY <2>1, <2>3 DEF Told, Handled
<1>8. CASE Crash(q)
  BY <1>8 DEF Crash
<1> QED BY <1>2, <1>3, <1>4, <1>5, <1>6, <1>7, <1>8 DEF RunStep, LockWork, SparkWork, Error

LEMMA RewrittenOfOne ==
  ASSUME Typed, NEW q \in Runs, RunStep(q) \/ Error(q), NEW r \in Runs \ {q}
  PROVE  rewritten'[r] = rewritten[r]
<1>1. rewritten' = rewritten \/ CommitRewrite(q)
  BY DEF RunStep, Error, Prepare, LockWork, SparkWork, Verify, TableNotFound, Scan,
     TargetNotFound, CreateSparkSession, NextPartition, AcquireCall, LockRefused, LockAcquired,
     StartRelease, ReleaseCall, BeginRewrite, OptimizeNothing, CountFiles, SparkFails,
     RetryOrFail, FinishRun, VerifyFails, ScanFails, LockCallRaises, RaiseOut, Crash, runVars
<1> QED BY <1>1 DEF CommitRewrite, Typed, LoggedSoFar

\* A run that is over takes no step any more.
LEMMA OverIsOver ==
  ASSUME Typed, NEW q \in Runs, RunStep(q) \/ Error(q)
  PROVE  phase[q] \notin Over
BY DEF RunStep, Error, Prepare, LockWork, SparkWork, Verify, TableNotFound, Scan,
   TargetNotFound, CreateSparkSession, NextPartition, AcquireCall, LockRefused, LockAcquired,
   StartRelease, ReleaseCall, BeginRewrite, OptimizeNothing, CommitRewrite, CountFiles,
   SparkFails, FinishRun, VerifyFails, ScanFails, LockCallRaises, Crash, Over, Working

LEMMA ToldStep == Typed /\ ToldInv /\ [Next]_vars => ToldInv'
<1> SUFFICES ASSUME Typed, ToldInv, [Next]_vars, NEW r \in Runs, phase'[r] # "dead"
             PROVE  Told(r)'
  BY DEF ToldInv
<1>1. ASSUME NEW q \in Runs, RunStep(q) \/ Error(q) PROVE Told(r)'
  <2>1. CASE q = r
    <3>1. phase[r] \notin Over
      BY <1>1, <2>1, OverIsOver
    <3>2. Told(r)
      BY <3>1 DEF ToldInv, Over
    <3> QED BY <1>1, <2>1, <3>1, <3>2, ToldOwn
  <2>2. CASE q # r
    BY <1>1, <2>2, OneRun, RewrittenOfOne DEF Typed, ToldInv, Told, Handled
  <2> QED BY <2>1, <2>2
<1>2. CASE StreamAppends \/ Tick \/ UNCHANGED vars
  <2>1. UNCHANGED <<runVars, part>>
    BY <1>2 DEF StreamAppends, Tick, L!Tick, vars, lockVars
  <2> QED BY <2>1 DEF runVars, ToldInv, Told, Handled
<1> QED BY <1>1, <1>2 DEF Next

\* Whatever fails after a commit, the count, the second method or the release, a
\* run that was not killed names the partition as compacted or as failed.
THEOREM WorkIsReportedHolds == Spec => []WorkIsReported
<1>1. Init => ToldInv
  BY DEF Init, ToldInv, Told
<1>2. ToldInv => WorkIsReported
  BY DEF ToldInv, Told, Handled, WorkIsReported, Working
<1> QED BY <1>1, <1>2, ToldStep, SummariesHold, PTL DEF Spec

(***************************************************************************)
(* Files before and after                                                  *)
(***************************************************************************)

\* Nothing that the scan listed has left the bucket since.
Grown(r) ==
    \A p \in DOMAIN listing[r] : Cardinality(listing[r][p]) <= Cardinality(T!StoredIn(p))

\* Without a failed partition, the files counted before are counted again after,
\* those of the partition in hand excepted.
Filed(r) ==
    phase[r] \notin {"raised", "dead"} /\ metrics[r].failed_partitions = {} =>
        metrics[r].files_before <= metrics[r].files_after
            + IF phase[r] \in Working THEN Cardinality(listing[r][part[r]]) ELSE 0

FilesInv == \A r \in Runs : Grown(r) /\ Filed(r)

LEMMA ListedFewer ==
  ASSUME FiniteTable, T!TypeOK, NEW p
  PROVE  Cardinality(Listed(p)) <= Cardinality(T!StoredIn(p))
<1> DEFINE info == [f \in T!StoredIn(p) |-> [key |-> <<f.txn, f.idx>>,
                       size_bytes |-> Cardinality(f.rows), last_modified |-> f.at]]
<1>1. Listed(p) = {info[f] : f \in T!StoredIn(p)}
  BY DEF Listed
<1>2. info \in Surjection(T!StoredIn(p), Listed(p))
  BY <1>1 DEF Surjection
<1> HIDE DEF info
<1> QED BY <1>2, ListedType, FS_Surjection

LEMMA StoredGrows ==
  ASSUME Typed, FiniteTable', [Next]_vars, NEW p
  PROVE  /\ IsFiniteSet(T!StoredIn(p)) /\ IsFiniteSet(T!StoredIn(p)')
         /\ Cardinality(T!StoredIn(p)) \in Nat /\ Cardinality(T!StoredIn(p)') \in Nat
         /\ Cardinality(T!StoredIn(p)) <= Cardinality(T!StoredIn(p)')
<1>1. T!StoredIn(p) \subseteq T!StoredIn(p)'
  BY OnlyForward DEF T!StoredIn, Typed
<1>2. IsFiniteSet(T!StoredIn(p)')
  BY FS_Subset DEF FiniteTable, T!StoredIn
<1> QED BY <1>1, <1>2, FS_Subset, FS_CardinalityType

\* Only its own scan changes what a run has listed.
LEMMA ListingKept ==
  ASSUME Typed, [Next]_vars, NEW r \in Runs
  PROVE  listing'[r] = listing[r] \/ Scan(r)
<1>1. ASSUME NEW q \in Runs, RunStep(q) \/ Error(q) PROVE listing'[r] = listing[r] \/ Scan(r)
  <2>1. CASE q = r
    BY <1>1, <2>1 DEF RunStep, Error, Prepare, LockWork, SparkWork, Verify, TableNotFound,
       TargetNotFound, CreateSparkSession, NextPartition, AcquireCall, LockRefused,
       LockAcquired, StartRelease, ReleaseCall, BeginRewrite, OptimizeNothing, CommitRewrite,
       CountFiles, SparkFails, RetryOrFail, FinishRun, VerifyFails, ScanFails, LockCallRaises,
       RaiseOut, Crash, runVars
  <2>2. CASE q # r
    BY <1>1, <2>2, OneRun DEF Typed
  <2> QED BY <2>1, <2>2
<1>2. CASE StreamAppends \/ Tick \/ UNCHANGED vars
  BY <1>2 DEF StreamAppends, Tick, vars, runVars
<1> QED BY <1>1, <1>2 DEF Next

LEMMA GrownStep ==
  ASSUME Typed, FiniteTable, FiniteTable', FilesInv, [Next]_vars, NEW r \in Runs
  PROVE  Grown(r)'
<1>1. CASE listing'[r] = listing[r]
  <2> SUFFICES ASSUME NEW p \in DOMAIN listing[r]
               PROVE  Cardinality(listing[r][p]) <= Cardinality(T!StoredIn(p)')
    BY <1>1 DEF Grown
  <2>1. Cardinality(listing[r][p]) \in Nat
    BY FS_CardinalityType DEF Typed, RunTypes, ListingOf
  <2>2. Cardinality(listing[r][p]) <= Cardinality(T!StoredIn(p))
    BY DEF FilesInv, Grown
  <2> QED BY <2>1, <2>2, StoredGrows
<1>2. CASE Scan(r)
  <2> SUFFICES ASSUME NEW p \in DOMAIN listing'[r]
               PROVE  Cardinality(listing'[r][p]) <= Cardinality(T!StoredIn(p)')
    BY DEF Grown
  <2>1. listing'[r] = ScanPartitions
    BY <1>2 DEF Scan, Typed, RunTypes
  <2>2. listing'[r][p] = Listed(p)
    BY <2>1 DEF ScanPartitions
  <2>3. T!TypeOK
    BY DEF Typed, RunInv
  <2>4. Cardinality(Listed(p)) \in Nat
    BY <2>3, ListedType, FS_CardinalityType
  <2> QED BY <2>2, <2>3, <2>4, ListedFewer, StoredGrows
<1> QED BY <1>1, <1>2, ListingKept

\* A run's own steps. It books its files when it has the lock and when it has
\* counted them again.
LEMMA FiledOwn ==
  ASSUME Typed, FiniteTable, FilesInv, NEW q \in Runs, RunStep(q) \/ Error(q)
  PROVE  Filed(q)'
<1> USE DEF Typed, RunInv, PhaseOK, RunTypes, GoTo, Finalize
<1>1. metrics[q] \in Metrics /\ Filed(q) /\ Grown(q)
  BY FiniteBooks DEF FilesInv
<1>2. CASE \/ Error(q) \/ LockRefused(q)
           \/ SparkFails(q) /\ method[q] = "zorder_inspired"
  <2>1. phase'[q] \in {"raised", "dead"} \/ metrics'[q].failed_partitions # {}
    <3>1. CASE Error(q)
      BY <3>1 DEF Error, VerifyFails, ScanFails, LockCallRaises, RaiseOut, Crash
    <3>2. CASE LockRefused(q)
      BY <1>1, <3>2 DEF LockRefused, Metrics
    <3>3. CASE SparkFails(q) /\ method[q] = "zorder_inspired"
      <4>1. FailPartition(q)
        BY <3>3 DEF SparkFails, RetryOrFail
      <4>2. metrics'[q].failed_partitions = metrics[q].failed_partitions \cup {part[q]}
        BY <1>1, <4>1 DEF FailPartition, Metrics
      <4> QED BY <4>2
    <3> QED BY <1>2, <3>1, <3>2, <3>3
  <2> QED BY <2>1 DEF Filed
<1>3. CASE LockAcquired(q)
  <2>1. /\ phase[q] = "acquire" /\ phase'[q] = "rewrite" /\ UNCHANGED listing
        /\ metrics'[q].files_before = metrics[q].files_before + Cardinality(listing[q][part[q]])
        /\ metrics'[q].files_after = metrics[q].files_after
        /\ metrics'[q].failed_partitions = metrics[q].failed_partitions
    BY <1>1, <1>3 DEF LockAcquired, Metrics
  <2>2. part'[q] = part[q]
    BY <1>3, <2>1, PartKept DEF RunStep, LockWork, NextPartition
  <2>3. Cardinality(listing[q][part[q]]) \in Nat
    BY <2>1, FS_CardinalityType DEF ListingOf, Busy
  <2> QED BY <1>1, <2>1, <2>2, <2>3 DEF Filed, Working, Metrics
<1>4. CASE CountFiles(q)
  <2>1. /\ phase[q] = "count" /\ phase'[q] = "release"
        /\ metrics'[q].files_before = metrics[q].files_before
        /\ metrics'[q].files_after = metrics[q].files_after + Cardinality(T!StoredIn(part[q]))
        /\ metrics'[q].failed_partitions = metrics[q].failed_partitions
    BY <1>1, <1>4 DEF CountFiles, Metrics
  <2>2. part[q] \in DOMAIN listing[q]
    BY <2>1 DEF ListingOf, Busy, Working
  <2>3. Cardinality(listing[q][part[q]]) \in Nat /\ Cardinality(T!StoredIn(part[q])) \in Nat
    BY <2>2, ListedType, FS_CardinalityType DEF ListingOf
  <2>4. Cardinality(listing[q][part[q]]) <= Cardinality(T!StoredIn(part[q]))
    BY <1>1, <2>2 DEF Grown
  <2> QED BY <1>1, <2>1, <2>3, <2>4 DEF Filed, Working, Metrics
<1>5. CASE \/ BeginRewrite(q) \/ OptimizeNothing(q) \/ CommitRewrite(q)
           \/ SparkFails(q) /\ method[q] = "delta_optimize"
  <2>1. phase[q] \in Working /\ phase'[q] \in Working /\ UNCHANGED <<listing, metrics>>
    BY <1>5 DEF BeginRewrite, OptimizeNothing, CommitRewrite, SparkFails, RetryOrFail, Working
  <2>2. part'[q] = part[q]
    BY <2>1, PartKept DEF NextPartition, Working
  <2> QED BY <1>1, <2>1, <2>2 DEF Filed, Working
<1>6. CASE \/ Prepare(q) \/ FinishRun(q) \/ NextPartition(q) \/ AcquireCall(q)
           \/ StartRelease(q) \/ ReleaseCall(q)
  <2>1. /\ phase[q] \notin Working \cup {"raised", "dead"} /\ phase'[q] \notin Working
        /\ metrics'[q].files_before = metrics[q].files_before
        /\ metrics'[q].files_after = metrics[q].files_after
        /\ metrics'[q].failed_partitions = metrics[q].failed_partitions
    <3>1. CASE Prepare(q)
      <4>1. /\ phase[q] \notin Working \cup {"raised", "dead"} /\ phase'[q] \notin Working
        BY <3>1 DEF Prepare, Verify, TableNotFound, Scan, TargetNotFound, CreateSparkSession,
           Working
      <4>2. CASE metrics' = metrics \/ SetError(q)
        BY <1>1, <4>1, <4>2 DEF SetError, Metrics
      <4>3. CASE Scan(q)
        BY <1>1, <4>1, <4>3 DEF Scan, SelectedMetrics, Metrics
      <4>4. CASE TargetNotFound(q)
        BY <1>1, <4>1, <4>4 DEF TargetNotFound, Metrics
      <4> QED BY <3>1, <4>2, <4>3, <4>4 DEF Prepare, Verify, TableNotFound, CreateSparkSession
    <3>2. CASE \/ FinishRun(q) \/ NextPartition(q) \/ AcquireCall(q)
               \/ StartRelease(q) \/ ReleaseCall(q)
      BY <3>2 DEF FinishRun, NextPartition, AcquireCall, StartRelease, ReleaseCall, Working, runVars
    <3> QED BY <1>6, <3>1, <3>2
  <2> QED BY <1>1, <2>1 DEF Filed
<1>7. method[q] = "delta_optimize" \/ method[q] = "zorder_inspired"
  OBVIOUS
<1>8. \/ Prepare(q) \/ LockWork(q) \/ SparkWork(q) \/ FinishRun(q) \/ Error(q)
  BY DEF RunStep
<1>9. CASE LockWork(q)
  BY <1>2, <1>3, <1>6, <1>9 DEF LockWork
<1>10. CASE SparkWork(q)
  BY <1>2, <1>4, <1>5, <1>7, <1>10 DEF SparkWork
<1> QED BY <1>2, <1>6, <1>8, <1>9, <1>10

LEMMA FilesStep ==
  Typed /\ FiniteTable /\ FiniteTable' /\ FilesInv /\ [Next]_vars => FilesInv'
<1> SUFFICES ASSUME Typed, FiniteTable, FiniteTable', FilesInv, [Next]_vars, NEW r \in Runs
             PROVE  Filed(r)'
  BY GrownStep DEF FilesInv
<1>1. ASSUME NEW q \in Runs, RunStep(q) \/ Error(q) PROVE Filed(r)'
  <2>1. CASE q = r
    BY <1>1, <2>1, FiledOwn
  <2>2. CASE q # r
    BY <1>1, <2>2, OneRun DEF Typed, FilesInv, Filed
  <2> QED BY <2>1, <2>2
<1>2. CASE StreamAppends \/ Tick \/ UNCHANGED vars
  <2>1. UNCHANGED <<runVars, part>>
    BY <1>2 DEF StreamAppends, Tick, L!Tick, vars, lockVars
  <2> QED BY <2>1 DEF runVars, FilesInv, Filed
<1> QED BY <1>1, <1>2 DEF Next

\* A run that reports fewer files than before has failed on a partition: the
\* files it replaced are still in the bucket when it counts again.
THEOREM FilesReducedOnlyByFailureHolds == Spec => []FilesReducedOnlyByFailure
<1>1. Init => FilesInv /\ FiniteTable
  <2>1. Init => FiniteTable
    BY FS_EmptySet DEF Init, T!Init, FiniteTable
  <2>2. Init => FilesInv
    BY DEF Init, FilesInv, Grown, Filed, Working, NoMetrics
  <2> QED BY <2>1, <2>2
<1>2. Typed /\ FiniteTable /\ [Next]_vars => FiniteTable'
  BY TableStep, FiniteStep DEF Typed, RunInv
<1>3. Typed /\ FilesInv => FilesReducedOnlyByFailure
  <2> SUFFICES ASSUME Typed, FilesInv, NEW r \in Runs, phase[r] = "done",
                      metrics[r].failed_partitions = {}
               PROVE  ~(metrics[r].files_after < metrics[r].files_before)
    BY DEF FilesReducedOnlyByFailure
  <2>1. metrics[r] \in Metrics
    BY FiniteBooks
  <2> QED BY <2>1 DEF FilesInv, Filed, Working, Metrics
<1> QED BY <1>1, <1>2, <1>3, FilesStep, SummariesHold, PTL DEF Spec

(***************************************************************************)
(* A table that is there stays there                                       *)
(***************************************************************************)

\* No file is empty.
Solid ==
    /\ \A i \in DOMAIN log : \A f \in log[i].out : f.rows # {}
    /\ \A w \in DOMAIN txn : T!Writing(w) => \A f \in txn[w].out : f.rows # {}

LEMMA SolidLive ==
  ASSUME T!TypeOK, Solid, NEW f \in live
  PROVE  f.rows # {}
  BY DEF T!TypeOK, T!Snapshot, Solid

LEMMA SolidBegin ==
  ASSUME T!TypeOK, Solid, NEW w, NEW base, NEW out, T!Begin(w, base, out),
         \A f \in out : f.rows # {}
  PROVE  Solid' /\ log' = log /\ overwritten' = overwritten
<1>1. DOMAIN txn' = DOMAIN txn /\ log' = log /\ overwritten' = overwritten
  BY DEF T!Begin, T!logVars
<1>2. \A v \in DOMAIN txn : txn'[v] = txn[v] \/ (v = w /\ txn'[v].out = out)
  BY DEF T!Begin, T!Transaction
<1>3. \A v \in DOMAIN txn : T!Writing(v)' => txn'[v].out = out \/ (T!Writing(v) /\ txn'[v] = txn[v])
  BY <1>2 DEF T!Writing
<1> QED BY <1>1, <1>3 DEF Solid

LEMMA SolidCommit ==
  ASSUME T!TypeOK, Solid, NEW w \in DOMAIN txn, T!Commit(w)
  PROVE  Solid' /\ log' # <<>> /\ overwritten \subseteq overwritten'
<1>1. /\ T!Writing(w) /\ txn[w] \in T!Txn /\ log \in Seq(T!Txn)
      /\ \A f \in txn[w].out : f.rows # {}
  BY DEF T!Commit, T!AddEntry, T!OverwriteEntry, T!CanCommit, T!TypeOK, T!Writing, Solid
<1>2. \A v \in DOMAIN txn' : v \in DOMAIN txn /\ (T!Writing(v)' => T!Writing(v) /\ txn'[v] = txn[v])
  BY DEF T!Commit, T!AddEntry, T!OverwriteEntry, T!End, T!Writing
<1>3. CASE T!AddEntry(w)
  <2>1. log' = Append(log, txn[w]) /\ overwritten' = overwritten
    BY <1>3 DEF T!AddEntry
  <2>2. /\ log' # <<>> /\ DOMAIN log' = 1..(Len(log) + 1) /\ DOMAIN log = 1..Len(log)
        /\ Len(log) \in Nat
        /\ \A i \in 1..Len(log) : log'[i] = log[i]
        /\ log'[Len(log) + 1] = txn[w]
    BY <1>1, <2>1, AppendProperties
  <2>3. \A i \in DOMAIN log' : i \in DOMAIN log \/ i = Len(log) + 1
    BY <2>2
  <2> QED BY <1>1, <1>2, <2>1, <2>2, <2>3 DEF Solid
<1>4. CASE T!OverwriteEntry(w)
  <2>1. PICK k \in (txn[w].read + 1)..Len(log) :
           /\ log' = [log EXCEPT ![k] = txn[w]]
           /\ overwritten \subseteq overwritten'
    BY <1>4 DEF T!OverwriteEntry
  <2>2. txn[w].read \in Nat /\ Len(log) \in Nat /\ DOMAIN log = 1..Len(log)
    BY <1>1, LenProperties DEF T!Txn
  <2>3. k \in 1..Len(log)
    BY <2>2
  <2>4. DOMAIN log' = DOMAIN log /\ log'[k] = txn[w]
        /\ \A i \in DOMAIN log : i # k => log'[i] = log[i]
    BY <2>1, <2>2, <2>3
  <2>5. log' # <<>>
    BY <2>2, <2>3, <2>4
  <2> QED BY <1>1, <1>2, <2>1, <2>4, <2>5 DEF Solid
<1> QED BY <1>3, <1>4 DEF T!Commit

LEMMA TableStays ==
  ASSUME T!TypeOK, Solid, [T!Next]_(T!tableVars)
  PROVE  Solid' /\ (log # <<>> => log' # <<>>) /\ overwritten \subseteq overwritten'
<1>1. ASSUME NEW w, NEW P \in SUBSET Partitions, NEW now, T!WriteAppend(w, P, now)
      PROVE  Solid' /\ log' = log /\ overwritten' = overwritten
  <2> DEFINE out == {T!AppendFile(nextTxn, p, now) : p \in P}
  <2>1. T!Begin(w, {}, out)
    BY <1>1 DEF T!WriteAppend
  <2>2. \A p \in P : T!AppendFile(nextTxn, p, now).rows # {}
    BY DEF T!AppendFile
  <2>3. \A f \in out : f.rows # {}
    BY <2>2
  <2> HIDE DEF out
  <2> QED BY <2>1, <2>3, SolidBegin
<1>2. ASSUME NEW w, NEW p, NEW n \in 1..MaxFiles, NEW now, T!WriteRewrite(w, p, n, now)
      PROVE  Solid' /\ log' = log /\ overwritten' = overwritten
  <2>1. \A f \in T!Rewritten(p, n, now) : f.rows # {}
    BY DEF T!Rewritten
  <2>2. T!Begin(w, T!LiveIn(p), T!Rewritten(p, n, now))
    BY <1>2 DEF T!WriteRewrite
  <2> QED BY <2>1, <2>2, SolidBegin
<1>3. ASSUME NEW w, T!End(w)
      PROVE  \A v \in DOMAIN txn' : v \in DOMAIN txn /\ (T!Writing(v)' => T!Writing(v) /\ txn'[v] = txn[v])
  BY <1>3 DEF T!End, T!Writing
<1>4. ASSUME NEW w, T!Conflict(w) \/ T!Abandon(w)
      PROVE  Solid' /\ log' = log /\ overwritten' = overwritten
  BY <1>3, <1>4 DEF T!Conflict, T!Abandon, Solid, T!logVars
<1>5. CASE UNCHANGED T!tableVars
  BY <1>5 DEF T!tableVars, Solid, T!Writing
<1>6. CASE T!Next
  BY <1>1, <1>2, <1>4, <1>6, SolidCommit DEF T!Next, T!TypeOK
<1> QED BY <1>5, <1>6 DEF T!tableVars

\* A run that has found the table can count on it.
Seen == Solid /\ \A r \in Runs : phase[r] = "scan" => log # <<>>

(***************************************************************************)
(* A dry run is a forecast                                                 *)
(***************************************************************************)

\* Before the scan a run has counted nothing.
Untouched == \A r \in Runs : phase[r] \in {"verify", "scan"} => metrics[r] = NoMetrics

\* The only steps of a run that look at the bucket, and those that may follow
\* the first look without touching the counters.
LEMMA OnlyLooks ==
  ASSUME PhaseOK, NEW r \in Runs, RunStep(r) \/ Error(r), phase[r] \in {"verify", "scan"}
  PROVE  \/ Verify(r)
         \/ TableNotFound(r) \/ Scan(r) \/ TargetNotFound(r)
         \/ phase'[r] \in {"raised", "dead"}
<1>1. CASE Prepare(r)
  BY <1>1 DEF Prepare, CreateSparkSession
<1>2. CASE LockWork(r) \/ SparkWork(r) \/ FinishRun(r)
  BY <1>2 DEF LockWork, NextPartition, AcquireCall, LockRefused, LockAcquired, StartRelease,
     ReleaseCall, SparkWork, BeginRewrite, OptimizeNothing, CommitRewrite, CountFiles,
     SparkFails, FinishRun, Working
<1>3. CASE Error(r)
  BY <1>3 DEF Error, VerifyFails, ScanFails, RaiseOut, LockCallRaises, Crash, GoTo, Finalize,
     PhaseOK, Working
<1> QED BY <1>1, <1>2, <1>3 DEF RunStep

LEMMA NoReturn ==
  ASSUME PhaseOK, NEW r \in Runs, RunStep(r) \/ Error(r), phase'[r] \in {"verify", "scan"}
  PROVE  Verify(r)
<1>1. CASE phase[r] \in {"verify", "scan"}
  BY <1>1, OnlyLooks DEF TableNotFound, Scan, TargetNotFound, GoTo, Finalize, PhaseOK
<1>2. CASE phase[r] \notin {"verify", "scan"}
  <2> USE DEF GoTo, Finalize, PhaseOK
  <2>1. CASE Prepare(r) \/ FinishRun(r)
    BY <1>2, <2>1 DEF Prepare, Verify, TableNotFound, Scan, TargetNotFound,
       CreateSparkSession, FinishRun
  <2>2. CASE LockWork(r)
    BY <1>2, <2>2 DEF LockWork, NextPartition, AcquireCall, LockRefused, LockAcquired,
       StartRelease, ReleaseCall, runVars
  <2>3. CASE SparkWork(r)
    BY <1>2, <2>3 DEF SparkWork, BeginRewrite, OptimizeNothing, CommitRewrite, CountFiles,
       SparkFails, RetryOrFail
  <2>4. CASE Error(r)
    BY <1>2, <2>4 DEF Error, VerifyFails, ScanFails, LockCallRaises, RaiseOut, Crash
  <2> QED BY <2>1, <2>2, <2>3, <2>4 DEF RunStep
<1> QED BY <1>1, <1>2

LEMMA UntouchedStep == Typed /\ Untouched /\ [Next]_vars => Untouched'
<1> SUFFICES ASSUME Typed, Untouched, [Next]_vars, NEW r \in Runs,
                    phase'[r] \in {"verify", "scan"}
             PROVE  metrics'[r] = NoMetrics
  BY DEF Untouched
<1>1. ASSUME NEW q \in Runs, RunStep(q) \/ Error(q) PROVE metrics'[r] = NoMetrics
  <2>1. CASE q = r
    <3>1. Verify(r)
      BY <1>1, <2>1, NoReturn DEF Typed, RunInv
    <3> QED BY <3>1 DEF Verify, Untouched
  <2>2. CASE q # r
    BY <1>1, <2>2, OneRun DEF Typed, Untouched
  <2> QED BY <2>1, <2>2
<1>2. CASE StreamAppends \/ Tick \/ UNCHANGED vars
  BY <1>2 DEF StreamAppends, Tick, vars, runVars, Untouched
<1> QED BY <1>1, <1>2 DEF Next

LEMMA SeenStep == Typed /\ Seen /\ [Next]_vars => Seen'
<1> SUFFICES ASSUME Typed, Seen, [Next]_vars PROVE Seen'
  OBVIOUS
<1>1. Solid' /\ (log # <<>> => log' # <<>>)
  BY TableStep, TableStays DEF Typed, RunInv, Seen
<1>2. ASSUME NEW r \in Runs, phase'[r] = "scan" PROVE log' # <<>>
  <2>1. ASSUME NEW q \in Runs, RunStep(q) \/ Error(q) PROVE log' # <<>>
    <3>1. CASE q = r
      <4>1. Verify(r)
        BY <1>2, <2>1, <3>1, NoReturn DEF Typed, RunInv
      <4> QED BY <1>1, <4>1 DEF Verify
    <3>2. CASE q # r
      BY <1>1, <1>2, <2>1, <3>2, PhaseOfOne DEF Typed, RunInv, Seen
    <3> QED BY <3>1, <3>2
  <2>2. CASE StreamAppends \/ Tick \/ UNCHANGED vars
    BY <1>1, <1>2, <2>2 DEF StreamAppends, Tick, vars, runVars, Seen
  <2> QED BY <2>1, <2>2 DEF Next
<1> QED BY <1>1, <1>2 DEF Seen

LEMMA SeenInit == Init => Seen
  BY DEF Init, T!Init, Seen, Solid, T!Writing

\* The table is not there: both say so.
LEMMA ForecastNoTable ==
  ASSUME Typed, NEW r \in Runs, metrics[r] = NoMetrics, TableNotFound(r)
  PROVE  Forecast(r)
<1>1. metrics'[r] = [NoMetrics EXCEPT !.error = TRUE]
  BY DEF TableNotFound, SetError, Typed, RunTypes
<1>2. DryRunMetrics(r) = [NoMetrics EXCEPT !.error = TRUE]
  BY DEF TableNotFound, DryRunMetrics
<1>3. metrics'[r] = DryRunMetrics(r) /\ metrics'[r].error
  BY <1>1, <1>2 DEF NoMetrics
<1> HIDE DEF DryRunMetrics
<1> QED BY <1>3 DEF Forecast

\* The partition is not there: both say so.
LEMMA ForecastNoPartition ==
  ASSUME Typed, NEW r \in Runs, metrics[r] = NoMetrics, TargetNotFound(r), log # <<>>
  PROVE  Forecast(r)
<1> DEFINE scanned == Cardinality(DOMAIN ScanPartitions)
           found == [NoMetrics EXCEPT !.partitions_scanned = scanned, !.error = TRUE]
<1>1. metrics'[r] = found
  BY DEF TargetNotFound, Typed, RunTypes
<1>2. DryRunMetrics(r) = found
  BY DEF TargetNotFound, DryRunMetrics, NotFound
<1>3. found.error
  BY DEF NoMetrics
<1> HIDE DEF found
<1> QED BY <1>1, <1>2, <1>3 DEF Forecast

\* Otherwise they select the same partitions of the same listing.
LEMMA ForecastScan ==
  ASSUME Typed, NEW r \in Runs, metrics[r] = NoMetrics, Scan(r), log # <<>>
  PROVE  Forecast(r)
<1> DEFINE scan == ScanPartitions
           eligible == DryRunEligible(r)
           skipped == IF target[r] = All THEN Cardinality(DOMAIN scan) - Cardinality(eligible)
                      ELSE 0
           after == SumFunction([p \in eligible |->
                                   EstimateOutputFileCount(TotalBytes(Listed(p)))])
           files == FileCount(scan, eligible)
           dry == [NoMetrics EXCEPT !.partitions_scanned = Cardinality(DOMAIN scan),
                                    !.eligible_partitions = Cardinality(eligible),
                                    !.skipped_partitions = skipped,
                                    !.files_before = files,
                                    !.files_after = after]
           run == [NoMetrics EXCEPT !.partitions_scanned = Cardinality(DOMAIN scan),
                                    !.eligible_partitions = Cardinality(eligible),
                                    !.skipped_partitions = skipped]
<1>1. EligibleFor(r) = eligible
  BY DEF EligibleFor, DryRunEligible
<1>2. metrics'[r] = run
  BY <1>1 DEF Scan, SelectedMetrics, Typed, RunTypes
<1>3. listing'[r] = scan
  BY DEF Scan, Typed, RunTypes
<1>4. todo'[r] = eligible
  BY <1>1 DEF Scan, Typed, RunInv, LockInv, TodoOK
<1>5. DryRunMetrics(r) = dry
  <2>1. log # <<>> /\ ~NotFound(r)
    BY DEF Scan, NotFound
  <2> QED BY <2>1 DEF DryRunMetrics
<1>6. phase'[r] = "done" => eligible = {}
  BY <1>1 DEF Scan, GoTo, Finalize, Typed, RunInv, PhaseOK
<1>7. eligible = {} => Cardinality(eligible) = 0
  BY FS_EmptySet
<1> HIDE DEF scan, eligible, skipped, after, files
<1>8. /\ run.partitions_scanned = dry.partitions_scanned
      /\ run.eligible_partitions = dry.eligible_partitions
      /\ run.skipped_partitions = dry.skipped_partitions
      /\ dry.files_before = files
  BY DEF NoMetrics
<1>9. eligible = {} => ExitCode(run) = 2 /\ ExitCode(dry) = 2
  BY <1>7 DEF NoMetrics, ExitCode
<1>10. FileCount(listing'[r], todo'[r]) = files
  BY <1>3, <1>4 DEF files
<1> HIDE DEF run, dry
<1> QED BY <1>2, <1>5, <1>6, <1>8, <1>9, <1>10 DEF Forecast

\* A run that looks at the bucket takes on what a dry run reports at that moment,
\* for any policy, any partitions and any other runs.
THEOREM RunTakesForecastHolds == Spec => RunTakesForecast
<1>1. Init => Untouched
  BY DEF Init, Untouched
<1>2. Typed /\ Seen /\ Untouched /\ [Next]_vars =>
         [\A r \in Runs : Looks(r) => Forecast(r)]_vars
  <2> SUFFICES ASSUME Typed, Seen, Untouched, Next, NEW r \in Runs, Looks(r)
               PROVE  Forecast(r)
    BY DEF vars
  <2>1. phase'[r] # phase[r]
    BY DEF Looks
  <2>2. RunStep(r) \/ Error(r)
    BY <2>1, PhaseOfOne DEF Next, StreamAppends, Tick, runVars, Typed, RunInv
  <2>3. metrics[r] = NoMetrics
    BY DEF Looks, Untouched
  <2>4. TableNotFound(r) \/ Scan(r) \/ TargetNotFound(r)
    <3>1. ~Verify(r)
      BY DEF Verify, Looks, GoTo, Typed, RunInv, PhaseOK
    <3> QED BY <2>2, <3>1, OnlyLooks DEF Looks, Typed, RunInv
  <2>5. Scan(r) \/ TargetNotFound(r) => log # <<>>
    BY DEF Scan, TargetNotFound, Seen
  <2> QED BY <2>3, <2>4, <2>5, ForecastNoTable, ForecastScan, ForecastNoPartition
<1>3. Spec => [](Typed /\ Untouched /\ Seen)
  BY <1>1, UntouchedStep, SeenStep, SeenInit, SummariesHold, PTL DEF Spec
<1> QED BY <1>2, <1>3, PTL DEF RunTakesForecast, Spec

(***************************************************************************)
(* A dry run's number of files is what an untroubled run comes to          *)
(***************************************************************************)

LEMMA CountNothing == ASSUME NEW scan PROVE FileCount(scan, {}) = 0
<1> DEFINE f == [p \in {} |-> Cardinality(scan[p])]
<1>1. FileCount(scan, {}) = SumFunctionOnSet(f, {})
  BY DEF FileCount, SumFunction
<1> HIDE DEF f
<1> QED BY <1>1, SumEmpty

LEMMA CountOneMore ==
  ASSUME NEW scan, NEW S, IsFiniteSet(S), NEW p, p \notin S,
         \A q \in S \cup {p} : IsFiniteSet(scan[q])
  PROVE  FileCount(scan, S \cup {p}) = FileCount(scan, S) + Cardinality(scan[p])
<1> DEFINE f == [q \in S |-> Cardinality(scan[q])]
           g == [q \in S \cup {p} |-> Cardinality(scan[q])]
<1>1. /\ FileCount(scan, S) = SumFunctionOnSet(f, S)
      /\ FileCount(scan, S \cup {p}) = SumFunctionOnSet(g, S \cup {p})
  BY DEF FileCount, SumFunction
<1>2. \A q \in S \cup {p} : g[q] \in Int
  BY FS_CardinalityType
<1>3. g[p] = Cardinality(scan[p]) /\ \A q \in S : g[q] = f[q]
  OBVIOUS
<1> HIDE DEF f, g
<1>4. SumFunctionOnSet(g, S \cup {p}) = SumFunctionOnSet(g, S) + g[p]
  BY <1>2, SumAdd
<1>5. SumFunctionOnSet(g, S) = SumFunctionOnSet(f, S)
  BY <1>3, SumSame
<1> QED BY <1>1, <1>3, <1>4, <1>5

\* The partitions whose files a run without a failure has counted as "before".
Charged(r) ==
    IF phase[r] \in Working THEN metrics[r].compacted_partitions \cup {part[r]}
    ELSE metrics[r].compacted_partitions

\* They are those it has compacted and the one it works on, each counted once.
Tallied(r) ==
    phase[r] \notin {"raised", "dead"} /\ metrics[r].failed_partitions = {} =>
        metrics[r].files_before = FileCount(listing[r], Charged(r))

Tallies == \A r \in Runs : Tallied(r)

\* What a run has compacted is among what its scan found.
Covered == \A r \in Runs : metrics[r].compacted_partitions \subseteq DOMAIN listing[r]

\* A step after which the run holds, has listed and has counted the same.
LEMMA TallyKept ==
  ASSUME NEW q \in Runs, Tallied(q), Charged(q)' = Charged(q), listing'[q] = listing[q],
         phase'[q] \notin {"raised", "dead"} => phase[q] \notin {"raised", "dead"},
         metrics'[q].files_before = metrics[q].files_before,
         metrics'[q].failed_partitions = metrics[q].failed_partitions
  PROVE  Tallied(q)'
<1> HIDE DEF Charged
<1> DEFINE count(l, S) == FileCount(l, S)
<1>1. count(listing'[q], Charged(q)') = count(listing[q], Charged(q))
  <2> HIDE DEF count
  <2> QED OBVIOUS
<1> QED BY <1>1 DEF Tallied

\* A run's own steps. It counts the files of its next partition when it has the
\* lock, and no others.
LEMMA TalliedOwn ==
  ASSUME Typed, Summaries, FiniteTable, Tallies, Covered, NEW q \in Runs, RunStep(q) \/ Error(q)
  PROVE  Tallied(q)'
<1> USE DEF Typed, RunInv, PhaseOK, RunTypes, GoTo, Finalize
<1>1. metrics[q] \in Metrics /\ Tallied(q) /\ Summary(q)
  BY FiniteBooks DEF Tallies, Summaries
<1>2. CASE \/ Error(q) \/ LockRefused(q)
           \/ SparkFails(q) /\ method[q] = "zorder_inspired"
  <2>1. phase'[q] \in {"raised", "dead"} \/ metrics'[q].failed_partitions # {}
    <3>1. CASE Error(q)
      BY <3>1 DEF Error, VerifyFails, ScanFails, LockCallRaises, RaiseOut, Crash
    <3>2. CASE LockRefused(q)
      BY <1>1, <3>2 DEF LockRefused, Metrics
    <3>3. CASE SparkFails(q) /\ method[q] = "zorder_inspired"
      <4>1. FailPartition(q)
        BY <3>3 DEF SparkFails, RetryOrFail
      <4>2. metrics'[q].failed_partitions = metrics[q].failed_partitions \cup {part[q]}
        BY <1>1, <4>1 DEF FailPartition, Metrics
      <4> QED BY <4>2
    <3> QED BY <1>2, <3>1, <3>2, <3>3
  <2> QED BY <2>1 DEF Tallied
<1>3. CASE LockAcquired(q)
  <2> DEFINE S == metrics[q].compacted_partitions
             n == Cardinality(listing[q][part[q]])
  <2>1. /\ phase[q] = "acquire" /\ phase'[q] = "rewrite" /\ UNCHANGED listing
        /\ metrics'[q].files_before = metrics[q].files_before + n
        /\ metrics'[q].compacted_partitions = S
        /\ metrics'[q].failed_partitions = metrics[q].failed_partitions
    BY <1>1, <1>3 DEF LockAcquired, Metrics
  <2>2. part'[q] = part[q]
    BY <1>3, <2>1, PartKept DEF RunStep, LockWork, NextPartition
  <2>3. part[q] \notin S
    <3>1. Books(q) /\ phase[q] \in Busy
      BY <1>1, <2>1 DEF Summary, Counted, Over, Busy, Working
    <3> QED BY <3>1 DEF Books, Open, Handled
  <2>4. IsFiniteSet(S) /\ \A p \in S \cup {part[q]} : IsFiniteSet(listing[q][p])
    <3>1. part[q] \in DOMAIN listing[q]
      BY <2>1 DEF ListingOf, Busy
    <3>2. S \subseteq DOMAIN listing[q] /\ S \in SUBSET Partitions
      BY <1>1 DEF Covered, Metrics
    <3> QED BY <3>1, <3>2, FiniteBooks DEF ListingOf
  <2>5. Charged(q) = S /\ Charged(q)' = S \cup {part[q]}
    BY <2>1, <2>2 DEF Charged, Working
  <2>6. FileCount(listing[q], S \cup {part[q]}) = FileCount(listing[q], S) + n
    <3> HIDE DEF S
    <3> QED BY <2>3, <2>4, CountOneMore
  <2> HIDE DEF S, n
  <2>7. FileCount(listing'[q], Charged(q)') = FileCount(listing[q], Charged(q)) + n
    BY <2>1, <2>5, <2>6
  <2> QED BY <1>1, <2>1, <2>7 DEF Tallied
<1>4. CASE CountFiles(q)
  <2>1. /\ phase[q] = "count" /\ phase'[q] = "release" /\ listing' = listing
        /\ metrics'[q].files_before = metrics[q].files_before
        /\ metrics'[q].compacted_partitions = metrics[q].compacted_partitions \cup {part[q]}
        /\ metrics'[q].failed_partitions = metrics[q].failed_partitions
    BY <1>1, <1>4 DEF CountFiles, Metrics
  <2>2. Charged(q)' = Charged(q)
    BY <2>1 DEF Charged, Working
  <2> QED BY <1>1, <2>1, <2>2, TallyKept
<1>5. CASE \/ BeginRewrite(q) \/ OptimizeNothing(q) \/ CommitRewrite(q)
           \/ SparkFails(q) /\ method[q] = "delta_optimize"
  <2>1. phase[q] \in Working /\ phase'[q] \in Working /\ UNCHANGED <<listing, metrics>>
    BY <1>5 DEF BeginRewrite, OptimizeNothing, CommitRewrite, SparkFails, RetryOrFail, Working
  <2>2. part'[q] = part[q]
    BY <2>1, PartKept DEF NextPartition, Working
  <2>3. Charged(q)' = Charged(q) /\ phase[q] \notin {"raised", "dead"}
    BY <2>1, <2>2 DEF Charged, Working
  <2> QED BY <1>1, <2>1, <2>3, TallyKept
<1>6. CASE Scan(q)
  <2>1. /\ phase[q] = "scan" /\ phase'[q] \notin Working
        /\ metrics'[q].files_before = metrics[q].files_before
        /\ metrics'[q].compacted_partitions = metrics[q].compacted_partitions
        /\ metrics'[q].failed_partitions = metrics[q].failed_partitions
    BY <1>1, <1>6 DEF Scan, SelectedMetrics, Metrics, Working
  <2>2. Charged(q) = {} /\ Charged(q)' = {}
    <3>1. Fresh(q)
      BY <1>1, <2>1 DEF Summary
    <3> QED BY <2>1, <3>1 DEF Charged, Working, Fresh, Handled
  <2>3. FileCount(listing'[q], Charged(q)') = 0 /\ FileCount(listing[q], Charged(q)) = 0
    BY <2>2, CountNothing
  <2> QED BY <1>1, <2>1, <2>3 DEF Tallied
<1>7. CASE \/ Verify(q) \/ TableNotFound(q) \/ TargetNotFound(q) \/ CreateSparkSession(q)
           \/ FinishRun(q) \/ NextPartition(q) \/ AcquireCall(q)
           \/ StartRelease(q) \/ ReleaseCall(q)
  <2>1. /\ phase[q] \notin Working \cup {"raised", "dead"} /\ phase'[q] \notin Working
        /\ listing' = listing
    BY <1>7 DEF Verify, TableNotFound, TargetNotFound, CreateSparkSession, FinishRun,
       NextPartition, AcquireCall, StartRelease, ReleaseCall, Working, runVars
  <2>2. /\ metrics'[q].files_before = metrics[q].files_before
        /\ metrics'[q].compacted_partitions = metrics[q].compacted_partitions
        /\ metrics'[q].failed_partitions = metrics[q].failed_partitions
    <3>1. CASE metrics' = metrics \/ SetError(q)
      BY <1>1, <3>1 DEF SetError, Metrics
    <3>2. CASE TargetNotFound(q)
      BY <1>1, <3>2 DEF TargetNotFound, Metrics
    <3> QED BY <1>7, <3>1, <3>2 DEF Verify, TableNotFound, CreateSparkSession, FinishRun,
            NextPartition, AcquireCall, StartRelease, ReleaseCall, runVars
  <2>3. Charged(q)' = Charged(q)
    BY <2>1, <2>2 DEF Charged
  <2> QED BY <1>1, <2>1, <2>2, <2>3, TallyKept
<1>8. method[q] \in {"delta_optimize", "zorder_inspired"}
  OBVIOUS
<1>9. CASE Prepare(q) \/ FinishRun(q)
  BY <1>6, <1>7, <1>9 DEF Prepare
<1>10. CASE LockWork(q)
  BY <1>2, <1>3, <1>7, <1>10 DEF LockWork
<1>11. CASE SparkWork(q)
  BY <1>2, <1>4, <1>5, <1>8, <1>11 DEF SparkWork
<1> QED BY <1>2, <1>9, <1>10, <1>11 DEF RunStep

\* A scan is the run's first, and it counts a partition it works on.
LEMMA CoveredOwn ==
  ASSUME Typed, Summaries, Covered, NEW q \in Runs, RunStep(q) \/ Error(q)
  PROVE  metrics'[q].compacted_partitions \subseteq DOMAIN listing'[q]
<1> USE DEF Typed, RunInv, PhaseOK, RunTypes
<1>1. metrics[q] \in Metrics /\ metrics[q].compacted_partitions \subseteq DOMAIN listing[q]
  BY FiniteBooks DEF Covered
<1>2. CASE CountFiles(q)
  <2>1. /\ phase[q] = "count" /\ listing' = listing
        /\ metrics'[q].compacted_partitions = metrics[q].compacted_partitions \cup {part[q]}
    BY <1>1, <1>2 DEF CountFiles, Metrics
  <2>2. part[q] \in DOMAIN listing[q]
    BY <2>1 DEF ListingOf, Busy, Working
  <2> QED BY <1>1, <2>1, <2>2
<1>3. CASE Scan(q)
  <2>1. /\ phase[q] = "scan"
        /\ metrics'[q].compacted_partitions = metrics[q].compacted_partitions
    BY <1>1, <1>3 DEF Scan, SelectedMetrics, Metrics
  <2>2. metrics[q].compacted_partitions = {}
    BY <2>1 DEF Summaries, Summary, Fresh, Handled
  <2> QED BY <2>1, <2>2
<1>4. CASE ~CountFiles(q) /\ ~Scan(q)
  <2>1. listing' = listing
    BY <1>4 DEF RunStep, Error, Prepare, LockWork, SparkWork, Verify, TableNotFound,
       TargetNotFound, CreateSparkSession, NextPartition, AcquireCall, LockRefused,
       LockAcquired, StartRelease, ReleaseCall, BeginRewrite, OptimizeNothing, CommitRewrite,
       SparkFails, RetryOrFail, FinishRun, VerifyFails, ScanFails, LockCallRaises,
       RaiseOut, Crash, runVars
  <2>2. metrics'[q].compacted_partitions = metrics[q].compacted_partitions
    <3>1. CASE Prepare(q) \/ FinishRun(q) \/ Error(q)
      BY <1>1, <1>4, <3>1 DEF Error, Prepare, Verify, TableNotFound, TargetNotFound, SetError,
         CreateSparkSession, FinishRun, VerifyFails, ScanFails, LockCallRaises, RaiseOut, Crash,
         Metrics
    <3>2. CASE LockWork(q)
      BY <1>1, <3>2 DEF LockWork, NextPartition, AcquireCall, LockRefused, LockAcquired,
         StartRelease, ReleaseCall, runVars, Metrics
    <3>3. CASE SparkWork(q)
      BY <1>1, <1>4, <3>3 DEF SparkWork, BeginRewrite, OptimizeNothing, CommitRewrite,
         SparkFails, RetryOrFail, FailPartition, Metrics
    <3> QED BY <3>1, <3>2, <3>3 DEF RunStep
  <2> QED BY <1>1, <2>1, <2>2
<1> QED BY <1>2, <1>3, <1>4

LEMMA TalliesStep ==
  Typed /\ Summaries /\ FiniteTable /\ Tallies /\ Covered /\ [Next]_vars => Tallies' /\ Covered'
<1> SUFFICES ASSUME Typed, Summaries, FiniteTable, Tallies, Covered, [Next]_vars, NEW r \in Runs
             PROVE  /\ Tallied(r)'
                    /\ metrics'[r].compacted_partitions \subseteq DOMAIN listing'[r]
  BY DEF Tallies, Covered
<1>1. ASSUME NEW q \in Runs, RunStep(q) \/ Error(q)
      PROVE  /\ Tallied(r)'
             /\ metrics'[r].compacted_partitions \subseteq DOMAIN listing'[r]
  <2>1. CASE q = r
    BY <1>1, <2>1, TalliedOwn, CoveredOwn
  <2>2. CASE q # r
    <3>1. /\ phase'[r] = phase[r] /\ part'[r] = part[r]
          /\ listing'[r] = listing[r] /\ metrics'[r] = metrics[r]
      BY <1>1, <2>2, OneRun DEF Typed
    <3>2. Charged(r)' = Charged(r)
      BY <3>1 DEF Charged
    <3> QED BY <3>1, <3>2, TallyKept DEF Tallies, Covered
  <2> QED BY <2>1, <2>2
<1>2. CASE StreamAppends \/ Tick \/ UNCHANGED vars
  <2>1. UNCHANGED <<phase, listing, metrics, part>>
    BY <1>2 DEF StreamAppends, Tick, L!Tick, vars, lockVars, runVars
  <2>2. Charged(r)' = Charged(r)
    BY <2>1 DEF Charged
  <2> QED BY <2>1, <2>2, TallyKept DEF Tallies, Covered
<1> QED BY <1>1, <1>2 DEF Next

\* A run that took something on and on which nothing failed has exit code 0 and
\* counted exactly the files a dry run would have shown for its partitions, each
\* once, whichever attempts of OPTIMIZE were repeated.
THEOREM RunKeepsForecastHolds == Spec => []RunKeepsForecast
<1>1. Init => FiniteTable /\ Tallies /\ Covered
  <2>1. Init => FiniteTable
    BY FS_EmptySet DEF Init, T!Init, FiniteTable
  <2>2. ASSUME Init, NEW r \in Runs PROVE Tallied(r) /\ metrics[r].compacted_partitions = {}
    <3>1. Charged(r) = {} /\ metrics[r].files_before = 0 /\ metrics[r].compacted_partitions = {}
      BY <2>2 DEF Init, Charged, Working, NoMetrics
    <3> QED BY <3>1, CountNothing DEF Tallied
  <2> QED BY <2>1, <2>2 DEF Tallies, Covered
<1>2. Typed /\ FiniteTable /\ [Next]_vars => FiniteTable'
  BY TableStep, FiniteStep DEF Typed, RunInv
<1>3. Typed /\ Summaries /\ Tallies => RunKeepsForecast
  <2> SUFFICES ASSUME Typed, Summaries, Tallies, NEW r \in Runs, phase[r] = "done",
                      metrics[r].eligible_partitions > 0,
                      ~metrics[r].error, metrics[r].failed_partitions = {}
               PROVE  /\ ExitCode(metrics[r]) = 0
                      /\ metrics[r].files_before =
                            FileCount(listing[r], metrics[r].compacted_partitions)
                      /\ metrics[r].eligible_partitions =
                            Cardinality(metrics[r].compacted_partitions)
    BY DEF RunKeepsForecast
  <2>1. Books(r) /\ Open(r) = {}
    BY DEF Summaries, Summary, Counted, Open, Busy, Working
  <2>2. Open(r) \cup Handled(r) = metrics[r].compacted_partitions
    BY <2>1 DEF Handled
  <2>3. metrics[r].eligible_partitions = Cardinality(metrics[r].compacted_partitions)
    BY <2>1, <2>2 DEF Books
  <2>4. metrics[r].compacted_partitions # {}
    BY <2>3, FS_EmptySet
  <2>5. ExitCode(metrics[r]) = 0
    BY <2>4 DEF ExitCode
  <2>6. Charged(r) = metrics[r].compacted_partitions
    BY DEF Charged, Working
  <2> QED BY <2>3, <2>5, <2>6 DEF Tallies, Tallied
<1> QED BY <1>1, <1>2, <1>3, TalliesStep, SummariesHold, PTL DEF Spec

(***************************************************************************)
(* Each step of a run brings it closer to its end                          *)
(***************************************************************************)

\* In these two phases a run is inside a call of its lock manager.
CallsInPhase ==
    \A r \in Runs : /\ phase[r] = "acquire" => pc[r] \in L!Acquiring
                    /\ phase[r] = "release" => pc[r] \in L!Holding

LEMMA CallsOwn ==
  ASSUME Typed, CallsInPhase, NEW q \in Runs, RunStep(q) \/ Error(q)
  PROVE  /\ phase'[q] = "acquire" => pc'[q] \in L!Acquiring
         /\ phase'[q] = "release" => pc'[q] \in L!Holding
<1> USE DEF Typed, RunInv, LockInv, L!TypeOK, PhaseOK, GoTo, Finalize, L!GoTo,
            L!Acquiring, L!Holding, L!Releasing
<1>1. CASE Prepare(q) \/ FinishRun(q)
  BY <1>1 DEF Prepare, Verify, TableNotFound, Scan, TargetNotFound, CreateSparkSession, FinishRun
<1>2. CASE Error(q)
  BY <1>2 DEF Error, VerifyFails, ScanFails, LockCallRaises, RaiseOut, Crash
<1>3. CASE NextPartition(q) \/ LockRefused(q) \/ LockAcquired(q)
  BY <1>3 DEF NextPartition, LockRefused, LockAcquired, L!StartAcquire
<1>4. CASE AcquireCall(q)
  <2>1. phase'[q] = "acquire" /\ pc[q] \in L!Acquiring
    BY <1>4 DEF AcquireCall, runVars, CallsInPhase
  <2> QED BY <1>4, <2>1 DEF AcquireCall, L!CleanupGet, L!CleanupDelete, L!GetFree,
          L!DeleteRefused
<1>5. CASE StartRelease(q)
  BY <1>5 DEF StartRelease, L!StartRelease, runVars
<1>6. CASE ReleaseCall(q)
  <2>1. phase[q] = "release" /\ pc[q] \in L!Holding
    BY <1>6 DEF ReleaseCall, CallsInPhase
  <2>2. pc'[q] \in {"idle", "release_delete"}
    BY <1>6, <2>1 DEF ReleaseCall, L!ReleaseStep, L!ReleaseGet, L!ReleaseDelete, L!DeleteRefused
  <2>3. phase'[q] = "loop" \/ (phase'[q] = "release" /\ pc'[q] # "idle")
    BY <1>6, <2>1 DEF ReleaseCall
  <2> QED BY <2>2, <2>3
<1>7. CASE SparkWork(q)
  <2>1. phase[q] \in Working /\ phase'[q] # "acquire"
    BY <1>7 DEF SparkWork, BeginRewrite, OptimizeNothing, CommitRewrite, CountFiles,
       SparkFails, RetryOrFail, Working
  <2>2. pc'[q] = "held"
    BY <1>7, <2>1, NoLockCall DEF lockVars, WorksUnderLock
  <2> QED BY <2>1, <2>2
<1> QED BY <1>1, <1>2, <1>3, <1>4, <1>5, <1>6, <1>7 DEF RunStep, LockWork

LEMMA CallsStep == Typed /\ CallsInPhase /\ [Next]_vars => CallsInPhase'
<1> SUFFICES ASSUME Typed, CallsInPhase, [Next]_vars, NEW r \in Runs
             PROVE  /\ phase'[r] = "acquire" => pc'[r] \in L!Acquiring
                    /\ phase'[r] = "release" => pc'[r] \in L!Holding
  BY DEF CallsInPhase, L!Acquiring, L!Holding, L!Releasing
<1>1. ASSUME NEW q \in Runs \ {r}, RunStep(q) \/ Error(q)
      PROVE  phase'[r] = phase[r] /\ pc'[r] = pc[r]
  <2>1. phase'[r] = phase[r]
    BY <1>1, PhaseOfOne DEF Typed, RunInv
  <2>2. pc'[r] = pc[r]
    BY <1>1, CallOfOne, NoLockCall DEF Typed, RunInv, RunStep, Error, lockVars
  <2> QED BY <2>1, <2>2
<1>2. CASE StreamAppends \/ Tick \/ UNCHANGED vars
  BY <1>2 DEF StreamAppends, Tick, L!Tick, vars, lockVars, runVars, CallsInPhase
<1> QED BY <1>1, <1>2, CallsOwn DEF Next, CallsInPhase

\* OPTIMIZE may have to be made good by the other method.
Extra(how) == IF how = "delta_optimize" THEN 3 ELSE 0

\* StepsLeft as a function of the four things it depends on.
StepsFrom(place, n, call, how) ==
    CASE place \in Over -> 0
      [] place = "verify" -> StepsPerPartition * Cardinality(Partitions) + 4
      [] place = "scan" -> StepsPerPartition * Cardinality(Partitions) + 3
      [] place = "spark" -> StepsPerPartition * n + 2
      [] place = "loop" -> StepsPerPartition * n + 1
      [] place \in {"acquire", "release"} -> StepsPerPartition * n + 1 + StepsOfCall[call]
      [] place \in Working -> StepsPerPartition * n + 1 + StepsOfWork[place] + Extra(how)

LEMMA StepsAre ==
  ASSUME NEW r \in Runs
  PROVE  /\ StepsLeft(r) = StepsFrom(phase[r], Cardinality(todo[r]), pc[r], method[r])
         /\ StepsLeft(r)' = StepsFrom(phase'[r], Cardinality(todo'[r]), pc'[r], method'[r])
  BY DEF StepsLeft, StepsFrom, Extra

LEMMA StepsAsNumbers ==
  /\ StepsPerPartition = 14
  /\ StepsOfCall["cleanup_get"] = 13 /\ StepsOfCall["cleanup_delete"] = 12
  /\ StepsOfCall["get"] = 11 /\ StepsOfCall["put"] = 10 /\ StepsOfCall["held"] = 3
  /\ StepsOfCall["release_get"] = 2 /\ StepsOfCall["release_delete"] = 1
  /\ StepsOfWork["rewrite"] = 6 /\ StepsOfWork["commit"] = 5 /\ StepsOfWork["count"] = 4
  BY DEF StepsOfCall, StepsOfWork, StepsPerPartition

LEMMA NoStepsWhenOver ==
  ASSUME NEW place \in Over, NEW n, NEW call, NEW how
  PROVE  StepsFrom(place, n, call, how) = 0
  BY DEF StepsFrom, Over, Working

LEMMA StepsToTheLoop ==
  ASSUME NEW n, NEW call, NEW how
  PROVE  /\ StepsFrom("verify", n, call, how) = 14 * Cardinality(Partitions) + 4
         /\ StepsFrom("scan", n, call, how) = 14 * Cardinality(Partitions) + 3
         /\ StepsFrom("spark", n, call, how) = 14 * n + 2
         /\ StepsFrom("loop", n, call, how) = 14 * n + 1
  BY DEF StepsFrom, Over, Working, StepsPerPartition

LEMMA StepsInCalls ==
  ASSUME NEW place \in {"acquire", "release"}, NEW n, NEW call, NEW how
  PROVE  StepsFrom(place, n, call, how) = 14 * n + 1 + StepsOfCall[call]
  BY DEF StepsFrom, Over, Working, StepsPerPartition

\* The numbers of partitions the measure is made of.
LEMMA PartitionsLeft ==
  ASSUME Typed, NEW r \in Runs
  PROVE  /\ Cardinality(todo[r]) \in Nat /\ Cardinality(Partitions) \in Nat
         /\ Cardinality(todo[r]) <= Cardinality(Partitions)
<1>1. todo[r] \subseteq Partitions
  BY FiniteBooks
<1> QED BY <1>1, RunsAssumption, FS_Subset, FS_CardinalityType

\* Inside the loop: what is left of the current partition.
InLoop == {"loop", "acquire", "release"} \cup Working

StageFrom(place, call, how) ==
    CASE place = "loop" -> 0
      [] place \in {"acquire", "release"} -> StepsOfCall[call]
      [] place \in Working -> StepsOfWork[place] + Extra(how)

LEMMA StagesInLoop ==
  ASSUME NEW place \in InLoop, NEW call, NEW how, NEW n \in Nat
  PROVE  StepsFrom(place, n, call, how) = 14 * n + 1 + StageFrom(place, call, how)
<1>1. CASE place = "loop"
  <2>1. StageFrom(place, call, how) = 0
    BY <1>1 DEF StageFrom, Working
  <2> QED BY <1>1, <2>1, StepsToTheLoop
<1>2. CASE place \in {"acquire", "release"}
  <2>1. StageFrom(place, call, how) = StepsOfCall[call]
    BY <1>2 DEF StageFrom, Working
  <2> QED BY <1>2, <2>1, StepsInCalls
<1>3. CASE place \in Working
  <2>1. StageFrom(place, call, how) = StepsOfWork[place] + Extra(how)
    BY <1>3 DEF StageFrom, Working
  <2>2. StepsFrom(place, n, call, how) = 14 * n + 1 + StepsOfWork[place] + Extra(how)
    BY <1>3 DEF StepsFrom, StepsPerPartition, Working, Over
  <2>3. StepsOfWork[place] \in Nat /\ Extra(how) \in Nat
    BY <1>3, StepsAsNumbers DEF Working, Extra
  <2> QED BY <2>1, <2>2, <2>3
<1> QED BY <1>1, <1>2, <1>3 DEF InLoop

LEMMA StepsAreNumbers ==
  ASSUME Typed, CallsInPhase, NEW r \in Runs
  PROVE  StepsLeft(r) \in Nat /\ (phase[r] \notin Over => StepsLeft(r) > 0)
<1> DEFINE n == Cardinality(todo[r])
           k == Cardinality(Partitions)
           stage == StageFrom(phase[r], pc[r], method[r])
<1>1. StepsLeft(r) = StepsFrom(phase[r], n, pc[r], method[r])
  BY StepsAre
<1>2. n \in Nat /\ k \in Nat /\ phase[r] \in Phases
  BY PartitionsLeft DEF Typed, RunInv, PhaseOK
<1>3. CASE phase[r] \in InLoop
  <2>1. StepsLeft(r) = 14 * n + 1 + stage
    <3> HIDE DEF n
    <3> QED BY <1>1, <1>2, <1>3, StagesInLoop
  <2>2. stage \in Nat
    <3>1. phase[r] \in {"acquire", "release"} => StepsOfCall[pc[r]] \in Nat
      BY StepsAsNumbers DEF CallsInPhase, L!Acquiring, L!Holding, L!Releasing
    <3>2. phase[r] \in Working => StepsOfWork[phase[r]] + Extra(method[r]) \in Nat
      BY StepsAsNumbers DEF Working, Extra
    <3> QED BY <1>3, <3>1, <3>2 DEF StageFrom, InLoop, Working
  <2> HIDE DEF n, stage
  <2> QED BY <1>2, <2>1, <2>2
<1>4. CASE phase[r] \notin InLoop
  <2> HIDE DEF n, k
  <2>1. /\ phase[r] \in Over => StepsLeft(r) = 0
        /\ phase[r] = "verify" => StepsLeft(r) = 14 * k + 4
        /\ phase[r] = "scan" => StepsLeft(r) = 14 * k + 3
        /\ phase[r] = "spark" => StepsLeft(r) = 14 * n + 2
    BY <1>1, NoStepsWhenOver, StepsToTheLoop DEF k
  <2> QED BY <1>2, <1>4, <2>1 DEF Phases, InLoop
<1> QED BY <1>3, <1>4

\* The steps before and after the loop.
LEMMA OutsideLoopAdvances ==
  ASSUME Typed, Typed', FiniteTable, CallsInPhase, NEW q \in Runs,
         Prepare(q) \/ FinishRun(q) \/ Error(q)
  PROVE  StepsLeft(q)' < StepsLeft(q)
<1> DEFINE n == Cardinality(todo[q])
           m == Cardinality(todo'[q])
           k == Cardinality(Partitions)
<1>1. StepsLeft(q) = StepsFrom(phase[q], n, pc[q], method[q])
      /\ StepsLeft(q)' = StepsFrom(phase'[q], m, pc'[q], method'[q])
  BY StepsAre
<1>2. n \in Nat /\ k \in Nat /\ m \in Nat /\ m <= k
  <2>1. todo'[q] \subseteq Partitions
    BY DEF Typed, RunInv, LockInv, TodoOK
  <2> QED BY <2>1, PartitionsLeft, RunsAssumption, FS_Subset, FS_CardinalityType
<1>3. phase[q] \notin Over
  BY DEF Prepare, Verify, TableNotFound, Scan, TargetNotFound, CreateSparkSession, FinishRun,
     Error, VerifyFails, ScanFails, LockCallRaises, Crash, Over
<1>4. StepsLeft(q) \in Nat /\ StepsLeft(q) > 0
  BY <1>3, StepsAreNumbers
<1>5. CASE phase'[q] \in Over
  <2>1. StepsLeft(q)' = 0
    <3> HIDE DEF m
    <3> QED BY <1>1, <1>5, NoStepsWhenOver
  <2> QED BY <1>4, <2>1
<1>6. CASE phase'[q] \notin Over
  <2>1. \/ phase[q] = "verify" /\ phase'[q] = "scan"
        \/ phase[q] = "scan" /\ phase'[q] = "spark"
        \/ phase[q] = "spark" /\ phase'[q] = "loop" /\ m = n
    BY <1>6 DEF Prepare, Verify, TableNotFound, Scan, TargetNotFound, CreateSparkSession, FinishRun,
       Error, VerifyFails, ScanFails, LockCallRaises, RaiseOut, Crash, Over, GoTo, Finalize,
       Typed, RunInv, PhaseOK
  <2> HIDE DEF n, m, k
  <2>2. CASE phase[q] = "verify" /\ phase'[q] = "scan"
    <3>1. StepsLeft(q) = 14 * k + 4 /\ StepsLeft(q)' = 14 * k + 3
      BY <1>1, <2>2, StepsToTheLoop DEF k
    <3> QED BY <1>2, <3>1
  <2>3. CASE phase[q] = "scan" /\ phase'[q] = "spark"
    <3>1. StepsLeft(q) = 14 * k + 3 /\ StepsLeft(q)' = 14 * m + 2
      BY <1>1, <2>3, StepsToTheLoop DEF k
    <3> QED BY <1>2, <3>1
  <2>4. CASE phase[q] = "spark" /\ phase'[q] = "loop" /\ m = n
    <3>1. StepsLeft(q) = 14 * n + 2 /\ StepsLeft(q)' = 14 * n + 1
      BY <1>1, <2>4, StepsToTheLoop
    <3> QED BY <1>2, <3>1
  <2> QED BY <2>1, <2>2, <2>3, <2>4
<1> QED BY <1>5, <1>6

LEMMA StageValues ==
  \A call, how :
     /\ StageFrom("loop", call, how) = 0
     /\ \A place \in {"acquire", "release"} :
           /\ StageFrom(place, "cleanup_get", how) = 13
           /\ StageFrom(place, "cleanup_delete", how) = 12
           /\ StageFrom(place, "get", how) = 11
           /\ StageFrom(place, "put", how) = 10
           /\ StageFrom(place, "held", how) = 3
           /\ StageFrom(place, "release_get", how) = 2
           /\ StageFrom(place, "release_delete", how) = 1
     /\ StageFrom("rewrite", call, "delta_optimize") = 9
     /\ StageFrom("commit", call, "delta_optimize") = 8
     /\ StageFrom("count", call, "delta_optimize") = 7
     /\ StageFrom("rewrite", call, "zorder_inspired") = 6
     /\ StageFrom("commit", call, "zorder_inspired") = 5
     /\ StageFrom("count", call, "zorder_inspired") = 4
  BY DEF StageFrom, Working, StepsOfCall, StepsOfWork, Extra

\* Every step of the loop but the one that takes the next partition.
LEMMA StageAdvances ==
  ASSUME Typed, CallsInPhase, NEW q \in Runs, LockWork(q) \/ SparkWork(q), ~NextPartition(q)
  PROVE  /\ StageFrom(phase[q], pc[q], method[q]) \in Nat
         /\ StageFrom(phase'[q], pc'[q], method'[q]) \in Nat
         /\ StageFrom(phase'[q], pc'[q], method'[q]) < StageFrom(phase[q], pc[q], method[q])
<1> USE DEF Typed, RunInv, LockInv, L!TypeOK, PhaseOK, RunTypes, GoTo, L!GoTo
<1>1. CASE AcquireCall(q)
  <2>1. phase[q] = "acquire" /\ phase'[q] = "acquire" /\ pc[q] \in L!Acquiring
    BY <1>1 DEF AcquireCall, runVars, CallsInPhase
  <2>2. \/ pc[q] = "cleanup_get" /\ pc'[q] \in {"cleanup_delete", "get"}
        \/ pc[q] = "cleanup_delete" /\ pc'[q] = "get"
        \/ pc[q] = "get" /\ pc'[q] = "put"
    BY <1>1, <2>1 DEF AcquireCall, L!CleanupGet, L!CleanupDelete, L!GetFree, L!DeleteRefused,
       L!Acquiring
  <2> QED BY <2>1, <2>2, StageValues
<1>2. CASE LockRefused(q)
  <2>1. phase[q] = "acquire" /\ phase'[q] = "loop" /\ pc[q] = "get"
    BY <1>2 DEF LockRefused, L!GetRefused
  <2> QED BY <2>1, StageValues
<1>3. CASE LockAcquired(q)
  <2>1. /\ phase[q] = "acquire" /\ phase'[q] = "rewrite" /\ pc[q] = "put"
        /\ method'[q] \in {"delta_optimize", "zorder_inspired"}
    BY <1>3 DEF LockAcquired, L!Put
  <2> QED BY <2>1, StageValues
<1>4. CASE StartRelease(q)
  <2>1. phase[q] = "release" /\ phase'[q] = "release" /\ pc[q] = "held" /\ pc'[q] = "release_get"
    BY <1>4 DEF StartRelease, L!StartRelease, runVars
  <2> QED BY <2>1, StageValues
<1>5. CASE ReleaseCall(q)
  <2>1. phase[q] = "release" /\ pc[q] \in L!Holding
    BY <1>5 DEF ReleaseCall, CallsInPhase
  <2>2. \/ pc[q] = "release_get" /\ pc'[q] \in {"idle", "release_delete"}
        \/ pc[q] = "release_delete" /\ pc'[q] = "idle"
    BY <1>5, <2>1 DEF ReleaseCall, L!ReleaseStep, L!ReleaseGet, L!ReleaseDelete, L!DeleteRefused,
       L!Holding, L!Releasing
  <2>3. phase'[q] = IF pc'[q] = "idle" THEN "loop" ELSE "release"
    BY <1>5, <2>1 DEF ReleaseCall
  <2> QED BY <2>1, <2>2, <2>3, StageValues
<1>6. CASE SparkWork(q)
  <2>1. phase[q] \in Working
    BY <1>6 DEF SparkWork, BeginRewrite, OptimizeNothing, CommitRewrite, CountFiles,
       SparkFails, Working
  <2>2. pc[q] = "held" /\ pc'[q] = "held"
    BY <1>6, <2>1, NoLockCall DEF lockVars, WorksUnderLock
  <2>3. method[q] \in {"delta_optimize", "zorder_inspired"}
    OBVIOUS
  <2>4. \/ /\ method'[q] = method[q]
           /\ \/ phase[q] = "rewrite" /\ phase'[q] \in {"commit", "count"}
              \/ phase[q] = "commit" /\ phase'[q] = "count"
              \/ phase[q] = "count" /\ phase'[q] = "release"
        \/ method[q] = "delta_optimize" /\ method'[q] = "zorder_inspired" /\ phase'[q] = "rewrite"
        \/ method[q] = "zorder_inspired" /\ method'[q] = method[q] /\ phase'[q] = "release"
    BY <1>6 DEF SparkWork, BeginRewrite, OptimizeNothing, CommitRewrite, CountFiles,
       SparkFails, RetryOrFail, Working
  <2> QED BY <2>1, <2>2, <2>3, <2>4, StageValues DEF Working
<1> QED BY <1>1, <1>2, <1>3, <1>4, <1>5, <1>6 DEF LockWork

\* The loop: it takes a partition off its list and goes through its stages.
LEMMA LoopAdvances ==
  ASSUME Typed, Typed', CallsInPhase, NEW q \in Runs, LockWork(q) \/ SparkWork(q)
  PROVE  StepsLeft(q)' < StepsLeft(q)
<1> DEFINE n == Cardinality(todo[q])
           m == Cardinality(todo'[q])
<1>1. StepsLeft(q) = StepsFrom(phase[q], n, pc[q], method[q])
      /\ StepsLeft(q)' = StepsFrom(phase'[q], m, pc'[q], method'[q])
  BY StepsAre
<1>2. n \in Nat
  BY PartitionsLeft
<1> USE DEF Typed, RunInv, LockInv, L!TypeOK, PhaseOK, TodoOK, RunTypes, GoTo, L!GoTo
<1>3. CASE NextPartition(q)
  <2>1. PICK p \in todo[q] : L!StartAcquire(q, p) /\ todo' = [todo EXCEPT ![q] = @ \ {p}]
    BY <1>3 DEF NextPartition
  <2>2. phase[q] = "loop" /\ phase'[q] = "acquire" /\ pc'[q] = "cleanup_get"
    BY <1>3, <2>1 DEF NextPartition, L!StartAcquire
  <2>3. n = m + 1 /\ m \in Nat
    <3>1. todo'[q] = todo[q] \ {p} /\ IsFiniteSet(todo[q]) /\ p \in todo[q]
      BY <2>1, FiniteBooks
    <3>2. m = n - 1 /\ m \in Nat
      BY <3>1, FS_RemoveElement, FS_CardinalityType
    <3> HIDE DEF n, m
    <3> QED BY <1>2, <3>2
  <2> HIDE DEF n, m
  <2>4. StepsLeft(q) = 14 * n + 1 /\ StepsLeft(q)' = 14 * m + 1 + 13
    BY <1>1, <2>2, StepsToTheLoop, StepsInCalls, StepsAsNumbers
  <2> QED BY <2>3, <2>4
<1>4. CASE ~NextPartition(q)
  <2>1. todo' = todo
    BY <1>4, TodoOnly DEF RunStep, LockWork, SparkWork, Scan, NextPartition, LockRefused, AcquireCall,
       LockAcquired, StartRelease, ReleaseCall, BeginRewrite, OptimizeNothing, CommitRewrite,
       CountFiles, SparkFails, RetryOrFail, runVars
  <2>2. m = n
    BY <2>1
  <2>3. /\ StepsLeft(q) = 14 * n + 1 + StageFrom(phase[q], pc[q], method[q])
        /\ StepsLeft(q)' = 14 * n + 1 + StageFrom(phase'[q], pc'[q], method'[q])
    <3>1. phase[q] \in InLoop /\ phase'[q] \in InLoop
      BY <1>4 DEF LockWork, SparkWork, LockRefused, AcquireCall, LockAcquired, StartRelease,
         ReleaseCall, BeginRewrite, OptimizeNothing, CommitRewrite, CountFiles, SparkFails,
         RetryOrFail, runVars, InLoop, Working
    <3>2. StepsLeft(q)' = StepsFrom(phase'[q], n, pc'[q], method'[q])
      BY <1>1, <2>2
    <3> HIDE DEF n
    <3> QED BY <1>1, <1>2, <3>1, <3>2, StagesInLoop
  <2>4. /\ StageFrom(phase[q], pc[q], method[q]) \in Nat
        /\ StageFrom(phase'[q], pc'[q], method'[q]) \in Nat
        /\ StageFrom(phase'[q], pc'[q], method'[q]) < StageFrom(phase[q], pc[q], method[q])
    BY <1>4, StageAdvances
  <2> DEFINE a == StageFrom(phase[q], pc[q], method[q])
             b == StageFrom(phase'[q], pc'[q], method'[q])
  <2>5. StepsLeft(q) = 14 * n + 1 + a /\ StepsLeft(q)' = 14 * n + 1 + b
    BY <2>3
  <2>6. a \in Nat /\ b \in Nat /\ b < a
    BY <2>4
  <2> HIDE DEF n, a, b
  <2> QED BY <1>2, <2>5, <2>6
<1> QED BY <1>3, <1>4

LEMMA OwnStepAdvances ==
  ASSUME Typed, Typed', FiniteTable, CallsInPhase, NEW q \in Runs, RunStep(q) \/ Error(q)
  PROVE  StepsLeft(q)' < StepsLeft(q)
  BY OutsideLoopAdvances, LoopAdvances DEF RunStep

\* What the others do leaves the measure alone.
LEMMA OthersKeepSteps ==
  ASSUME Typed, NEW r \in Runs,
         \/ StreamAppends \/ Tick \/ UNCHANGED vars
         \/ \E q \in Runs \ {r} : RunStep(q) \/ Error(q)
  PROVE  StepsLeft(r)' = StepsLeft(r)
<1>1. phase'[r] = phase[r] /\ todo'[r] = todo[r] /\ method'[r] = method[r] /\ pc'[r] = pc[r]
  <2>1. CASE StreamAppends \/ Tick \/ UNCHANGED vars
    BY <2>1 DEF StreamAppends, Tick, L!Tick, vars, lockVars, runVars
  <2>2. ASSUME NEW q \in Runs \ {r}, RunStep(q) \/ Error(q)
        PROVE  /\ phase'[r] = phase[r] /\ todo'[r] = todo[r] /\ method'[r] = method[r]
               /\ pc'[r] = pc[r]
    <3>1. pc'[r] = pc[r]
      BY <2>2, CallOfOne, NoLockCall DEF Typed, RunInv, RunStep, Error, lockVars
    <3> QED BY <2>2, <3>1, OneRun DEF Typed
  <2> QED BY <2>1, <2>2
<1> QED BY <1>1, StepsAre

Countable == \A r \in Runs : StepsLeft(r) \in Nat

LEMMA StepsCountable ==
  /\ Typed /\ CallsInPhase => Countable
  /\ Typed' /\ CallsInPhase' => Countable'
<1>1. Typed /\ CallsInPhase => Countable
  BY StepsAreNumbers DEF Countable
<1>2. Typed' /\ CallsInPhase' => Countable'
  BY <1>1, PTL
<1> QED BY <1>1, <1>2

LEMMA StepsStep ==
  ASSUME Typed, Typed', FiniteTable, CallsInPhase, CallsInPhase', Next, NEW r \in Runs
  PROVE  /\ StepsLeft(r)' \in Nat /\ StepsLeft(r)' <= StepsLeft(r)
         /\ RunStep(r) \/ Error(r) => StepsLeft(r)' < StepsLeft(r)
<1>1. StepsLeft(r) \in Nat
  BY StepsAreNumbers
<1>2. StepsLeft(r)' \in Nat
  BY StepsCountable DEF Countable
<1>3. RunStep(r) \/ Error(r) => StepsLeft(r)' < StepsLeft(r)
  BY OwnStepAdvances
<1>4. ~(RunStep(r) \/ Error(r)) => StepsLeft(r)' = StepsLeft(r)
  BY OthersKeepSteps DEF Next
<1> QED BY <1>1, <1>2, <1>3, <1>4

LEMMA StepsSettled == Spec => [](Typed /\ FiniteTable /\ CallsInPhase)
<1>1. Init => FiniteTable /\ CallsInPhase
  BY FS_EmptySet DEF Init, T!Init, FiniteTable, CallsInPhase
<1>2. Typed /\ FiniteTable /\ [Next]_vars => FiniteTable'
  BY TableStep, FiniteStep DEF Typed, RunInv
<1> QED BY <1>1, <1>2, CallsStep, SummariesHold, PTL DEF Spec

\* A run never starts over, polls or tries a third time: each of its own steps
\* shortens its way to the end, and nothing that the other runs, the streaming
\* job or the clock do lengthens it.
THEOREM RunAdvancesHolds == Spec => RunAdvances
<1>1. ASSUME Typed, Typed', FiniteTable, CallsInPhase, CallsInPhase', [Next]_vars
      PROVE  [\A r \in Runs : /\ StepsLeft(r)' <= StepsLeft(r)
                              /\ RunStep(r) \/ Error(r) => StepsLeft(r)' < StepsLeft(r)]_vars
  BY <1>1, StepsStep
<1> QED BY <1>1, StepsSettled, PTL DEF RunAdvances, Spec

\* It starts with 14 steps to come for each partition and four around the loop.
Limited == \A r \in Runs : StepsLeft(r) <= StepsPerPartition * Cardinality(Partitions) + 4

\* So the number of its own steps is bounded by the number of partitions alone.
THEOREM StepsBounded ==
  Spec => [](\A r \in Runs :
                StepsLeft(r) \in 0..(StepsPerPartition * Cardinality(Partitions) + 4))
<1>1. Init => Limited
  <2>1. ASSUME Init, NEW r \in Runs
        PROVE  StepsLeft(r) = StepsPerPartition * Cardinality(Partitions) + 4
    BY <2>1, StepsToTheLoop, StepsAsNumbers, StepsAre DEF Init
  <2>2. Cardinality(Partitions) \in Nat
    BY RunsAssumption, FS_CardinalityType
  <2> QED BY <2>1, <2>2, StepsAsNumbers DEF Limited
<1>2. ASSUME Typed, Typed', FiniteTable, CallsInPhase, CallsInPhase', Limited, [Next]_vars
      PROVE  Limited'
  <2> SUFFICES ASSUME NEW r \in Runs
               PROVE  StepsLeft(r)' <= StepsPerPartition * Cardinality(Partitions) + 4
    BY DEF Limited
  <2>1. StepsLeft(r)' <= StepsLeft(r) /\ StepsLeft(r)' \in Nat /\ StepsLeft(r) \in Nat
    <3>1. CASE Next
      BY <1>2, <3>1, StepsStep, StepsAreNumbers
    <3>2. CASE UNCHANGED vars
      BY <1>2, <3>2, OthersKeepSteps, StepsAreNumbers
    <3> QED BY <1>2, <3>1, <3>2
  <2>2. StepsLeft(r) <= StepsPerPartition * Cardinality(Partitions) + 4
    BY <1>2 DEF Limited
  <2>3. Cardinality(Partitions) \in Nat
    BY RunsAssumption, FS_CardinalityType
  <2> QED BY <2>1, <2>2, <2>3, StepsAsNumbers
<1>3. Typed /\ CallsInPhase /\ Limited =>
         \A r \in Runs : StepsLeft(r) \in 0..(StepsPerPartition * Cardinality(Partitions) + 4)
  <2> SUFFICES ASSUME Typed, CallsInPhase, Limited, NEW r \in Runs
               PROVE  StepsLeft(r) \in 0..(StepsPerPartition * Cardinality(Partitions) + 4)
    OBVIOUS
  <2>1. StepsLeft(r) \in Nat /\ Cardinality(Partitions) \in Nat
    BY StepsAreNumbers, RunsAssumption, FS_CardinalityType
  <2> QED BY <2>1, StepsAsNumbers DEF Limited
<1> QED BY <1>1, <1>2, <1>3, StepsSettled, PTL DEF Spec

(***************************************************************************)
(* A rewrite writes more files than it needs only because of dead ones     *)
(***************************************************************************)

\* Whatever a scan found is still in the bucket as it was found.
StillListed == \A r \in Runs : \A p \in DOMAIN listing[r] : listing[r][p] \subseteq Listed(p)

LEMMA StillListedStep == Typed /\ StillListed /\ [Next]_vars => StillListed'
<1> SUFFICES ASSUME Typed, StillListed, [Next]_vars, NEW r \in Runs
             PROVE  \A p \in DOMAIN listing'[r] : listing'[r][p] \subseteq Listed(p)'
  BY DEF StillListed
<1>1. \A p : Listed(p) \subseteq Listed(p)'
  BY OnlyForward DEF Typed, Listed, T!StoredIn
<1>2. CASE listing'[r] = listing[r]
  BY <1>1, <1>2 DEF StillListed
<1>3. CASE Scan(r)
  <2>1. listing'[r] = ScanPartitions
    BY <1>3 DEF Scan, Typed, RunTypes
  <2> QED BY <1>1, <2>1 DEF ScanPartitions
<1> QED BY <1>2, <1>3, ListingKept

\* Files that the bucket shows and the snapshot has hold different rows of the
\* snapshot, so their sizes add up to no more than it has.
LEMMA LiveBytes ==
  ASSUME overwritten = {}, FiniteTable, T!TypeOK, RowsExactlyOnce, TP!NamesUnique, NEW p,
         NEW files \in SUBSET Listed(p),
         \A l \in files : \E f \in T!LiveIn(p) : l.key = <<f.txn, f.idx>>
  PROVE  LET rows == T!RowsOf(T!LiveIn(p))
         IN  /\ TotalBytes(files) \in Nat /\ Cardinality(rows) \in Nat
             /\ TotalBytes(files) <= Cardinality(rows)
<1> DEFINE fileOf == [l \in files |-> CHOOSE f \in T!LiveIn(p) : l.key = <<f.txn, f.idx>>]
           rowsOf == [l \in files |-> fileOf[l].rows]
           size == [l \in files |-> l.size_bytes]
           planned == UNION {rowsOf[l] : l \in files}
           rows == T!RowsOf(T!LiveIn(p))
<1>1. \A l \in files : fileOf[l] \in T!LiveIn(p) /\ l.key = <<fileOf[l].txn, fileOf[l].idx>>
  OBVIOUS
<1> HIDE DEF fileOf
<1>2. T!LiveIn(p) \subseteq objects /\ \A f \in T!LiveIn(p) : f \in live /\ f.part = p
  BY DEF T!LiveIn, T!TypeOK
<1>3. \A l \in files : l = [key |-> <<fileOf[l].txn, fileOf[l].idx>>,
                            size_bytes |-> Cardinality(fileOf[l].rows),
                            last_modified |-> fileOf[l].at]
  <2> SUFFICES ASSUME NEW l \in files
               PROVE  l = [key |-> <<fileOf[l].txn, fileOf[l].idx>>,
                           size_bytes |-> Cardinality(fileOf[l].rows),
                           last_modified |-> fileOf[l].at]
    OBVIOUS
  <2>1. PICK h \in T!StoredIn(p) : l = [key |-> <<h.txn, h.idx>>,
                                        size_bytes |-> Cardinality(h.rows),
                                        last_modified |-> h.at]
    BY DEF Listed
  <2>2. h = fileOf[l]
    <3>1. h \in objects /\ h.part = p /\ l.key = <<h.txn, h.idx>>
      BY <2>1 DEF T!StoredIn
    <3>2. h.txn = fileOf[l].txn /\ h.idx = fileOf[l].idx /\ h.part = fileOf[l].part
      BY <1>1, <1>2, <3>1
    <3> QED BY <1>1, <1>2, <3>1, <3>2 DEF TP!NamesUnique
  <2> QED BY <2>1, <2>2
<1>4. IsFiniteSet(files)
  BY ListedType, FS_Subset
<1>5. \A l \in files : IsFiniteSet(rowsOf[l]) /\ size[l] = Cardinality(rowsOf[l])
  BY <1>1, <1>2, <1>3 DEF FiniteTable
<1>6. \A l, m \in files : l # m => rowsOf[l] \cap rowsOf[m] = {}
  <2> SUFFICES ASSUME NEW l \in files, NEW m \in files, l # m
               PROVE  fileOf[l].rows \cap fileOf[m].rows = {}
    OBVIOUS
  <2>1. fileOf[l] # fileOf[m]
    BY <1>3
  <2> QED BY <1>1, <1>2, <2>1 DEF RowsExactlyOnce, T!RowsExactlyOnce
<1>7. planned \subseteq rows
  BY <1>1 DEF T!RowsOf
<1>8. IsFiniteSet(rows)
  BY FiniteRows
<1> HIDE DEF rowsOf, size, rows
<1>9. IsFiniteSet(planned) /\ SumFunctionOnSet(size, files) = Cardinality(planned)
  <2>1. AreParts(files, rowsOf, size)
    BY <1>4, <1>5, <1>6 DEF AreParts
  <2> QED BY <2>1, SumOfParts
<1>10. TotalBytes(files) = SumFunctionOnSet(size, files)
  BY DEF TotalBytes, SumFunction, SumFunctionOnSet, FoldFunction, size
<1> HIDE DEF planned
<1>11. /\ Cardinality(planned) \in Nat /\ Cardinality(rows) \in Nat
       /\ Cardinality(planned) <= Cardinality(rows)
  BY <1>7, <1>8, FS_Subset, FS_CardinalityType
<1> QED BY <1>9, <1>10, <1>11 DEF rows

\* The estimate is never one file more than the bytes need.
LEMMA EstimateIsTight ==
  ASSUME NEW bytes \in Nat
  PROVE  LET n == EstimateOutputFileCount(bytes)
         IN  n \in Nat \ {0} /\ (n = 1 \/ (n - 1) * target_file_size_bytes < bytes)
<1> DEFINE t == target_file_size_bytes
           n == (bytes + t - 1) \div t
<1>1. t \in Nat \ {0}
  BY PolicyAssumption
<1>2. CASE bytes <= 0
  BY <1>2 DEF EstimateOutputFileCount
<1>3. CASE bytes > 0
  <2>1. EstimateOutputFileCount(bytes) = n
    BY <1>3 DEF EstimateOutputFileCount
  <2> HIDE DEF t
  <2>2. n \in Int /\ n * t <= bytes + t - 1 /\ bytes + t - 1 < n * t + t
    BY <1>1, RoundUp
  <2> HIDE DEF n
  <2>3. n > 0
    <3> SUFFICES ASSUME n <= 0 PROVE FALSE
      BY <2>2
    <3>1. n * t <= 0 * t
      BY <1>1, <2>2, TimesGrows
    <3> QED BY <1>1, <1>3, <2>2, <3>1
  <2>4. (n - 1) * t = n * t - t
    BY <1>1, <2>2, TimesLess
  <2>5. n * t \in Int
    BY <1>1, <2>2
  <2> DEFINE nt == n * t
  <2>6. nt - t < bytes
    <3> HIDE DEF nt
    <3>1. nt \in Int /\ nt <= bytes + t - 1
      BY <2>2, <2>5 DEF nt
    <3> QED BY <1>1, <3>1
  <2>7. (n - 1) * t < bytes
    BY <2>4, <2>6
  <2>8. n \in Nat \ {0}
    BY <2>2, <2>3
  <2> QED BY <2>1, <2>7, <2>8 DEF t
<1> QED BY <1>2, <1>3

\* A rewrite into n files writes no more than n.
LEMMA AtMost ==
  ASSUME NEW p, NEW n \in Nat, NEW now
  PROVE  LET out == T!Rewritten(p, n, now)
         IN  Cardinality(out) \in Nat /\ Cardinality(out) <= n
<1> DEFINE file == [i \in 0..(n - 1) |-> T!RewrittenFile(p, n, i, now)]
           written == {file[i] : i \in 0..(n - 1)}
           out == T!Rewritten(p, n, now)
<1>1. out \subseteq written
  BY DEF T!Rewritten
<1>2. IsFiniteSet(0..(n - 1)) /\ Cardinality(0..(n - 1)) = n
  BY FS_Interval
<1>3. file \in Surjection(0..(n - 1), written)
  BY DEF Surjection
<1> HIDE DEF file, out
<1>4. IsFiniteSet(written) /\ Cardinality(written) <= n
  BY <1>2, <1>3, FS_Surjection
<1> HIDE DEF written
<1>5. Cardinality(out) \in Nat /\ Cardinality(written) \in Nat
      /\ Cardinality(out) <= Cardinality(written)
  BY <1>1, <1>4, FS_Subset, FS_CardinalityType
<1> QED BY <1>4, <1>5 DEF out

\* What FragmentsOnlyFromDeadFiles says of one run.
Tight(r) ==
    T!Writing(r) =>
        \/ (Cardinality(txn[r].out) - 1) * target_file_size_bytes
              < Cardinality(T!RowsOf(txn[r].base))
        \/ \E l \in listing[r][part[r]] : \A f \in txn[r].base : l.key # <<f.txn, f.idx>>
        \/ overwritten # {}

LEMMA TightBegin ==
  ASSUME Typed, FiniteTable, RowsExactlyOnce, TP!NamesUnique, StillListed, Solid,
         NEW r \in Runs, BeginRewrite(r)
  PROVE  Tight(r)'
<1> DEFINE p == part[r]
           n == OutputFiles(r)
           out == T!Rewritten(p, n, clock)
           base == T!LiveIn(p)
           size == Cardinality(T!RowsOf(base))
           files == listing[r][p]
           t == target_file_size_bytes
<1>1. T!TypeOK /\ RunTypes
  BY DEF Typed, RunInv
<1>2. /\ txn'[r].out = out /\ txn'[r].base = base /\ base # {}
      /\ UNCHANGED <<part, listing, overwritten>> /\ n \in Nat /\ phase[r] = "rewrite"
  <2>1. /\ T!Begin(r, base, out) /\ base # {}
        /\ UNCHANGED <<part, listing, overwritten>>
        /\ n \in Nat /\ phase[r] = "rewrite"
    BY BoundsAssumption DEF BeginRewrite, T!WriteRewrite, T!Begin, T!logVars, lockVars
  <2> HIDE DEF base, out
  <2> QED BY <1>1, <2>1 DEF T!Begin, T!Transaction, T!TypeOK
<1>3. p \in DOMAIN listing[r] /\ files \in SUBSET Listed(p)
  BY <1>1, <1>2 DEF RunTypes, ListingOf, Busy, Working, StillListed
<1> SUFFICES ASSUME overwritten = {},
                    \A l \in files : \E f \in base : l.key = <<f.txn, f.idx>>
             PROVE  (Cardinality(out) - 1) * t < size
  <2> HIDE DEF out, base, t
  <2> QED BY <1>2 DEF Tight, t, p
<1>4. TotalBytes(files) \in Nat /\ size \in Nat /\ TotalBytes(files) <= size
  BY <1>1, <1>3, LiveBytes
<1>5. size > 0
  <2>1. PICK f \in base : f.rows # {}
    BY <1>1, <1>2, SolidLive DEF T!LiveIn
  <2>2. T!RowsOf(base) # {}
    BY <2>1 DEF T!RowsOf
  <2>3. IsFiniteSet(T!RowsOf(base))
    BY <1>1, FiniteRows
  <2>4. size # 0
    BY <2>2, <2>3, FS_EmptySet
  <2> QED BY <1>4, <2>4
<1>6. (n - 1) * t < size
  <2>1. CASE n = 1
    <3>1. t \in Nat
      BY PolicyAssumption
    <3>2. (n - 1) * t = 0
      <4> HIDE DEF n, t
      <4> QED BY <2>1, <3>1
    <3> QED BY <1>5, <3>2
  <2>2. CASE n # 1
    <3>1. n = EstimateOutputFileCount(TotalBytes(files))
      BY <2>2 DEF OutputFiles
    <3>2. (n - 1) * t < TotalBytes(files)
      BY <1>4, <2>2, <3>1, EstimateIsTight
    <3>3. (n - 1) * t \in Int
      BY <1>2, PolicyAssumption
    <3> DEFINE x == (n - 1) * t
               b == TotalBytes(files)
    <3> HIDE DEF x, b, size
    <3>4. x < b /\ x \in Int /\ b \in Nat /\ size \in Nat /\ b <= size
      BY <1>4, <3>2, <3>3 DEF x, b
    <3>5. x < size
      BY <3>4
    <3> QED BY <3>5 DEF x
  <2> QED BY <2>1, <2>2
<1>7. Cardinality(out) \in Nat /\ Cardinality(out) <= n
  BY <1>2, AtMost
<1> DEFINE k == Cardinality(out) - 1
           m == n - 1
<1>8. k \in Int /\ m \in Int /\ k <= m
  <2> HIDE DEF out, n
  <2> QED BY <1>2, <1>7
<1>9. t \in Nat
  BY PolicyAssumption
<1> HIDE DEF size, t
<1>10. k * t \in Int /\ m * t \in Int /\ k * t <= m * t
  <2> HIDE DEF k, m
  <2> QED BY <1>8, <1>9, TimesGrows
<1>11. m * t < size
  BY <1>6
<1> DEFINE x == k * t
           y == m * t
<1> HIDE DEF k, m
<1>12. x \in Int /\ y \in Int /\ x <= y /\ y < size
  BY <1>10, <1>11
<1> HIDE DEF x, y
<1>13. x < size
  BY <1>4, <1>12
<1> QED BY <1>13 DEF x, k

\* Until its transaction ends, a run keeps its plan.
LEMMA PlanKept ==
  ASSUME Typed, [Next]_vars, NEW r \in Runs, T!Writing(r)', ~BeginRewrite(r)
  PROVE  T!Writing(r) /\ txn'[r] = txn[r] /\ part'[r] = part[r] /\ listing'[r] = listing[r]
<1> USE DEF Typed, RunInv
<1>1. ASSUME NEW q \in Runs, RunStep(q) \/ Error(q)
      PROVE  txn'[r] = txn[r] /\ part'[r] = part[r] /\ listing'[r] = listing[r]
  <2>1. CASE q # r
    <3>1. txn'[r] = txn[r]
      BY <1>1, <2>1, TxnOfOne, NoTableCall DEF RunStep, SparkWork, Error, tableVars
    <3> QED BY <1>1, <2>1, <3>1, OneRun
  <2>2. CASE q = r
    <3>1. ~CommitRewrite(r) /\ (T!Writing(r) => ~SparkFails(r) /\ ~Crash(r))
      BY DEF CommitRewrite, SparkFails, Crash, T!Commit, T!AddEntry,
         T!OverwriteEntry, T!Conflict, T!Abandon, T!End, T!Writing, T!TypeOK,
         T!logVars
    <3>2. txn' = txn
      <4>1. CASE SparkFails(r) \/ Crash(r)
        BY <3>1, <4>1 DEF SparkFails, Crash, tableVars
      <4>2. CASE ~(SparkFails(r) \/ Crash(r))
        <5>1. RunStep(r) \/ Error(r)
          BY <1>1, <2>2
        <5>2. UNCHANGED tableVars
          BY <3>1, <4>2, <5>1, NoTableCall DEF RunStep, SparkWork, Error
        <5> QED BY <5>2 DEF tableVars
      <4> QED BY <4>1, <4>2
    <3>3. phase[r] = "commit"
      BY <3>2 DEF WorksUnderLock, T!Writing
    <3>4. FALSE
      BY <1>1, <2>2, <3>1, <3>2, <3>3 DEF RunStep, Error, Prepare, LockWork, SparkWork, Verify,
         TableNotFound, Scan, TargetNotFound, CreateSparkSession, NextPartition, AcquireCall,
         LockRefused, LockAcquired, StartRelease, ReleaseCall, BeginRewrite, OptimizeNothing,
         CountFiles, SparkFails, FinishRun, VerifyFails, ScanFails, LockCallRaises, Crash, T!Writing
    <3> QED BY <3>4
  <2> QED BY <2>1, <2>2
<1>2. CASE StreamAppends \/ Tick \/ UNCHANGED vars
  <2>1. UNCHANGED <<runVars, part>>
    BY <1>2 DEF StreamAppends, Tick, L!Tick, vars, lockVars
  <2>2. txn'[r] = txn[r]
    BY <1>2, RunsAssumption DEF StreamAppends, Tick, vars, tableVars,
       T!WriteAppend, T!Begin, T!Commit, T!AddEntry, T!OverwriteEntry,
       T!Abandon, T!End, T!TypeOK, T!logVars
  <2>3. listing' = listing /\ part' = part
    BY <2>1 DEF runVars
  <2> QED BY <2>2, <2>3 DEF T!Writing
<1> QED BY <1>1, <1>2 DEF Next, T!Writing

\* A run writes more files than the rows need only if it planned with files that
\* were no longer in the table; batches that arrive after its scan and the
\* leftovers of its own failed attempt never have this effect. (A snapshot with a
\* replaced log entry may hold a row twice, and is left out.)
THEOREM FragmentsOnlyFromDeadFilesHolds == Spec => []FragmentsOnlyFromDeadFiles
<1>1. Init => StillListed /\ FragmentsOnlyFromDeadFiles
  BY DEF Init, T!Init, StillListed, FragmentsOnlyFromDeadFiles, T!Writing
<1>2. /\ Typed /\ FiniteTable /\ RowsExactlyOnce /\ TP!NamesUnique /\ StillListed /\ Seen
      /\ FragmentsOnlyFromDeadFiles /\ [Next]_vars
      => FragmentsOnlyFromDeadFiles'
  <2> SUFFICES ASSUME Typed, FiniteTable, RowsExactlyOnce, TP!NamesUnique, StillListed, Seen,
                      FragmentsOnlyFromDeadFiles, [Next]_vars, NEW r \in Runs
               PROVE  Tight(r)'
    BY DEF FragmentsOnlyFromDeadFiles, Tight
  <2>1. CASE BeginRewrite(r)
    BY <2>1, TightBegin DEF Seen
  <2>2. CASE ~BeginRewrite(r) /\ T!Writing(r)'
    <3>1. overwritten \subseteq overwritten'
      BY TableStep, TableStays DEF Typed, RunInv, Seen
    <3> QED BY <2>2, <3>1, PlanKept DEF FragmentsOnlyFromDeadFiles, Tight
  <2>3. CASE ~T!Writing(r)'
    BY <2>3 DEF Tight
  <2> QED BY <2>1, <2>2, <2>3
<1>3. Typed /\ Seen /\ [Next]_vars => Seen'
  BY SeenStep
<1> QED BY <1>1, <1>2, <1>3, SeenInit, StillListedStep, StepsSettled, RowsExactlyOnceHolds,
       TableNamesHold, PTL DEF Spec
=============================================================================
