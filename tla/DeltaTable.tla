----------------------------- MODULE DeltaTable -----------------------------
(***************************************************************************)
(* The Delta table as the writers of this repository use it: the streaming *)
(* job appends (process_batch), the compactor rewrites one partition       *)
(* (OPTIMIZE, or overwrite with replaceWhere). A writer first puts its     *)
(* Parquet files into the bucket and then an entry into the log; what      *)
(* counts is the log, but the compactor's scanner lists the bucket.        *)
(*                                                                         *)
(* Delta Lake's transaction protocol is not code of this repository. It is *)
(* modelled as far as the writers rely on it: an entry is written only if  *)
(* no entry since the snapshot the transaction read removes one of its     *)
(* files, and only under a version that has none yet. The writers are      *)
(* Spark drivers of their own on s3a, and neither the job nor the          *)
(* compactor configures a log store. Delta's default there looks whether   *)
(* the version exists and then PUTs the entry; its lock reaches no other   *)
(* driver. So a driver may look, be overtaken, and replace the entry of    *)
(* another one: OverwriteEntry.                                            *)
(*                                                                         *)
(* An append that conflicts in the Serializable level, Delta's default, is *)
(* covered by Abandon: a writer may fail before its commit at any time.    *)
(*                                                                         *)
(* The rows that one batch has in one partition stay together until a      *)
(* rewrite; they are one element <<batch, partition>> here.                *)
(***************************************************************************)
EXTENDS Integers, Sequences, FiniteSets

CONSTANTS
    Writers,     \* Spark jobs that may write the table
    Partitions,
    MaxTxns,     \* bound of the model: number of transactions begun
    MaxFiles,    \* bound of the model: number of files a rewrite is split into
    MaxOverwrites,  \* bound of the model: log entries replaced by another driver
    Times,       \* times at which files may be written
    NoTxn

ASSUME BoundsAssumption == {MaxTxns, MaxFiles, MaxOverwrites} \subseteq Nat
ASSUME TimesAssumption == Times \subseteq Nat

Rows == Nat \X Partitions

File == [txn  : Nat,           \* the transaction that wrote it: with idx and
         idx  : Nat,           \* part this is the unique name of the file
         part : Partitions,
         rows : SUBSET Rows,
         at   : Nat]           \* LastModified

\* What a commit adds to the log: the files it removes and those it adds, and
\* the version of the table its writer has read.
Txn == [id : Nat, read : Nat, base : SUBSET File, out : SUBSET File]

ASSUME NoTxnAssumption == NoTxn \notin Txn

VARIABLES
    objects,     \* Parquet objects in the bucket
    log,         \* _delta_log: log[v] is the entry of version v
    live,        \* the files of the latest snapshot: what the log replays to
    overwritten, \* history: entries that were replaced, and their versions
    txn,         \* txn[w]: what w is about to commit
    nextTxn      \* number of transactions begun so far

tableVars == <<objects, log, live, overwritten, txn, nextTxn>>
logVars == <<log, live, overwritten>>

RowsOf(files) == UNION {f.rows : f \in files}

LiveIn(p) == {f \in live : f.part = p}

StoredIn(p) == {f \in objects : f.part = p}

Writing(w) == txn[w] # NoTxn

\* The files that an entry of the log l adds and no later one removes.
Snapshot(l) ==
    UNION {{f \in l[i].out : \A j \in (i + 1)..Len(l) : f \notin l[j].base} :
              i \in DOMAIN l}

TypeOK ==
    /\ objects \in SUBSET File
    /\ log \in Seq(Txn)
    /\ live \in SUBSET objects
    /\ live = Snapshot(log)
    /\ overwritten \in SUBSET [version : DOMAIN log, entry : Txn]
    /\ txn \in [Writers -> Txn \cup {NoTxn}]
    /\ nextTxn \in 0..MaxTxns

Init ==
    /\ objects = {}
    /\ log = <<>>
    /\ live = {}
    /\ overwritten = {}
    /\ txn = [w \in Writers |-> NoTxn]
    /\ nextTxn = 0

-----------------------------------------------------------------------------

Transaction(base, out) ==
    [id |-> nextTxn, read |-> Len(log), base |-> base, out |-> out]

\* Wrong: the commit may come before the files.
WrongBegin(w, base, out) ==
    /\ ~Writing(w)
    /\ nextTxn < MaxTxns
    /\ txn' = [txn EXCEPT ![w] = Transaction(base, out)]
    /\ nextTxn' = nextTxn + 1
    /\ UNCHANGED <<objects, logVars>>

\* w's files are in the bucket, its commit is still to come.
Begin(w, base, out) ==
    /\ ~Writing(w)
    /\ nextTxn < MaxTxns
    /\ objects' = objects \cup out
    /\ txn' = [txn EXCEPT ![w] = Transaction(base, out)]
    /\ nextTxn' = nextTxn + 1
    /\ UNCHANGED logVars

AppendFile(b, p, now) ==
    [txn |-> b, idx |-> 0, part |-> p, rows |-> {<<b, p>>}, at |-> now]

\* A micro-batch with rows in the partitions P, in append mode.
WriteAppend(w, P, now) ==
    /\ P # {}
    /\ Begin(w, {}, {AppendFile(nextTxn, p, now) : p \in P})

\* repartition(n): round robin, and no file for an empty part.
RewrittenFile(p, n, i, now) ==
    [txn  |-> nextTxn, idx |-> i, part |-> p, at |-> now,
     rows |-> {r \in RowsOf(LiveIn(p)) : r[1] % n = i}]

Rewritten(p, n, now) ==
    {f \in {RewrittenFile(p, n, i, now) : i \in 0..(n - 1)} : f.rows # {}}

\* A rewrite of partition p into n files: it reads and replaces what is in p
\* when it begins. With nothing in p there is nothing to begin.
WriteRewrite(w, p, n, now) ==
    /\ LiveIn(p) # {}
    /\ Begin(w, LiveIn(p), Rewritten(p, n, now))

End(w) ==
    /\ txn' = [txn EXCEPT ![w] = NoTxn]
    /\ UNCHANGED <<objects, nextTxn>>

\* What a writer may have found under version v: the entry, or one that has
\* been replaced since.
Found(v) == {log[v]} \cup {o.entry : o \in {q \in overwritten : q.version = v}}

\* Conflict detection by a writer that is about to write version v.
Checked(w, v) ==
    \A j \in (txn[w].read + 1)..(v - 1) :
        \E e \in Found(j) : e.base \cap txn[w].base = {}

\* Wrong: no conflict detection.
WrongCanCommit(w) == Writing(w)

CanCommit(w) == Writing(w) /\ Checked(w, Len(log) + 1)

\* No driver comes between the look and the PUT.
AddEntry(w) ==
    /\ CanCommit(w)
    /\ log' = Append(log, txn[w])
    /\ live' = (live \ txn[w].base) \cup txn[w].out
    /\ UNCHANGED overwritten
    /\ End(w)

\* Version v did not exist when w looked; its PUT replaces what another driver
\* has put there. Neither of the two learns of it.
OverwriteEntry(w) ==
    /\ Writing(w)
    /\ Cardinality(overwritten) < MaxOverwrites
    /\ \E v \in (txn[w].read + 1)..Len(log) :
          /\ Checked(w, v)
          /\ log' = [log EXCEPT ![v] = txn[w]]
          /\ overwritten' = overwritten \cup {[version |-> v, entry |-> log[v]]}
    /\ live' = Snapshot(log')
    /\ End(w)

\* Wrong: the replaced files are not removed from the snapshot.
WrongCommitKeeps(w) ==
    /\ CanCommit(w)
    /\ log' = Append(log, [txn[w] EXCEPT !.base = {}])
    /\ live' = Snapshot(log')
    /\ UNCHANGED overwritten
    /\ End(w)

\* Wrong: the last commit wins, with all that is in the partitions by now.
WrongCommitLastWins(w) ==
    /\ CanCommit(w)
    /\ log' = Append(log, [txn[w] EXCEPT
                  !.base = {f \in live : \E g \in @ : f.part = g.part}])
    /\ live' = Snapshot(log')
    /\ UNCHANGED overwritten
    /\ End(w)

\* Wrong: the replaced files are deleted with the commit.
WrongCommitDeletes(w) ==
    /\ CanCommit(w)
    /\ log' = Append(log, txn[w])
    /\ live' = Snapshot(log')
    /\ objects' = objects \ txn[w].base
    /\ txn' = [txn EXCEPT ![w] = NoTxn]
    /\ UNCHANGED <<overwritten, nextTxn>>

Commit(w) == AddEntry(w) \/ OverwriteEntry(w)

\* ConcurrentDeleteRead: another rewrite has replaced one of the base files.
Conflict(w) ==
    /\ Writing(w)
    /\ ~CanCommit(w)
    /\ End(w)
    /\ UNCHANGED logVars

\* The writer fails or dies before its commit; its files stay behind.
Abandon(w) ==
    /\ Writing(w)
    /\ End(w)
    /\ UNCHANGED logVars

-----------------------------------------------------------------------------

Next == \E w \in Writers :
    \/ \E P \in SUBSET Partitions, now \in Times : WriteAppend(w, P, now)
    \/ \E p \in Partitions, n \in 1..MaxFiles, now \in Times :
          WriteRewrite(w, p, n, now)
    \/ Commit(w)
    \/ Conflict(w)
    \/ Abandon(w)

Spec == Init /\ [][Next]_tableVars

-----------------------------------------------------------------------------
(* Properties                                                              *)

\* However rewrites and appends of several writers interleave and fail, a
\* reader finds every row in the partition it belongs to and, as long as no
\* driver has replaced the log entry of another one, no row twice.
RowsExactlyOnce ==
    /\ overwritten = {} => \A f, g \in live : f # g => f.rows \cap g.rows = {}
    /\ \A f \in live : \A r \in f.rows : r[2] = f.part

\* Transactions that committed and whose entries were replaced.
Lost == {o.entry.id : o \in overwritten}

Events == INSTANCE EventTable
            WITH Batches <- 0..MaxTxns,
                 lost <- Lost,
                 content <- {r \in RowsOf(live) : r[1] \notin Lost}

\* To a reader the table gains whole batches and loses none but those whose own
\* log entries were replaced: neither a replaced entry nor what came before or
\* after it takes another batch with it, although rewrites may have removed
\* its files and moved its rows. Rewrites, conflicts, failures and leftover
\* files are invisible.
ImplementsEventTable == Events!Spec
=============================================================================
