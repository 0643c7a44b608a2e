---------------------------- MODULE StreamingJob ----------------------------
(***************************************************************************)
(* src/src/streaming/spark_streaming_job.py: process_batch, run by Spark's *)
(* micro-batch engine on one partition of the Kafka topic. The engine (not *)
(* part of the repository) logs the end offset of a batch before it calls  *)
(* process_batch and logs its completion afterwards; after a failure the   *)
(* container is restarted and a batch without completion is run again with *)
(* the same offsets.                                                       *)
(*                                                                         *)
(* The batch is not cached: each use of it reads the topic again, and what *)
(* the topic no longer retains is skipped (failOnDataLoss is false).       *)
(***************************************************************************)
EXTENDS Integers, Sequences, FiniteSets, Functions

CONSTANTS
    Events,
    BadEvents,     \* events for which rejection_reason_column has a reason
    MaxOffset,     \* bound of the model: length of the topic
    MaxCrashes     \* bound of the model: failures of the job

ASSUME StreamAssumption ==
    /\ BadEvents \subseteq Events
    /\ {MaxOffset, MaxCrashes} \subseteq Nat

VARIABLES
    topic,       \* the events by offset
    expired,     \* offsets up to here are no longer retained
    origin,      \* offset the query began after; NotYet before its first start
    planned,     \* checkpoint: end of the last batch begun
    committed,   \* checkpoint: end of the last batch completed
    at,          \* the next statement of process_batch, or where the query is
    counts,      \* valid_count and bad_count
    raw,         \* copies of each offset's event in the raw table
    quarantine,  \* the same for the quarantine table
    logged,      \* lines of the quality metrics file
    crashes

checkpoint == <<origin, planned, committed>>
tables == <<raw, quarantine>>
jobVars == <<expired, checkpoint, at, counts, tables, logged, crashes>>
streamVars == <<topic, jobVars>>

NotYet == -1
Offsets == 1..MaxOffset
NoCounts == [valid |-> 0, bad |-> 0]
Statements ==
    {"empty?", "count_valid", "count_bad", "append", "quarantine", "metrics"}

TypeOK ==
    /\ topic \in Seq(Events) /\ Len(topic) <= MaxOffset
    /\ expired \in 0..Len(topic)
    /\ origin \in Nat \cup {NotYet}
    /\ origin <= committed /\ committed <= planned /\ planned <= Len(topic)
    /\ {planned, committed} \subseteq Int
    /\ at \in Statements \cup {"down", "idle", "commit"}
    /\ counts \in [valid : Nat, bad : Nat]
    /\ raw \in [Offsets -> Nat] /\ quarantine \in [Offsets -> Nat]
    /\ logged \in Seq([from : Nat, to : Nat, valid : Nat, bad : Nat])
    /\ crashes \in 0..MaxCrashes

StreamInit ==
    /\ topic = <<>> /\ expired = 0
    /\ origin = NotYet /\ planned = NotYet /\ committed = NotYet
    /\ at = "down"
    /\ counts = NoCounts
    /\ raw = [o \in Offsets |-> 0] /\ quarantine = [o \in Offsets |-> 0]
    /\ logged = <<>>
    /\ crashes = 0

-----------------------------------------------------------------------------
(* The topic                                                               *)

Publish(e) ==
    /\ Len(topic) < MaxOffset
    /\ topic' = Append(topic, e)
    /\ UNCHANGED jobVars

Expire ==
    /\ expired < Len(topic)
    /\ expired' = expired + 1
    /\ UNCHANGED <<topic, checkpoint, at, counts, tables, logged, crashes>>

-----------------------------------------------------------------------------
(* The engine                                                              *)

\* startingOffsets is "latest": without a checkpoint the query begins at the
\* end of the topic. (Its first batch is then empty and is left out.)
FirstStart ==
    /\ at = "down" /\ origin = NotYet
    /\ origin' = Len(topic) /\ planned' = Len(topic) /\ committed' = Len(topic)
    /\ at' = "idle"
    /\ UNCHANGED <<topic, expired, counts, tables, logged, crashes>>

\* Wrong: a batch that was begun is taken for completed.
WrongRestart ==
    /\ at = "down" /\ origin # NotYet
    /\ committed' = planned
    /\ at' = "idle"
    /\ UNCHANGED <<topic, expired, origin, planned, counts, tables, logged, crashes>>

\* Wrong: every start begins at the latest offset, but for the plan.
WrongRestartLatest ==
    /\ at = "down" /\ origin # NotYet
    /\ committed' = Len(topic)
    /\ at' = IF committed < planned THEN "empty?" ELSE "idle"
    /\ UNCHANGED <<topic, expired, origin, planned, counts, tables, logged, crashes>>

Restart ==
    /\ at = "down" /\ origin # NotYet
    /\ at' = IF committed < planned THEN "empty?" ELSE "idle"
    /\ UNCHANGED <<topic, expired, checkpoint, counts, tables, logged, crashes>>

PlanBatch ==
    /\ at = "idle"
    /\ planned < Len(topic)
    /\ planned' = Len(topic)
    /\ at' = "empty?"
    /\ UNCHANGED <<topic, expired, origin, committed, counts, tables, logged, crashes>>

\* Wrong: the completion is not logged.
WrongCommitBatch ==
    /\ at = "commit"
    /\ at' = "idle"
    /\ counts' = NoCounts
    /\ UNCHANGED <<topic, expired, checkpoint, tables, logged, crashes>>

CommitBatch ==
    /\ at = "commit"
    /\ committed' = planned
    /\ at' = "idle"
    /\ counts' = NoCounts
    /\ UNCHANGED <<topic, expired, origin, planned, tables, logged, crashes>>

\* Any statement may raise, before or after it took effect, and the process may
\* be killed: the query ends and the container is restarted.
Crash ==
    /\ at # "down"
    /\ crashes < MaxCrashes
    /\ crashes' = crashes + 1
    /\ at' = "down"
    /\ counts' = NoCounts
    /\ UNCHANGED <<topic, expired, checkpoint, tables, logged>>

-----------------------------------------------------------------------------
(* process_batch                                                           *)

\* What reading the batch yields now; classify_batch splits it in two.
Batch == {o \in Offsets : committed < o /\ o <= planned /\ expired < o}
Valid == {o \in Batch : topic[o] \notin BadEvents}
Quarantined == Batch \ Valid

Statement(this, next) ==
    /\ at = this
    /\ at' = next
    /\ UNCHANGED <<topic, expired, checkpoint, crashes>>

IsEmpty ==
    /\ \/ Batch = {} /\ Statement("empty?", "commit")
       \/ Batch # {} /\ Statement("empty?", "count_valid")
    /\ UNCHANGED <<counts, tables, logged>>

CountValid ==
    /\ Statement("count_valid", "count_bad")
    /\ counts' = [counts EXCEPT !.valid = Cardinality(Valid)]
    /\ UNCHANGED <<tables, logged>>

CountBad ==
    /\ Statement("count_bad", "append")
    /\ counts' = [counts EXCEPT !.bad = Cardinality(Quarantined)]
    /\ UNCHANGED <<tables, logged>>

OneMore(copies, S) == [o \in Offsets |-> copies[o] + IF o \in S THEN 1 ELSE 0]

\* Wrong: the two counts are mixed up in the test.
WrongAppendValid ==
    /\ Statement("append", "quarantine")
    /\ raw' = IF counts.bad > 0 THEN OneMore(raw, Valid) ELSE raw
    /\ UNCHANGED <<counts, quarantine, logged>>

\* A plain append: nothing in it tells a replayed batch from a new one.
AppendValid ==
    /\ Statement("append", "quarantine")
    /\ raw' = IF counts.valid > 0 THEN OneMore(raw, Valid) ELSE raw
    /\ UNCHANGED <<counts, quarantine, logged>>

AppendQuarantined ==
    /\ Statement("quarantine", "metrics")
    /\ quarantine' = IF counts.bad > 0 THEN OneMore(quarantine, Quarantined)
                                       ELSE quarantine
    /\ UNCHANGED <<counts, raw, logged>>

\* Wrong: a line for batches with rejected events only.
WrongWriteMetrics ==
    /\ Statement("metrics", "commit")
    /\ logged' = IF counts.bad = 0 THEN logged
                 ELSE Append(logged, [from |-> committed, to |-> planned,
                                      valid |-> counts.valid, bad |-> counts.bad])
    /\ UNCHANGED <<counts, tables>>

\* Wrong: the total goes where the valid count belongs.
WrongMetricsTotal ==
    /\ Statement("metrics", "commit")
    /\ logged' = Append(logged, [from |-> committed, to |-> planned,
                                 valid |-> counts.valid + counts.bad,
                                 bad |-> counts.bad])
    /\ UNCHANGED <<counts, tables>>

WriteMetrics ==
    /\ Statement("metrics", "commit")
    /\ logged' = Append(logged, [from |-> committed, to |-> planned,
                                 valid |-> counts.valid, bad |-> counts.bad])
    /\ UNCHANGED <<counts, tables>>

ProcessBatch ==
    IsEmpty \/ CountValid \/ CountBad \/ AppendValid \/ AppendQuarantined \/ WriteMetrics

-----------------------------------------------------------------------------

JobStep == FirstStart \/ Restart \/ PlanBatch \/ ProcessBatch \/ CommitBatch

StreamNext ==
    \/ \E e \in Events : Publish(e)
    \/ Expire
    \/ JobStep
    \/ Crash

StreamSpec == StreamInit /\ [][StreamNext]_streamVars

-----------------------------------------------------------------------------
(* Properties                                                              *)

Stored(o) == IF topic[o] \in BadEvents THEN quarantine[o] > 0 ELSE raw[o] > 0

\* At least once: the checkpoint never passes an event that is in neither
\* table, whatever statement the job failed in, unless the topic dropped it
\* before it was read.
AtLeastOnce ==
    \A o \in Offsets : origin < o /\ o <= committed => Stored(o) \/ o <= expired

\* An event gets a second copy only by a failure: no batch is run again once it
\* is completed, and batches do not overlap. No event is in both tables.
CopiesOnlyByReplay ==
    \A o \in Offsets : /\ raw[o] <= 1 + crashes /\ quarantine[o] <= 1 + crashes
                       /\ raw[o] = 0 \/ quarantine[o] = 0

LoggedValid == [i \in DOMAIN logged |-> logged[i].valid]
LoggedBad == [i \in DOMAIN logged |-> logged[i].bad]

\* The quality metrics never claim more rows than the tables got, except that
\* an event may expire between the count and the append: each expired event is
\* then counted too much once, however often its batch is replayed.
MetricsBacked ==
    /\ SumFunction(LoggedValid) <= SumFunction(raw) + expired
    /\ SumFunction(LoggedBad) <= SumFunction(quarantine) + expired

\* Every completed batch that the topic still holds left a line in the file.
EveryBatchLogged ==
    \A o \in Offsets : origin < o /\ o <= committed /\ expired < o =>
        \E i \in DOMAIN logged : logged[i].from < o /\ o <= logged[i].to

\* The append is idempotent, so that a replayed batch adds nothing. It is not:
\* the failure of any later statement repeats it.
AppendIdempotent == \A o \in Offsets : raw[o] <= 1
=============================================================================
